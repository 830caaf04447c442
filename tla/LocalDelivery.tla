---------------------------- MODULE LocalDelivery ----------------------------
(***************************************************************************)
(* Registrations and their delivery: the registration table and the        *)
(* deliveries of BundleDaemon, Registration and APIRegistration, and the   *)
(* threads of APIServer that serve the applications.                       *)
(*                                                                         *)
(* A thread of an application takes the steps of a call without a lock, so *)
(* the daemon and the other threads may act between them, and a step may   *)
(* use a registration object that was deleted.  Such a step finds there    *)
(* what the deletion left, or it ends the process, like an assertion that  *)
(* fails: Crash is possible at every step.                                 *)
(***************************************************************************)
EXTENDS Naturals, FiniteSets, Sequences, SequencesExt, Selection

CONSTANTS
    Bundles,         \* bundles for local registrations
    Regs,            \* registrations, by their ids
    Clients,         \* connections of applications to the API server
    Matches,         \* Matches[b]: registrations whose endpoint matches b
    Custodial,       \* bundles that request custody
    Perishable,      \* bundles whose lifetime may end
    Timed,           \* registrations with a timer; the others have expiration 0
    Drops,           \* registrations with failure action DROP
    Binds,           \* Binds[c]: registrations that c binds by their id
    Registers,       \* Registers[c]: registrations that c makes and ends
    MaxCrashes,      \* bound: restarts of the daemon
    MaxQueue,        \* bound: events that are queued when a registration is bound
    None

ASSUME BundlesAssumption == /\ IsFiniteSet(Bundles)
                            /\ Matches \in [Bundles -> SUBSET Regs]
                            /\ Custodial \subseteq Bundles
                            /\ Perishable \subseteq Bundles
ASSUME RegsAssumption == /\ IsFiniteSet(Regs)
                         /\ Timed \subseteq Regs
                         /\ Drops \subseteq Regs
                         /\ Binds \in [Clients -> SUBSET Regs]
                         /\ Registers \in [Clients -> SUBSET Regs]
                         /\ None \notin Regs \cup Clients
ASSUME BoundAssumption == MaxCrashes \in Nat /\ MaxQueue \in Nat

VARIABLES
    pending,      \* pending_bundles_
    armed,        \* bundles whose expiration timer is scheduled
    custody,      \* bundles in local custody (a flag that is stored)
    store,        \* the data store of bundles
    reglist,      \* reglist_ of the RegistrationTable
    regstore,     \* the data store of registrations
    active,       \* registrations that are active_
    expired,      \* ... that are expired_
    timers,       \* ... whose expiration timer is scheduled
    lists,        \* bundle_list_ of each registration
    delivered,    \* bundles DELIVERED to a registration in the forwarding
                  \* log, and so in its delivery_cache_
    eventq,       \* the event queue of the daemon
    loading,      \* events that the restarted daemon has still to handle
    firing,       \* the registration whose timer runs, or None
    bindings,     \* bindings_ of each client
    call,         \* what the thread of each client is doing
    arrived, over, made, crashes,
    owed,         \* ghost: <<r, b>> where r was given b, has not dropped it,
                  \* and no application got it from r yet
    failed,       \* ghost: those of owed that a call took from r and lost
    taken,        \* ghost: bundles that an application got or that were dropped
    gap           \* ghost: bundles that were stored by a daemon that stopped
                  \* before it accepted custody

bundleVars == <<pending, armed, custody, store>>
table == <<reglist, regstore>>
regs == <<active, expired, timers>>
delivery == <<lists, delivered, owed, failed, taken>>
events == <<eventq, loading, firing>>
clients == <<bindings, call>>
inputs == <<arrived, over, made, crashes, gap>>
vars == <<bundleVars, table, regs, delivery, events, clients, inputs>>

Idle == [op |-> "idle"]
Received(b, source) == [type |-> "received", bundle |-> b, source |-> source]
Delivered(b, r) == [type |-> "delivered", bundle |-> b, reg |-> r]
BundleEvent(type, b) == [type |-> type, bundle |-> b]
\* c waits for the event to be processed, unless it is None
RegEvent(type, r, c) == [type |-> type, reg |-> r, client |-> c]

InitialRegs == Regs \ UNION {Registers[c] : c \in Clients}

Init ==
    /\ pending = <<>> /\ armed = {} /\ custody = {} /\ store = {}
    /\ reglist = SetToSeq(InitialRegs) /\ regstore = InitialRegs
    /\ active = {} /\ expired = InitialRegs \ Timed
    /\ timers = InitialRegs \cap Timed
    /\ lists = [r \in Regs |-> <<>>]
    /\ delivered = [r \in Regs |-> {}]
    /\ owed = {} /\ failed = {} /\ taken = {} /\ gap = {}
    /\ eventq = <<>> /\ loading = <<>> /\ firing = None
    /\ bindings = [c \in Clients |-> <<>>]
    /\ call = [c \in Clients |-> Idle]
    /\ arrived = {} /\ over = {} /\ made = InitialRegs /\ crashes = 0

-----------------------------------------------------------------------------
(* Events and references *)

Listed(r) == r \in ToSet(reglist)

\* The daemon thread handles the next event: one of those that it posts to
\* itself while it loads, or one of the queue.
Event == IF loading = <<>> THEN Head(eventq) ELSE Head(loading)
Rest == IF loading = <<>> THEN Tail(eventq) ELSE eventq
Current(type) ==
    /\ firing = None
    /\ loading # <<>> \/ eventq # <<>>
    /\ Event.type = type
    /\ loading' = IF loading = <<>> THEN loading ELSE Tail(loading)
    /\ UNCHANGED firing

BundlesOf(q) == {e.bundle : e \in {f \in ToSet(q) : "bundle" \in DOMAIN f}}

\* mutant: the lists of the registrations hold no reference
HeldWithoutLists ==
    ToSet(pending') \cup {call[c].bundle : c \in {d \in Clients : call[d].op = "popped"}}
\* What holds a BundleRef or a list mapping after a step of the daemon,
\* events aside.
Held ==
    ToSet(pending') \cup (UNION {ToSet(lists'[r]) : r \in Regs})
    \cup {call[c].bundle : c \in {d \in Clients : call[d].op = "popped"}}

\* The event queue q, and the BundleFreeEvents of the stored bundles whose
\* last reference goes in this step (Bundle::del_ref).
Post(q) ==
    LET freed == SetToSeq(store' \ (Held \cup BundlesOf(q) \cup BundlesOf(loading')))
    IN  eventq' = q \o [i \in DOMAIN freed |-> BundleEvent("free", freed[i])]

-----------------------------------------------------------------------------
(* Bundles in the daemon *)

\* deliver_to_registration, of a sequence of pairs <<registration, bundle>>:
\* what was not delivered yet goes to the list of the registration, or is
\* dropped there, which posts an event.
New == {p \in Regs \X Bundles : p[2] \notin delivered[p[1]]}
Dropped == {p \in New : p[1] \notin active /\ p[1] \in Drops}
Queued == New \ Dropped
DropEvents(pairs) ==
    LET dropped == SelectIn(pairs, Dropped)
    IN  [i \in DOMAIN dropped |-> Delivered(dropped[i][2], dropped[i][1])]
\* What the list of r gets.
Onto(r, pairs) ==
    LET mine == SelectIn(pairs, {p \in Queued : p[1] = r})
    IN  [i \in DOMAIN mine |-> mine[i][2]]
Deliver(pairs) ==
    /\ delivered' = [r \in Regs |->
                        delivered[r] \cup {b \in Bundles : <<r, b>> \in ToSet(pairs)}]
    /\ lists' = [r \in Regs |-> lists[r] \o Onto(r, pairs)]
    /\ owed' = (owed \ (ToSet(pairs) \cap Dropped)) \cup (ToSet(pairs) \cap Queued)
    /\ failed' = failed \ (ToSet(pairs) \cap New)
    /\ taken' = taken \cup {p[2] : p \in ToSet(pairs) \cap Dropped}

\* can_delete_bundle, after the handler.
CanDelete(b, held) == b \notin held /\ \E r \in Regs : b \in delivered'[r]

\* mutant: the expiration timer is not cancelled
TryToDeleteOnly(b, list, held) ==
    IF CanDelete(b, held)
    THEN /\ pending' = RemoveFirst(list, b) /\ custody' = held \ {b}
         /\ armed' = armed
    ELSE /\ pending' = list /\ custody' = held
         /\ armed' = armed \cup ({b} \cap (ToSet(list) \ ToSet(pending)))
\* try_to_delete, of a bundle that is perhaps in the given pending list and
\* custody; a bundle that has just become pending gets an expiration timer.
TryToDelete(b, list, held) ==
    IF CanDelete(b, held)
    THEN /\ pending' = RemoveFirst(list, b) /\ custody' = held \ {b}
         /\ armed' = armed \ {b}
    ELSE /\ pending' = list /\ custody' = held
         /\ armed' = armed \cup ({b} \cap (ToSet(list) \ ToSet(pending)))

\* handle_bundle_received, for whole bundles that are no duplicates.
HandleReceived ==
    /\ Current("received")
    /\ LET b == Event.bundle
           matching == SelectIn(reglist, Matches[b])
           pairs == [i \in DOMAIN matching |-> <<matching[i], b>>]
           accepted == IF Event.source = "store" THEN {} ELSE {b} \cap Custodial
       IN  /\ store' = store \cup {b}
           /\ \/ /\ b \in over        \* add_to_pending: not ok_to_route
                 /\ UNCHANGED delivery
                 /\ TryToDelete(b, Append(pending, b), custody)
                 /\ Post(Rest)
              \/ /\ b \notin over
                 /\ Deliver(pairs)
                 /\ TryToDelete(b, Append(pending, b), custody \cup accepted)
                 /\ Post(Rest \o DropEvents(pairs))
    /\ UNCHANGED <<table, regs, clients, inputs>>

\* handle_bundle_delivered, then try_to_delete.
HandleDelivered ==
    /\ Current("delivered")
    /\ UNCHANGED <<store, table, regs, delivery, clients, inputs>>
    /\ TryToDelete(Event.bundle, pending, custody \ {Event.bundle})
    /\ Post(Rest)

\* handle_bundle_expired: delete_bundle.
HandleBundleExpired ==
    /\ Current("bundle_expired")
    /\ LET b == Event.bundle
       IN  /\ pending' = RemoveFirst(pending, b) /\ armed' = armed \ {b}
           /\ custody' = custody \ {b}
    /\ UNCHANGED <<store, table, regs, delivery, clients, inputs>>
    /\ Post(Rest)

HandleFree ==
    /\ Current("free")
    /\ store' = store \ {Event.bundle}
    /\ UNCHANGED <<pending, armed, custody, table, regs, delivery, clients, inputs>>
    /\ Post(Rest)

-----------------------------------------------------------------------------
(* Registrations in the daemon *)

\* mutant: the notifier of the event is forgotten
NotifyNone(c) == UNCHANGED call
\* The client that posted the event and waits for it goes on.
Notify(c) == call' = IF c = None THEN call ELSE [call EXCEPT ![c] = Idle]

\* mutant: pending bundles are not looked at
NoneWaiting(r) == <<>>
\* The pending bundles for a registration that is added.
Waiting(r) ==
    LET mine == SelectIn(pending, {b \in Bundles : r \in Matches[b]})
    IN  [i \in DOMAIN mine |-> <<r, mine[i]>>]

\* handle_registration_added; one that was loaded is stored already.
HandleAdded ==
    /\ Current("reg_added")
    /\ LET r == Event.reg
       IN  /\ reglist' = Append(reglist, r) /\ regstore' = regstore \cup {r}
           /\ Deliver(Waiting(r))
           /\ Notify(Event.client)
           /\ UNCHANGED <<bundleVars, regs, bindings, inputs>>
           /\ Post(Rest \o DropEvents(Waiting(r)))

\* RegistrationTable::del.
DeleteFromTable(r) ==
    /\ reglist' = RemoveFirst(reglist, r) /\ regstore' = regstore \ {r}
    /\ owed' = {p \in owed : p[1] # r}
    /\ UNCHANGED <<lists, delivered, failed, taken>>

\* handle_registration_removed.
HandleRemoved ==
    /\ Current("reg_removed")
    /\ LET r == Event.reg
       IN  /\ Notify(Event.client)
           /\ UNCHANGED <<bundleVars, regs, bindings, inputs>>
           /\ \/ /\ ~Listed(r)
                 /\ UNCHANGED <<table, delivery>> /\ Post(Rest)
              \/ /\ Listed(r)
                 /\ DeleteFromTable(r)
                 /\ Post(Append(Rest, RegEvent("reg_delete", r, None)))

\* handle_registration_expired; the delete request is posted at the head.
HandleExpired ==
    /\ Current("reg_expired")
    /\ LET r == Event.reg
       IN  /\ UNCHANGED <<bundleVars, active, timers, clients, inputs>>
           /\ \/ /\ ~Listed(r)
                 /\ UNCHANGED <<table, expired, delivery>> /\ Post(Rest)
              \/ /\ Listed(r) /\ r \in active
                 /\ expired' = expired \cup {r}
                 /\ UNCHANGED <<table, delivery>> /\ Post(Rest)
              \/ /\ Listed(r) /\ r \notin active
                 /\ expired' = expired \cup {r}
                 /\ DeleteFromTable(r)
                 /\ Post(<<RegEvent("reg_delete", r, None)>> \o Rest)

\* handle_registration_delete: the object goes, with its timer and its list.
HandleRegDelete ==
    /\ Current("reg_delete")
    /\ LET r == Event.reg
       IN  timers' = timers \ {r} /\ lists' = [lists EXCEPT ![r] = <<>>]
    /\ UNCHANGED <<bundleVars, table, active, expired, delivered, owed, failed, taken, clients, inputs>>
    /\ Post(Rest)

\* Registration::ExpirationTimer::timeout, in the daemon thread: it marks the
\* registration, then looks whether an application is bound to it.
TimerFires(r) ==
    /\ firing = None /\ loading = <<>> /\ r \in timers
    /\ timers' = timers \ {r} /\ expired' = expired \cup {r}
    /\ firing' = r
    /\ UNCHANGED <<bundleVars, table, active, delivery, eventq, loading, clients, inputs>>
TimerPosts ==
    /\ firing # None
    /\ firing' = None
    /\ eventq' = IF firing \in active THEN eventq
                 ELSE Append(eventq, RegEvent("reg_expired", firing, None))
    /\ UNCHANGED <<bundleVars, table, regs, delivery, loading, clients, inputs>>

\* ExpirationTimer::timeout of a bundle posts at the head.
BundleTimeout(b) ==
    /\ firing = None /\ loading = <<>> /\ b \in armed \cap over
    /\ armed' = armed \ {b}
    /\ eventq' = <<BundleEvent("bundle_expired", b)>> \o eventq
    /\ UNCHANGED <<pending, custody, store, table, regs, delivery, loading, firing, clients, inputs>>

Daemon == \/ HandleReceived \/ HandleDelivered \/ HandleBundleExpired \/ HandleFree
          \/ HandleAdded \/ HandleRemoved \/ HandleExpired \/ HandleRegDelete
          \/ TimerPosts

-----------------------------------------------------------------------------
(* The threads of the API server *)

Bound(c, r) == r \in ToSet(bindings[c])
ghosts == <<owed, failed, taken>>
daemonVars == <<pending, armed, custody, store, table, delivered, loading, firing>>

\* handle_register: the registration is bound before the daemon knows it,
\* unless it is to start passive; post_and_wait.
Register(c, r) ==
    /\ call[c] = Idle /\ r \in Registers[c] \ made
    /\ made' = made \cup {r}
    /\ timers' = timers \cup ({r} \cap Timed) /\ expired' = expired \cup ({r} \ Timed)
    /\ \/ bindings' = [bindings EXCEPT ![c] = Append(@, r)] /\ active' = active \cup {r}
       \/ UNCHANGED <<bindings, active>>
    /\ eventq' = Append(eventq, RegEvent("reg_added", r, c))
    /\ call' = [call EXCEPT ![c] = [op |-> "wait"]]
    /\ UNCHANGED <<daemonVars, lists, ghosts, arrived, over, crashes, gap>>

\* handle_bind: the registration is found, and is not active ...
LookupToBind(c, r) ==
    /\ call[c] = Idle /\ r \in Binds[c] /\ Len(eventq) < MaxQueue
    /\ Listed(r) /\ r \notin active
    /\ call' = [call EXCEPT ![c] = [op |-> "bind", reg |-> r]]
    /\ UNCHANGED <<daemonVars, regs, lists, ghosts, eventq, bindings, inputs>>
\* ... and is bound.
Bind(c) ==
    /\ call[c].op = "bind"
    /\ bindings' = [bindings EXCEPT ![c] = Append(@, call[c].reg)]
    /\ active' = active \cup {call[c].reg}
    /\ call' = [call EXCEPT ![c] = Idle]
    /\ UNCHANGED <<daemonVars, expired, timers, lists, ghosts, eventq, inputs>>

\* The first steps of handle_unbind and of a turn of the loop of close_client.
Release(c, r, next) ==
    /\ bindings' = [bindings EXCEPT ![c] = RemoveFirst(@, r)]
    /\ active' = active \ {r}
    /\ call' = [call EXCEPT ![c] = [op |-> "released", reg |-> r, next |-> next]]
    /\ UNCHANGED <<daemonVars, expired, timers, lists, ghosts, eventq, inputs>>
Unbind(c, r) ==
    /\ call[c] = Idle /\ Listed(r) /\ Bound(c, r)
    /\ r \in active                  \* asserted
    /\ Release(c, r, "idle")
Close(c) ==
    /\ call[c] = Idle /\ bindings[c] # <<>>
    /\ Release(c, Head(bindings[c]), "close")
CloseNext(c) ==
    /\ call[c].op = "close" /\ bindings[c] # <<>>
    /\ Release(c, Head(bindings[c]), "close")
Closed(c) ==
    /\ call[c].op = "close" /\ bindings[c] = <<>>
    /\ call' = [call EXCEPT ![c] = Idle]
    /\ UNCHANGED <<daemonVars, regs, lists, ghosts, eventq, bindings, inputs>>

\* mutant: what is released is left to its timer
NoneEnds(r) == FALSE
\* What is released after it expired ends now.
Ends(r) == r \in expired
Released(c) ==
    /\ call[c].op = "released"
    /\ eventq' = IF Ends(call[c].reg)
                 THEN Append(eventq, RegEvent("reg_expired", call[c].reg, None)) ELSE eventq
    /\ call' = [call EXCEPT ![c] = [op |-> call[c].next]]
    /\ UNCHANGED <<daemonVars, regs, lists, ghosts, bindings, inputs>>

\* handle_unregister of a registration that this client has bound: forced to
\* expire, it stays until it is released.
ForceExpire(c, r) ==
    /\ call[c] = Idle /\ r \in Registers[c] /\ Listed(r)
    /\ Bound(c, r) /\ r \in active \ expired
    /\ expired' = expired \cup {r} /\ timers' = timers \ {r}
    /\ UNCHANGED <<daemonVars, active, lists, ghosts, eventq, clients, inputs>>

\* mutant: a bound registration is removed at once
MayRemoveBound(c, r) == TRUE
MayRemove(c, r) == r \notin active
\* handle_unregister of a passive one: it is found ...
LookupToUnregister(c, r) ==
    /\ call[c] = Idle /\ r \in Registers[c]
    /\ Listed(r) /\ MayRemove(c, r)
    /\ call' = [call EXCEPT ![c] = [op |-> "unregister", reg |-> r]]
    /\ UNCHANGED <<daemonVars, regs, lists, ghosts, eventq, bindings, inputs>>
\* ... and its event is posted; post_and_wait.
Unregister(c) ==
    /\ call[c].op = "unregister"
    /\ eventq' = Append(eventq, RegEvent("reg_removed", call[c].reg, c))
    /\ call' = [call EXCEPT ![c] = [op |-> "wait"]]
    /\ UNCHANGED <<daemonVars, regs, lists, ghosts, bindings, inputs>>

\* The first binding of c whose list is not empty.
Ready(c) ==
    LET full == SelectIn(bindings[c], {r \in Regs : lists[r] # <<>>})
    IN  {full[i] : i \in DOMAIN full \cap {1}}
\* handle_recv: wait_for_notify finds a registration ...
WaitForNotify(c) ==
    /\ call[c] = Idle
    /\ \E r \in Ready(c) : call' = [call EXCEPT ![c] = [op |-> "recv", reg |-> r]]
    /\ UNCHANGED <<daemonVars, regs, lists, ghosts, eventq, bindings, inputs>>
\* ... the first bundle of its list is taken ...
PopFront(c) ==
    /\ call[c].op = "recv"
    /\ LET r == call[c].reg
       IN  /\ lists[r] # <<>>         \* asserted
           /\ call' = [call EXCEPT ![c] = [op |-> "popped", reg |-> r, bundle |-> Head(lists[r])]]
           /\ lists' = [lists EXCEPT ![r] = Tail(@)]
    /\ UNCHANGED <<daemonVars, regs, ghosts, eventq, bindings, inputs>>
\* ... and copied for the application ...
Copied(c) ==
    /\ call[c].op = "popped"
    /\ owed' = owed \ {<<call[c].reg, call[c].bundle>>}
    /\ taken' = taken \cup {call[c].bundle}
    /\ eventq' = Append(eventq, Delivered(call[c].bundle, call[c].reg))
    /\ call' = [call EXCEPT ![c] = Idle]
    /\ UNCHANGED <<daemonVars, regs, lists, failed, bindings, inputs>>

\* What the daemon and the other clients hold.
HeldBeside(c) ==
    ToSet(pending) \cup (UNION {ToSet(lists[r]) : r \in Regs})
    \cup {call[d].bundle : d \in {e \in Clients \ {c} : call[e].op = "popped"}}
    \cup BundlesOf(eventq) \cup BundlesOf(loading)
\* mutant: the delivery is reported before the copy
FailsAfterReport(c) ==
    /\ call[c].op = "popped"
    /\ failed' = failed \cup {<<call[c].reg, call[c].bundle>>}
    /\ eventq' = Append(eventq, Delivered(call[c].bundle, call[c].reg))
    /\ call' = [call EXCEPT ![c] = Idle]
    /\ UNCHANGED <<daemonVars, regs, lists, owed, taken, bindings, inputs>>
\* ... or the copy fails: the reply is an error, no event is posted, and the
\* reference goes, which may be the last one (Bundle::del_ref).
CopyFails(c) ==
    /\ call[c].op = "popped"
    /\ failed' = failed \cup {<<call[c].reg, call[c].bundle>>}
    /\ eventq' = IF call[c].bundle \in store \ HeldBeside(c)
                 THEN Append(eventq, BundleEvent("free", call[c].bundle)) ELSE eventq
    /\ call' = [call EXCEPT ![c] = Idle]
    /\ UNCHANGED <<daemonVars, regs, lists, owed, taken, bindings, inputs>>

\* A call of an application, and the steps that its thread then takes.
Call(c) ==
    \/ \E r \in Regs : \/ Register(c, r) \/ LookupToBind(c, r) \/ Unbind(c, r)
                       \/ ForceExpire(c, r) \/ LookupToUnregister(c, r)
    \/ Close(c) \/ WaitForNotify(c)
Continue(c) ==
    \/ Bind(c) \/ CloseNext(c) \/ Closed(c) \/ Released(c) \/ Unregister(c)
    \/ PopFront(c) \/ Copied(c) \/ CopyFails(c)

-----------------------------------------------------------------------------
(* Arrivals, lifetimes and crashes *)

Arrive(b) ==
    /\ b \notin arrived
    /\ arrived' = arrived \cup {b}
    /\ eventq' = Append(eventq, Received(b, "new"))
    /\ UNCHANGED <<daemonVars, regs, lists, ghosts, clients, over, made, crashes, gap>>

LifetimeEnds(b) ==
    /\ b \in Perishable \ over
    /\ over' = over \cup {b}
    /\ UNCHANGED <<daemonVars, regs, lists, ghosts, eventq, clients, arrived, made, crashes, gap>>

\* The bundle of the event that the daemon handles next: it is written to the
\* data store first (add_to_pending), and again when its custody is accepted.
InHand == {b \in Bundles : loading = <<>> /\ firing = None /\ eventq # <<>>
                           /\ Head(eventq) = Received(b, "new")}
\* The daemon stops, between two handlers or between these two writes, and
\* load_registrations and load_bundles handle an event for each registration
\* and bundle that is stored.  The applications connect again.
Crash ==
    /\ crashes < MaxCrashes
    /\ crashes' = crashes + 1
    /\ \E written \in {{}, InHand} :
          store' = store \cup written /\ gap' = gap \cup written
    /\ pending' = <<>> /\ armed' = {} /\ UNCHANGED <<custody, regstore>>
    /\ reglist' = <<>>
    /\ active' = {} /\ expired' = regstore \ Timed
    /\ timers' = regstore \cap Timed
    /\ lists' = [r \in Regs |-> <<>>] /\ delivered' = [r \in Regs |-> {}]
    /\ eventq' = <<>> /\ firing' = None
    /\ LET rs == SetToSeq(regstore)  bs == SetToSeq(store')
       IN  loading' = [i \in DOMAIN rs |-> RegEvent("reg_added", rs[i], None)]
                      \o [i \in DOMAIN bs |-> Received(bs[i], "store")]
    /\ bindings' = [c \in Clients |-> <<>>] /\ call' = [c \in Clients |-> Idle]
    /\ UNCHANGED <<arrived, over, made, ghosts>>

Next == \/ Daemon \/ Crash
        \/ \E r \in Regs : TimerFires(r)
        \/ \E b \in Bundles : BundleTimeout(b) \/ Arrive(b) \/ LifetimeEnds(b)
        \/ \E c \in Clients : Call(c) \/ Continue(c)

Spec == Init /\ [][Next]_vars
\* The daemon thread and the threads of the API server keep running; whether
\* an application calls, and when, is up to it.
FairSpec == Spec /\ WF_vars(Daemon) /\ \A c \in Clients : WF_vars(Continue(c))

-----------------------------------------------------------------------------
(* Properties *)

Events == [type : {"received"}, bundle : Bundles, source : {"new", "store"}]
          \cup [type : {"delivered"}, bundle : Bundles, reg : Regs]
          \cup [type : {"bundle_expired", "free"}, bundle : Bundles]
          \cup [type : {"reg_added", "reg_removed"}, reg : Regs, client : Clients \cup {None}]
          \cup [type : {"reg_expired", "reg_delete"}, reg : Regs, client : {None}]
Calls == [op : {"idle", "wait", "close"}] \cup [op : {"bind", "unregister", "recv"}, reg : Regs]
         \cup [op : {"released"}, reg : Regs, next : {"idle", "close"}]
         \cup [op : {"popped"}, reg : Regs, bundle : Bundles]

\* Types; no bundle is pending twice, no registration is listed twice.
TypeOK ==
    /\ pending \in Seq(Bundles) /\ IsInjective(pending)
    /\ armed \subseteq ToSet(pending) /\ custody \subseteq Bundles /\ store \subseteq Bundles
    /\ reglist \in Seq(Regs) /\ IsInjective(reglist) /\ regstore \subseteq Regs
    /\ active \subseteq Regs /\ expired \subseteq Regs /\ timers \subseteq Timed
    /\ lists \in [Regs -> Seq(Bundles)] /\ delivered \in [Regs -> SUBSET Bundles]
    /\ eventq \in Seq(Events) /\ loading \in Seq(Events) /\ firing \in Regs \cup {None}
    /\ bindings \in [Clients -> Seq(Regs)] /\ call \in [Clients -> Calls]
    /\ arrived \subseteq Bundles /\ over \subseteq Perishable /\ made \subseteq Regs
    /\ crashes \in 0..MaxCrashes /\ owed \subseteq Regs \X Bundles
    /\ failed \subseteq Regs \X Bundles /\ taken \subseteq Bundles /\ gap \subseteq Bundles

\* Whichever comes first, the registration or the bundle: what is pending was
\* delivered to every registration that is listed and matches it.
NoneMissed ==
    \A b \in ToSet(pending) \ over : \A r \in Matches[b] \cap ToSet(reglist) : b \in delivered[r]

\* A bundle that a registration was given stays with it until an application
\* has it or a call has failed to copy it, in memory and in the data store,
\* although another registration got it, its custody was released and it is
\* pending no more; and the restarted daemon gives it to the registration
\* again, within its lifetime.
OwedIsKept ==
    \A p \in owed \ failed :
        LET r == p[1]  b == p[2]
        IN  \/ b \in over
            \/ /\ b \in store
               /\ \/ loading # <<>> \/ b \in ToSet(lists[r])
                  \/ \E c \in Clients : /\ call[c].op = "popped"
                                        /\ call[c].reg = r /\ call[c].bundle = b

\* A custodial bundle stays in the data store and in custody until an
\* application has it or it was dropped for a passive registration, within its
\* lifetime: to be on the list of a registration is not enough, nor is a call
\* that took it and failed.  The daemon that stores it may stop before it has
\* custody.
CustodyUntilTaken ==
    \A b \in Custodial \ (over \cup taken \cup gap) :
        (b \in store \/ \E p \in owed : p[2] = b) => b \in store \cap custody

\* A registration leaves the table while an application is bound to it, and
\* the daemon goes on.
RemovedInUse(r) == /\ Listed(r) /\ r \notin ToSet(reglist') /\ crashes' = crashes
                   /\ \E c \in Clients : Bound(c, r)
\* At most one application names r.
Sole(r) == \A c, d \in Clients :
              r \in (Binds[c] \cup Registers[c]) \cap (Binds[d] \cup Registers[d]) => c = d

\* What an application has bound stays until it is unbound, although it was
\* unregistered meanwhile or its timer fired at any step (handle_unregister,
\* handle_registration_expired): if no other application names it.
OwnInUseStays == [][\A r \in Regs : Sole(r) => ~RemovedInUse(r)]_vars

\* A call that waits for the daemon returns.
CallsReturn == \A c \in Clients : call[c].op = "wait" ~> call[c].op # "wait"

\* A client is about to look whether r, which it released, has expired.
Releasing(r) == \E c \in Clients : call[c].op = "released" /\ call[c].reg = r
\* A registration that has expired and is not bound leaves the table, unless
\* it is bound before or a restart sets its timer again, whether the timer
\* found it bound, unbound or between the steps of an unbind.  One without a
\* timer has expired from the start: it goes when it is released.
ExpiredGoes ==
    \A r \in Regs :
        (Listed(r) /\ r \in expired \ active /\ (r \in Timed \/ Releasing(r)))
            ~> (~Listed(r) \/ r \in active \/ r \notin expired)

\* "This shouldn't ever happen" (handle_registration_expired): the event of
\* an expired registration that the table does not have.
ExpiredIsListed ==
    (loading = <<>> /\ eventq # <<>> /\ Head(eventq).type = "reg_expired")
        => Listed(Head(eventq).reg)
=============================================================================
