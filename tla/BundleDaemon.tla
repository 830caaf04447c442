---------------------------- MODULE BundleDaemon ----------------------------
(***************************************************************************)
(* The life of a bundle inside one dtnd: the event loop of BundleDaemon,   *)
(* the actions it calls (BundleActions), the table-based router, the link  *)
(* queues, and the connection-oriented convergence layer (CL) that runs in *)
(* a thread of its own.                                                    *)
(*                                                                         *)
(* The daemon thread pops one event at a time and runs its handlers to     *)
(* completion, while the CL threads go on.  A handler that loops (over the *)
(* routes, the deferred bundles, the links) leaves the rest of its work on *)
(* the stack `calls', which the daemon works off before it looks at the    *)
(* event queue or the timers again: the steps in between are where the CL  *)
(* threads interleave.                                                     *)
(*                                                                         *)
(* Bundles fit in one segment and the links are reliable, so a bundle that *)
(* is in flight when the contact breaks has no acknowledged byte and goes  *)
(* back to the link queue.  Destinations are remote singletons.            *)
(***************************************************************************)
EXTENDS Integers, FiniteSets, Sequences, SequencesExt

CONSTANTS
    Bundles,             \* Bundle objects; each one arrives at most once
    Links,
    Nodes,               \* the nodes at the far ends of the links
    Keys,                \* bundle identities: source, timestamp, fragment range
    Key,                 \* [Bundles -> Keys]: two objects may be one bundle
    Routes,              \* the links of the matching routes, by priority
    Action,              \* [Links -> {"forward", "copy"}], per route
    Remote,              \* [Links -> Nodes]
    Passive,             \* opportunistic links: only the peer connects
    QueueHigh, QueueLow, \* params_.qlimit_bundles_high_ and _low_
    MaxContacts,         \* bound: contacts of a link that are alive at once
    EarlyDeletion, SuppressDuplicates, AcceptCustody,   \* params_ of the daemon
    CustodyRequested,    \* the bundles that ask for custody transfer
    Stimuli,             \* what the environment does in this instance
    NoBundle, NoLink

AllStimuli == {"app", "peer", "expire", "doa", "cancel", "cancelsend", "signal",
               "custodytimeout", "break", "idle", "user", "crash"}

Unseen == "unseen"      \* no entry in the reception cache
NullEid == "dtn:none"   \* an entry whose bundle came from no link

ASSUME BundlesAssumption ==
    /\ NoBundle \notin Bundles
    /\ Key \in [Bundles -> Keys]
    /\ CustodyRequested \subseteq Bundles

ASSUME LinksAssumption ==
    /\ NoLink \notin Links
    /\ Routes \in Seq(Links)
    /\ Action \in [Links -> {"forward", "copy"}]
    /\ Remote \in [Links -> Nodes]
    /\ Unseen \notin Nodes
    /\ Passive \subseteq Links

ASSUME ParamsAssumption ==
    /\ QueueHigh \in Nat
    /\ QueueLow \in Nat
    /\ MaxContacts \in Nat \ {0}
    /\ EarlyDeletion \in BOOLEAN
    /\ SuppressDuplicates \in BOOLEAN
    /\ AcceptCustody \in BOOLEAN
    /\ Stimuli \subseteq AllStimuli

VARIABLES
    \* bundles
    all,        \* all_bundles_: the objects that exist
    pending,    \* pending_bundles_
    custody,    \* custody_bundles_
    local,      \* bundles with local_custody set
    store,      \* the data store: "absent", "plain" or "custody" (its saved flag)
    expTimer,   \* bundles with an expiration timer scheduled
    ctimer,     \* custody timer per bundle and link
    fwd,        \* forwarding log: latest state per bundle and link
    blocks,     \* xmit_blocks: the (bundle, link) pairs with formatted blocks
    rcache,     \* router's reception cache: previous hop per key
    \* links
    linkState,
    contact,    \* number of the link's latest contact
    queue,      \* link->queue()
    inflight,   \* link->inflight()
    deferred,   \* router's deferred list of the link
    reroute,    \* the link's entry in reroute_timers_
    \* connections, one per contact
    phase,      \* the connection thread: "none" when link->contact() is NULL
    sending,    \* the connection's own inflight_ list
    current,    \* current_inflight_ while none of its data is sent
    cmds,       \* cancel commands in the connection's cmdqueue_
    breaking,   \* the daemon has asked the connection to break
    \* the daemon thread
    eventq,
    calls,      \* work left of the event being handled
    \* the environment
    arrived,    \* the bundle objects that have been created
    exposed     \* bundles whose data has left on some link

bundleVars == <<all, pending, custody, local, store, expTimer, ctimer>>
routeVars  == <<fwd, blocks, rcache>>
linkVars   == <<linkState, contact, queue, inflight, deferred, reroute>>
connVars   == <<phase, sending, current, cmds, breaking>>
daemonVars == <<eventq, calls>>
envVars    == <<arrived, exposed>>
vars == <<bundleVars, routeVars, linkVars, connVars, daemonVars, envVars>>

FwdStates   == {"none", "received", "queued", "transmitted", "cancelled", "custodytimeout"}
TimerStates == {"none", "pending", "fired", "cancelled", "orphan"}
\* Events about a bundle, about a bundle on a link, and about a link.
Event ==
    [type : {"received"}, b : Bundles, l : Links \cup {NoLink}, c : {0}, why : {""}]
    \cup [type : {"expired", "deleterequest", "custodysignal"}, b : Bundles, l : {NoLink},
          c : {0}, why : {""}]
    \cup [type : {"transmitted", "sendcancelled", "cancelsend", "custodytimeout"},
          b : Bundles, l : Links, c : {0}, why : {""}]
    \cup [type : {"contactup", "contactdown", "closed", "open"}, b : {NoBundle}, l : Links,
          c : 0..MaxContacts, why : {"", "broken", "idle", "user"}]
Call ==
    [op : {"route", "forward", "drain", "cancel"}, b : Bundles, l : Links]
    \cup [op : {"trydelete"}, b : Bundles, l : {NoLink}]
    \cup [op : {"check", "close"}, b : {NoBundle}, l : Links]
    \cup [op : {"load"}, b : {NoBundle}, l : {NoLink}]

BundleEvent(type, b, l) == [type |-> type, b |-> b, l |-> l, c |-> 0, why |-> ""]
ContactEvent(type, l, c, why) ==
    [type |-> type, b |-> NoBundle, l |-> l, c |-> c, why |-> why]
DoCall(op, b, l) == [op |-> op, b |-> b, l |-> l]

-----------------------------------------------------------------------------
(* Helpers.                                                                *)

\* link->contact(): NULL is 0.
Contact(l) == IF phase[l] = "none" THEN 0 ELSE contact[l]
EndlessContact(l) == contact[l] + 1                           \* mutant
\* A contact is a counted reference: one that an event still names is not reused.
FreeContacts(l) == 1..MaxContacts \ {e.c : e \in {x \in ToSet(eventq) : x.l = l}}
NextContact(l) == CHOOSE c \in FreeContacts(l) : TRUE

Waiting == {"queued", "transmitted"}
QueueIsFull(l)   == Len(queue[l]) > QueueHigh
QueueBelowSpace(l) == Len(queue[l]) < QueueLow - 1                 \* mutant
QueueHasSpace(l) == Len(queue[l]) < QueueLow

\* Mutant of ShouldFwd: only transmissions on the link itself count.
ShouldFwdPerLink(b, l) == fwd[b][l] \notin Waiting
\* BundleRouter::should_fwd, for a singleton destination.  A link shares its
\* remote eid with itself, so the first conjunct covers its own latest entry.
ShouldFwd(b, l) ==
    /\ \A m \in Links : Remote[m] = Remote[l] => fwd[b][m] \notin Waiting
    /\ Action[l] = "forward" =>
         \A m \in Links : Action[m] = "forward" => fwd[b][m] \notin Waiting

ShouldFwdBack(b, l) == ShouldFwd(b, l)                            \* mutant
\* TableBasedRouter::should_fwd adds the reverse-path check.
ShouldFwdRoute(b, l) == rcache[Key[b]] # Remote[l] /\ ShouldFwd(b, l)

CanDeleteInCustody(b) == \E l \in Links : fwd[b][l] = "transmitted"   \* mutant
CanDelete(b) == b \notin local /\ \E l \in Links : fwd[b][l] = "transmitted"

Duplicates(b) == {d \in pending : Key[d] = Key[b]}
NoDuplicateInCustody(b) == FALSE                              \* mutant
DuplicateInCustody(b) == Duplicates(b) \cap local # {}

RouteCalls(b)  == [i \in 1..Len(Routes) |-> DoCall("route", b, Routes[i])]
CancelCalls(b) == [i \in 1..Len(Routes) |-> DoCall("cancel", b, Routes[i])]

\* BundleDaemon::post and post_at_head.
Post(e) == eventq' = Append(eventq, e)
Idle == calls = <<>>
Queued(type) == {e \in ToSet(eventq) : e.type = type}

\* The references that keep a Bundle object alive (BundleRef and list mappings).
Referenced(b) ==
    \/ b \in pending \cup custody \cup expTimer
    \/ \E l \in Links : \/ b \in ToSet(queue[l]) \cup inflight[l] \cup ToSet(deferred[l])
                        \/ b \in ToSet(sending[l]) \cup ToSet(cmds[l])
                        \/ ctimer[b][l] # "none"
    \/ \E e \in ToSet(eventq) : e.b = b /\ e.type # "custodysignal"
    \/ \E c \in ToSet(calls) : c.b = b

-----------------------------------------------------------------------------
(* Start and restart.                                                      *)

InitialState(l) == IF l \in Passive THEN "unavailable" ELSE "available"

Init ==
    /\ all = {} /\ pending = {} /\ custody = {} /\ local = {}
    /\ store = [b \in Bundles |-> "absent"]
    /\ expTimer = {}
    /\ ctimer = [b \in Bundles |-> [l \in Links |-> "none"]]
    /\ fwd = [b \in Bundles |-> [l \in Links |-> "none"]]
    /\ blocks = {}
    /\ rcache = [k \in Keys |-> Unseen]
    /\ linkState = [l \in Links |-> InitialState(l)]
    /\ contact = [l \in Links |-> MaxContacts]
    /\ queue = [l \in Links |-> <<>>]
    /\ inflight = [l \in Links |-> {}]
    /\ deferred = [l \in Links |-> <<>>]
    /\ reroute = [l \in Links |-> "none"]
    /\ phase = [l \in Links |-> "none"]
    /\ sending = [l \in Links |-> <<>>]
    /\ current = [l \in Links |-> NoBundle]
    /\ cmds = [l \in Links |-> <<>>]
    /\ breaking = [l \in Links |-> FALSE]
    /\ eventq = <<>> /\ calls = <<>>
    /\ arrived = {} /\ exposed = {}

\* The process dies: only the data store survives.  The next one starts by
\* loading it, before the event loop.
Crash ==
    /\ "crash" \in Stimuli
    /\ all' = {} /\ pending' = {} /\ custody' = {} /\ local' = {}
    /\ expTimer' = {}
    /\ ctimer' = [b \in Bundles |-> [l \in Links |-> "none"]]
    /\ fwd' = [b \in Bundles |-> [l \in Links |-> "none"]]
    /\ blocks' = {}
    /\ rcache' = [k \in Keys |-> Unseen]
    /\ linkState' = [l \in Links |-> InitialState(l)]
    /\ contact' = [l \in Links |-> MaxContacts]
    /\ queue' = [l \in Links |-> <<>>]
    /\ inflight' = [l \in Links |-> {}]
    /\ deferred' = [l \in Links |-> <<>>]
    /\ reroute' = [l \in Links |-> "none"]
    /\ phase' = [l \in Links |-> "none"]
    /\ sending' = [l \in Links |-> <<>>]
    /\ current' = [l \in Links |-> NoBundle]
    /\ cmds' = [l \in Links |-> <<>>]
    /\ breaking' = [l \in Links |-> FALSE]
    /\ eventq' = <<>>
    /\ calls' = <<DoCall("load", NoBundle, NoLink)>>
    /\ UNCHANGED <<store, envVars>>

Suppressed(b) ==
    /\ Duplicates(b) # {}
    /\ SuppressDuplicates \/ (b \in CustodyRequested /\ DuplicateInCustody(b))

\* load_bundles: one stored bundle, with handle_bundle_received for
\* EVENTSRC_STORE.  The routes are added once the store is loaded, so routing
\* is left for after the load; adding them empties the reception cache.
LoadBundle ==
    /\ ~Idle
    /\ Head(calls).op = "load"
    /\ \E b \in Bundles \ all :
        /\ store[b] # "absent"
        /\ all' = all \cup {b}
        /\ IF Suppressed(b)
           THEN UNCHANGED <<pending, custody, local, expTimer, rcache, eventq, calls>>
           ELSE /\ pending' = pending \cup {b}
                /\ expTimer' = expTimer \cup {b}
                /\ IF store[b] = "custody"
                   THEN /\ local' = local \cup {b}
                        /\ custody' = custody \cup {b}
                   ELSE UNCHANGED <<local, custody>>
                /\ IF rcache[Key[b]] # Unseen
                   THEN /\ eventq' = <<BundleEvent("deleterequest", b, NoLink)>> \o eventq
                        /\ UNCHANGED <<rcache, calls>>
                   ELSE /\ rcache' = [rcache EXCEPT ![Key[b]] = NullEid]
                        /\ calls' = calls \o RouteCalls(b)
                        /\ UNCHANGED eventq
    /\ UNCHANGED <<store, ctimer, fwd, blocks, linkVars, connVars, envVars>>

\* The lifetime of a stored bundle is over: its expiration timer fires before
\* the first event, and custody_bundles_ never sees the bundle.
LoadExpired ==
    /\ "doa" \in Stimuli
    /\ ~Idle
    /\ Head(calls).op = "load"
    /\ \E b \in Bundles \ all :
        /\ store[b] # "absent"
        /\ ~Suppressed(b)
        /\ all' = all \cup {b}
        /\ pending' = pending \cup {b}
        /\ local' = IF store[b] = "custody" THEN local \cup {b} ELSE local
        /\ eventq' = <<BundleEvent("expired", b, NoLink)>> \o eventq
    /\ UNCHANGED <<custody, store, expTimer, ctimer, routeVars, linkVars, connVars, calls,
                   envVars>>

LoadDone ==
    /\ ~Idle
    /\ Head(calls).op = "load"
    /\ \A b \in Bundles \ all : store[b] = "absent"
    /\ calls' = Tail(calls)
    /\ rcache' = [k \in Keys |-> Unseen]
    /\ UNCHANGED <<bundleVars, fwd, blocks, linkVars, connVars, eventq, envVars>>

-----------------------------------------------------------------------------
(* Events.                                                                 *)

\* The daemon takes the event at the head of the queue.
Handle(type) == Idle /\ eventq # <<>> /\ Head(eventq).type = type
Ev == Head(eventq)
Done == eventq' = Tail(eventq)
DoneAfter(e) == eventq' = <<e>> \o Tail(eventq)   \* a handler used post_at_head

\* The reception entry in the forwarding log.
Reception(b, l) ==
    fwd' = IF l = NoLink THEN fwd ELSE [fwd EXCEPT ![b][l] = "received"]

\* handle_bundle_received: a duplicate goes no further.
DiscardDuplicate ==
    /\ Handle("received")
    /\ Suppressed(Ev.b)
    /\ Reception(Ev.b, Ev.l)
    /\ Done
    /\ UNCHANGED <<bundleVars, blocks, rcache, linkVars, connVars, calls, envVars>>

\* add_to_pending finds the lifetime over: the expiration timer fires at once.
ReceiveExpired ==
    /\ "doa" \in Stimuli
    /\ Handle("received")
    /\ ~Suppressed(Ev.b)
    /\ Reception(Ev.b, Ev.l)
    /\ pending' = pending \cup {Ev.b}
    /\ store' = [store EXCEPT ![Ev.b] = "plain"]
    /\ DoneAfter(BundleEvent("expired", Ev.b, NoLink))
    /\ UNCHANGED <<all, custody, local, expTimer, ctimer, blocks, rcache,
                   linkVars, connVars, calls, envVars>>

\* The bundle becomes pending; custody is accepted; the router routes it, or
\* asks for its deletion when its identity is in the reception cache.
ReceiveBundle ==
    /\ Handle("received")
    /\ ~Suppressed(Ev.b)
    /\ Reception(Ev.b, Ev.l)
    /\ pending' = pending \cup {Ev.b}
    /\ expTimer' = expTimer \cup {Ev.b}
    /\ IF Ev.b \in CustodyRequested /\ AcceptCustody /\ ~DuplicateInCustody(Ev.b)
       THEN /\ local' = local \cup {Ev.b}
            /\ custody' = custody \cup {Ev.b}
            /\ store' = [store EXCEPT ![Ev.b] = "custody"]
       ELSE /\ store' = [store EXCEPT ![Ev.b] = "plain"]
            /\ UNCHANGED <<local, custody>>
    /\ IF rcache[Key[Ev.b]] # Unseen
       THEN /\ DoneAfter(BundleEvent("deleterequest", Ev.b, NoLink))
            /\ calls' = <<DoCall("trydelete", Ev.b, NoLink)>>
            /\ UNCHANGED rcache
       ELSE /\ rcache' = [rcache EXCEPT ![Key[Ev.b]] =
                            IF Ev.l = NoLink THEN NullEid ELSE Remote[Ev.l]]
            /\ Done
            /\ calls' = RouteCalls(Ev.b) \o <<DoCall("trydelete", Ev.b, NoLink)>>
    /\ UNCHANGED <<all, ctimer, blocks, linkVars, connVars, envVars>>

\* remove_from_deferred, for the links whose route has one of the actions.
RemoveFromDeferred(b, actions) ==
    deferred' = [l \in Links |-> IF Action[l] \in actions
                                 THEN RemoveFirst(deferred[l], b) ELSE deferred[l]]

\* del_from_inflight and del_from_queue.
StillInflight(b, l) ==                                            \* mutant
    queue' = [queue EXCEPT ![l] = RemoveFirst(@, b)] /\ UNCHANGED inflight
OffLists(b, l) ==
    /\ inflight' = [inflight EXCEPT ![l] = @ \ {b}]
    /\ queue' = [queue EXCEPT ![l] = RemoveFirst(@, b)]

\* handle_bundle_transmitted, in the daemon and in the router.  Without blocks
\* the event is redundant and only the router looks at it.
HandleTransmitted ==
    /\ Handle("transmitted")
    /\ IF <<Ev.b, Ev.l>> \in blocks
       THEN /\ OffLists(Ev.b, Ev.l)
            /\ fwd' = [fwd EXCEPT ![Ev.b][Ev.l] = "transmitted"]
            /\ blocks' = blocks \ {<<Ev.b, Ev.l>>}
            /\ ctimer' = IF Ev.b \in local
                         THEN [ctimer EXCEPT ![Ev.b][Ev.l] = "pending"] ELSE ctimer
       ELSE UNCHANGED <<inflight, queue, fwd, blocks, ctimer>>
    /\ RemoveFromDeferred(Ev.b, {"forward"})
    /\ Done
    /\ calls' = <<DoCall("check", NoBundle, Ev.l), DoCall("trydelete", Ev.b, NoLink)>>
    /\ UNCHANGED <<all, pending, custody, local, store, expTimer, rcache,
                   linkState, contact, reroute, connVars, envVars>>

\* A redundant event, without blocks, does not change the log.
LogAnyCancelled(b, l) ==                                          \* mutant
    /\ blocks' = blocks \ {<<b, l>>}
    /\ fwd' = [fwd EXCEPT ![b][l] = "cancelled"]
LogCancelled(b, l) ==
    IF <<b, l>> \in blocks
    THEN /\ blocks' = blocks \ {<<b, l>>}
         /\ fwd' = [fwd EXCEPT ![b][l] = "cancelled"]
    ELSE UNCHANGED <<blocks, fwd>>

RouteNever(b) == <<>>                                             \* mutant
RouteAgain(b) == IF b \in expTimer THEN RouteCalls(b) ELSE <<>>

\* handle_bundle_cancelled.  The router routes the bundle again unless it is
\* expired(), that is, has no expiration timer any more.
HandleSendCancelled ==
    /\ Handle("sendcancelled")
    /\ LogCancelled(Ev.b, Ev.l)
    /\ calls' = RouteAgain(Ev.b)
    /\ Done
    /\ UNCHANGED <<bundleVars, rcache, linkVars, connVars, envVars>>

\* Mutants of ReleaseCustody: the store keeps its flag, the timers keep running.
ReleaseUnsaved(b) ==
    /\ local' = local \ {b} /\ custody' = custody \ {b}
    /\ ctimer' = [ctimer EXCEPT ![b] = [l \in Links |-> "none"]]
    /\ UNCHANGED store
ReleaseUntimed(b) ==
    /\ local' = local \ {b} /\ custody' = custody \ {b}
    /\ store' = [store EXCEPT ![b] = "plain"]
    /\ UNCHANGED ctimer

\* release_custody: cancel_custody_timers cancels what is still pending, and
\* drops the pointer to a timer that has fired but whose event is not handled.
ReleaseCustody(b) ==
    /\ local' = local \ {b}
    /\ custody' = custody \ {b}
    /\ store' = [store EXCEPT ![b] = "plain"]
    /\ ctimer' = [ctimer EXCEPT ![b] =
                    [l \in Links |-> CASE ctimer[b][l] = "pending" -> "cancelled"
                                       [] ctimer[b][l] = "fired"   -> "orphan"
                                       [] OTHER -> ctimer[b][l]]]

\* Mutants of DeleteBundle: the expiration timer stays, or the router forgets
\* to take the bundle off the deferred lists.
DeleteUntimed(b) ==
    /\ IF b \in local THEN ReleaseCustody(b) ELSE UNCHANGED <<local, custody, store, ctimer>>
    /\ RemoveFromDeferred(b, {"forward", "copy"})
    /\ pending' = pending \ {b}
    /\ UNCHANGED expTimer
DeleteStillDeferred(b) ==
    /\ IF b \in local THEN ReleaseCustody(b) ELSE UNCHANGED <<local, custody, store, ctimer>>
    /\ pending' = pending \ {b}
    /\ expTimer' = expTimer \ {b}
    /\ UNCHANGED deferred

\* delete_bundle; the sends that are under way are cancelled link by link.
DeleteBundle(b) ==
    /\ IF b \in local THEN ReleaseCustody(b) ELSE UNCHANGED <<local, custody, store, ctimer>>
    /\ RemoveFromDeferred(b, {"forward", "copy"})
    /\ pending' = pending \ {b}
    /\ expTimer' = expTimer \ {b}

HandleDeletion(type) ==
    /\ Handle(type)
    /\ DeleteBundle(Ev.b)
    /\ calls' = CancelCalls(Ev.b)
    /\ Done
    /\ UNCHANGED <<all, routeVars, linkState, contact, queue, inflight, reroute,
                   connVars, envVars>>

HandleExpired == HandleDeletion("expired")
HandleDeleteRequest == HandleDeletion("deleterequest")

\* handle_bundle_cancel with a link: the bundle itself stays.
HandleCancelSend ==
    /\ Handle("cancelsend")
    /\ calls' = <<DoCall("cancel", Ev.b, Ev.l)>>
    /\ Done
    /\ UNCHANGED <<bundleVars, routeVars, linkVars, connVars, envVars>>

\* handle_custody_signal: a success, or a failure for redundant reception.
HandleCustodySignal ==
    /\ Handle("custodysignal")
    /\ \/ \E b \in custody : /\ Key[b] = Key[Ev.b]
                             /\ ReleaseCustody(b)
                             /\ calls' = <<DoCall("trydelete", b, NoLink)>>
       \/ /\ \A b \in custody : Key[b] # Key[Ev.b]
          /\ UNCHANGED <<local, custody, store, ctimer, calls>>
    /\ Done
    /\ UNCHANGED <<all, pending, expTimer, routeVars, linkVars, connVars, envVars>>

\* ForwardingLog::update changes an entry that is there.
LogNoTimeout(b, l) == UNCHANGED fwd                               \* mutant
LogTimeout(b, l) ==
    fwd' = IF fwd[b][l] = "none" THEN fwd ELSE [fwd EXCEPT ![b][l] = "custodytimeout"]

\* handle_custody_timeout: when the timer is no longer the bundle's, only the
\* router handles the event.
HandleCustodyTimeout ==
    /\ Handle("custodytimeout")
    /\ IF ctimer[Ev.b][Ev.l] = "fired"
       THEN /\ ctimer' = [ctimer EXCEPT ![Ev.b][Ev.l] = "none"]
            /\ LogTimeout(Ev.b, Ev.l)
       ELSE UNCHANGED <<ctimer, fwd>>
    /\ calls' = RouteCalls(Ev.b)
    /\ Done
    /\ UNCHANGED <<all, pending, custody, local, store, expTimer, blocks, rcache,
                   linkVars, connVars, envVars>>

MarkOpenAlways(l, c) == linkState' = [linkState EXCEPT ![l] = "open"]   \* mutant
MarkOpen(l, c) ==
    linkState' = IF c = Contact(l) THEN [linkState EXCEPT ![l] = "open"] ELSE linkState

\* handle_contact_up: a stale event leaves the link alone, but the router
\* handles it all the same and drops the link's reroute timer.
HandleContactUp ==
    /\ Handle("contactup")
    /\ MarkOpen(Ev.l, Ev.c)
    /\ reroute' = [reroute EXCEPT ![Ev.l] = "none"]
    /\ calls' = <<DoCall("check", NoBundle, Ev.l)>>
    /\ Done
    /\ UNCHANGED <<bundleVars, routeVars, contact, queue, inflight, deferred,
                   connVars, envVars>>

\* The router's handle_contact_down; the map entry of a timer that has fired
\* is still there, and then no new timer is scheduled.
HandleContactDown ==
    /\ Handle("contactdown")
    /\ reroute' = IF queue[Ev.l] # <<>> /\ reroute[Ev.l] = "none"
                  THEN [reroute EXCEPT ![Ev.l] = "armed"] ELSE reroute
    /\ Done
    /\ UNCHANGED <<bundleVars, routeVars, linkState, contact, queue, inflight, deferred,
                   connVars, calls, envVars>>

\* handle_link_state_change_request(CLOSED).  Link::close waits for the
\* connection thread to stop, so the rest is left to the `close' steps; nobody
\* reads the link state in between.
HandleClosed ==
    /\ Handle("closed")
    /\ IF Ev.c = Contact(Ev.l) /\ linkState[Ev.l] \in {"open", "opening"}
       THEN /\ IF linkState[Ev.l] = "open"
               THEN DoneAfter(ContactEvent("contactdown", Ev.l, Ev.c, Ev.why))
               ELSE Done
            /\ linkState' = [linkState EXCEPT ![Ev.l] =
                               IF Ev.why = "idle" THEN "available" ELSE "unavailable"]
            /\ breaking' = [breaking EXCEPT ![Ev.l] = phase[Ev.l] # "broken"]
            /\ calls' = <<DoCall("close", NoBundle, Ev.l)>>
       ELSE /\ Done
            /\ UNCHANGED <<linkState, breaking, calls>>
    /\ UNCHANGED <<bundleVars, routeVars, contact, queue, inflight, deferred, reroute,
                   phase, sending, current, cmds, envVars>>

\* Link::open: a new contact with its connection thread.
OpenLink(l) ==
    /\ FreeContacts(l) # {}
    /\ linkState' = [linkState EXCEPT ![l] = "opening"]
    /\ contact' = [contact EXCEPT ![l] = NextContact(l)]
    /\ phase' = [phase EXCEPT ![l] = "connecting"]

\* handle_link_state_change_request(OPEN) and BundleActions::open_link.
HandleOpen ==
    /\ Handle("open")
    /\ IF Ev.c = Contact(Ev.l) /\ linkState[Ev.l] \in {"available", "unavailable"}
       THEN IF Contact(Ev.l) = 0
            THEN OpenLink(Ev.l)
            ELSE /\ linkState' = [linkState EXCEPT ![Ev.l] = "available"]
                 /\ UNCHANGED <<contact, phase>>
       ELSE UNCHANGED <<linkState, contact, phase>>
    /\ Done
    /\ UNCHANGED <<bundleVars, routeVars, queue, inflight, deferred, reroute,
                   sending, current, cmds, breaking, calls, envVars>>

NoStoreDel(b) == UNCHANGED store                                  \* mutant
StoreDel(b) == store' = [store EXCEPT ![b] = "absent"]

\* The last reference is gone: handle_bundle_free.  Its event waits at the end
\* of the queue, but nothing can name the bundle any more meanwhile.
Free(b) ==
    /\ Idle
    /\ b \in all
    /\ ~Referenced(b)
    /\ all' = all \ {b}
    /\ StoreDel(b)
    /\ fwd' = [fwd EXCEPT ![b] = [l \in Links |-> "none"]]
    /\ blocks' = {p \in blocks : p[1] # b}
    /\ UNCHANGED <<pending, custody, local, expTimer, ctimer, rcache, linkVars, connVars,
                   daemonVars, envVars>>

-----------------------------------------------------------------------------
(* The rest of a handler's work, step by step.                             *)

Step(op) == ~Idle /\ Head(calls).op = op
Now == Head(calls)
Return == calls' = Tail(calls)

\* route_bundle, one matching route: what is deferred on the link goes first.
RouteBundle ==
    /\ Step("route")
    /\ calls' = IF ShouldFwdRoute(Now.b, Now.l) /\ ~Contains(deferred[Now.l], Now.b)
                THEN <<DoCall("check", NoBundle, Now.l), DoCall("forward", Now.b, Now.l)>>
                       \o Tail(calls)
                ELSE Tail(calls)
    /\ UNCHANGED <<bundleVars, routeVars, linkVars, connVars, eventq, envVars>>

\* BundleActions::queue_bundle.  When the log or the link lists say that the
\* bundle is already on its way, the new blocks stay behind.
QueueBundle(b, l) ==
    IF <<b, l>> \in blocks
    THEN UNCHANGED <<blocks, fwd, queue>>
    ELSE /\ blocks' = blocks \cup {<<b, l>>}
         /\ IF \/ fwd[b][l] = "queued"
               \/ Contains(queue[l], b)
               \/ b \in inflight[l]
            THEN UNCHANGED <<fwd, queue>>
            ELSE /\ fwd' = [fwd EXCEPT ![b][l] = "queued"]
                 /\ queue' = [queue EXCEPT ![l] = Append(@, b)]

\* fwd_to_nexthop.
ForwardBundle ==
    /\ Step("forward")
    /\ \/ /\ linkState[Now.l] = "open"
          /\ ~QueueIsFull(Now.l)
          /\ QueueBundle(Now.b, Now.l)
          /\ UNCHANGED <<linkState, contact, phase, deferred>>
       \/ /\ linkState[Now.l] # "open" \/ QueueIsFull(Now.l)
          /\ deferred' = IF Contains(deferred[Now.l], Now.b) THEN deferred
                         ELSE [deferred EXCEPT ![Now.l] = Append(@, Now.b)]
          /\ IF linkState[Now.l] = "available" /\ Contact(Now.l) = 0
             THEN OpenLink(Now.l)
             ELSE UNCHANGED <<linkState, contact, phase>>
          /\ UNCHANGED <<blocks, fwd, queue>>
    /\ Return
    /\ UNCHANGED <<bundleVars, rcache, inflight, reroute, sending, current, cmds, breaking,
                   eventq, envVars>>

\* check_next_hop: walk the deferred list, if the queue is below the low mark.
CheckNextHop ==
    /\ Step("check")
    /\ calls' = IF /\ linkState[Now.l] = "open"
                   /\ QueueHasSpace(Now.l)
                   /\ deferred[Now.l] # <<>>
                THEN <<DoCall("drain", Head(deferred[Now.l]), Now.l)>> \o Tail(calls)
                ELSE Tail(calls)
    /\ UNCHANGED <<bundleVars, routeVars, linkVars, connVars, eventq, envVars>>

\* The bundle after b on the deferred list.
After(b, l) ==
    {deferred[l][i + 1] : i \in {j \in 1..(Len(deferred[l]) - 1) : deferred[l][j] = b}}

\* One turn of the loop of check_next_hop.
DrainDeferred ==
    /\ Step("drain")
    /\ LET b == Now.b
           l == Now.l
       IN \/ /\ QueueIsFull(l)
             /\ Return
             /\ UNCHANGED <<deferred, blocks, fwd, queue>>
          \/ /\ ~QueueIsFull(l)
             /\ calls' = IF After(b, l) = {} THEN Tail(calls)
                         ELSE <<DoCall("drain", CHOOSE d \in After(b, l) : TRUE, l)>>
                                \o Tail(calls)
             /\ IF ShouldFwd(b, l)
                THEN /\ deferred' = [deferred EXCEPT ![l] = RemoveFirst(@, b)]
                     /\ QueueBundle(b, l)
                ELSE UNCHANGED <<deferred, blocks, fwd, queue>>
    /\ UNCHANGED <<bundleVars, rcache, linkState, contact, inflight, reroute, connVars,
                   eventq, envVars>>

\* BundleActions::cancel_bundle and ConnectionConvergenceLayer::cancel_bundle.
CancelBundle ==
    /\ Step("cancel")
    /\ LET b == Now.b
           l == Now.l
       IN \/ /\ <<b, l>> \in blocks
             /\ Contains(queue[l], b)
             /\ queue' = [queue EXCEPT ![l] = RemoveFirst(@, b)]
             /\ Post(BundleEvent("sendcancelled", b, l))
             /\ UNCHANGED cmds
          \/ /\ <<b, l>> \in blocks
             /\ ~Contains(queue[l], b)
             /\ b \in inflight[l]
             /\ IF linkState[l] = "open"
                THEN /\ cmds' = [cmds EXCEPT ![l] = Append(@, b)]
                     /\ UNCHANGED eventq
                ELSE /\ Post(BundleEvent("sendcancelled", b, l))
                     /\ UNCHANGED cmds
             /\ UNCHANGED queue
          \/ /\ <<b, l>> \notin blocks \/ ~(Contains(queue[l], b) \/ b \in inflight[l])
             /\ UNCHANGED <<queue, cmds, eventq>>
    /\ Return
    /\ UNCHANGED <<bundleVars, routeVars, linkState, contact, inflight, deferred, reroute,
                   phase, sending, current, breaking, envVars>>

\* try_to_delete, from event_handlers_completed or handle_custody_signal.
TryToDelete ==
    /\ Step("trydelete")
    /\ IF Now.b \in pending /\ EarlyDeletion /\ CanDelete(Now.b)
       THEN /\ DeleteBundle(Now.b)
            /\ calls' = CancelCalls(Now.b) \o Tail(calls)
       ELSE /\ Return
            /\ UNCHANGED <<pending, custody, local, store, expTimer, ctimer, deferred>>
    /\ UNCHANGED <<all, routeVars, linkState, contact, queue, inflight, reroute, connVars,
                   eventq, envVars>>

NotRestored(b, l) == UNCHANGED queue                              \* mutant
Restore(b, l) ==
    queue' = IF b \in inflight[l] /\ ~Contains(queue[l], b)
             THEN [queue EXCEPT ![l] = Append(@, b)] ELSE queue

\* close_contact, once the thread has stopped: a bundle in flight goes back to
\* the link queue, unless the daemon has taken it off the in-flight list.
Requeue ==
    /\ Step("close")
    /\ phase[Now.l] = "broken"
    /\ sending[Now.l] # <<>>
    /\ LET l == Now.l
           b == Head(sending[l])
       IN /\ sending' = [sending EXCEPT ![l] = Tail(@)]
          /\ inflight' = [inflight EXCEPT ![l] = @ \ {b}]
          /\ Restore(b, l)
    /\ UNCHANGED <<bundleVars, routeVars, linkState, contact, deferred, reroute,
                   phase, current, cmds, breaking, daemonVars, envVars>>

\* The command queue is thrown away with the connection.
CloseContact ==
    /\ Step("close")
    /\ phase[Now.l] = "broken"
    /\ sending[Now.l] = <<>>
    /\ phase' = [phase EXCEPT ![Now.l] = "none"]
    /\ current' = [current EXCEPT ![Now.l] = NoBundle]
    /\ cmds' = [cmds EXCEPT ![Now.l] = <<>>]
    /\ breaking' = [breaking EXCEPT ![Now.l] = FALSE]
    /\ Return
    /\ UNCHANGED <<bundleVars, routeVars, linkVars, sending, eventq, envVars>>

-----------------------------------------------------------------------------
(* Timers, run by the daemon thread between two events.                    *)

ExpirationTimer(b) ==
    /\ "expire" \in Stimuli
    /\ Idle
    /\ b \in expTimer
    /\ expTimer' = expTimer \ {b}
    /\ eventq' = <<BundleEvent("expired", b, NoLink)>> \o eventq
    /\ UNCHANGED <<all, pending, custody, local, store, ctimer, routeVars, linkVars,
                   connVars, calls, envVars>>

CustodyTimer(b, l) ==
    /\ "custodytimeout" \in Stimuli
    /\ Idle
    /\ ctimer[b][l] = "pending"
    /\ ctimer' = [ctimer EXCEPT ![b][l] = "fired"]
    /\ Post(BundleEvent("custodytimeout", b, l))
    /\ UNCHANGED <<all, pending, custody, local, store, expTimer, routeVars, linkVars,
                   connVars, calls, envVars>>

\* A cancelled timer reaches the top of the timer heap and is deleted.
CancelledTimer(b, l) ==
    /\ Idle
    /\ ctimer[b][l] = "cancelled"
    /\ ctimer' = [ctimer EXCEPT ![b][l] = "none"]
    /\ UNCHANGED <<all, pending, custody, local, store, expTimer, routeVars, linkVars,
                   connVars, daemonVars, envVars>>

\* RerouteTimer::timeout and reroute_bundles, which holds the queue lock while
\* it cancels everything that is queued on the link.
RerouteTimer(l) ==
    /\ Idle
    /\ reroute[l] = "armed"
    /\ reroute' = [reroute EXCEPT ![l] = "fired"]
    /\ IF linkState[l] = "unavailable"
       THEN /\ eventq' = eventq \o [i \in 1..Len(queue[l]) |->
                                      BundleEvent("sendcancelled", queue[l][i], l)]
            /\ queue' = [queue EXCEPT ![l] = <<>>]
       ELSE UNCHANGED <<eventq, queue>>
    /\ UNCHANGED <<bundleVars, routeVars, linkState, contact, inflight, deferred,
                   connVars, calls, envVars>>

-----------------------------------------------------------------------------
(* The convergence layer thread of a link's contact.                       *)

\* The contact headers are exchanged: contact_up.
ConnectionUp(l) ==
    /\ phase[l] = "connecting"
    /\ phase' = [phase EXCEPT ![l] = "up"]
    /\ Post(ContactEvent("contactup", l, contact[l], ""))
    /\ UNCHANGED <<bundleVars, routeVars, linkVars, sending, current, cmds, breaking,
                   calls, envVars>>

\* A peer connects: find_contact gives the idle opportunistic link a contact,
\* and contact_up follows in the same handler.
AcceptConnection(l) ==
    /\ l \in Passive
    /\ phase[l] = "none"
    /\ linkState[l] \in {"available", "unavailable"}
    /\ FreeContacts(l) # {}
    /\ phase' = [phase EXCEPT ![l] = "up"]
    /\ contact' = [contact EXCEPT ![l] = NextContact(l)]
    /\ Post(ContactEvent("contactup", l, NextContact(l), ""))
    /\ UNCHANGED <<bundleVars, routeVars, linkState, queue, inflight, deferred, reroute,
                   sending, current, cmds, breaking, calls, envVars>>

TakeOffQueue(b, l) ==                                             \* mutant
    queue' = [queue EXCEPT ![l] = Tail(@)] /\ UNCHANGED inflight
MoveToInflight(b, l) ==
    /\ inflight' = [inflight EXCEPT ![l] = @ \cup {b}]
    /\ queue' = [queue EXCEPT ![l] = Tail(@)]

\* start_next_bundle moves a bundle under the lock of the link queue.
StartNextBundle(l) ==
    /\ phase[l] = "up"
    /\ current[l] = NoBundle
    /\ queue[l] # <<>>
    /\ LET b == Head(queue[l])
       IN /\ current' = [current EXCEPT ![l] = b]
          /\ sending' = [sending EXCEPT ![l] = Append(@, b)]
          /\ MoveToInflight(b, l)
    /\ UNCHANGED <<bundleVars, routeVars, linkState, contact, deferred, reroute,
                   phase, cmds, breaking, daemonVars, envVars>>

\* send_next_segment, the only segment of the bundle.
SendSegment(l) ==
    /\ phase[l] = "up"
    /\ current[l] # NoBundle
    /\ exposed' = exposed \cup {current[l]}
    /\ current' = [current EXCEPT ![l] = NoBundle]
    /\ UNCHANGED <<bundleVars, routeVars, linkVars, phase, sending, cmds, breaking,
                   daemonVars, arrived>>

\* handle_ack_segment: the final ack of the first bundle in flight.
AckBundle(l) ==
    /\ phase[l] = "up"
    /\ sending[l] # <<>>
    /\ Head(sending[l]) # current[l]
    /\ sending' = [sending EXCEPT ![l] = Tail(@)]
    /\ Post(BundleEvent("transmitted", Head(sending[l]), l))
    /\ UNCHANGED <<bundleVars, routeVars, linkVars, phase, current, cmds, breaking,
                   calls, envVars>>

\* handle_cancel_bundle: too late once data has been sent.
CancelCommand(l) ==
    /\ phase[l] = "up"
    /\ cmds[l] # <<>>
    /\ cmds' = [cmds EXCEPT ![l] = Tail(@)]
    /\ IF Head(cmds[l]) = current[l]
       THEN /\ current' = [current EXCEPT ![l] = NoBundle]
            /\ sending' = [sending EXCEPT ![l] = RemoveFirst(@, current[l])]
            /\ Post(BundleEvent("sendcancelled", current[l], l))
       ELSE UNCHANGED <<current, sending, eventq>>
    /\ UNCHANGED <<bundleVars, routeVars, linkVars, phase, breaking, calls, envVars>>

\* break_contact for a reason of the connection's own.
BreakContact(l, why) ==
    /\ why = "idle" => /\ "idle" \in Stimuli /\ l \notin Passive
                       /\ phase[l] = "up" /\ current[l] = NoBundle
    /\ why = "broken" => "break" \in Stimuli
    /\ phase[l] \in {"connecting", "up"}
    /\ phase' = [phase EXCEPT ![l] = "broken"]
    /\ Post(ContactEvent("closed", l, contact[l], why))
    /\ UNCHANGED <<bundleVars, routeVars, linkVars, sending, current, cmds, breaking,
                   calls, envVars>>

\* CLMSG_BREAK_CONTACT, the last command of the queue: no event is posted.
BreakCommand(l) ==
    /\ breaking[l]
    /\ phase[l] \in {"connecting", "up"}
    /\ cmds[l] = <<>>
    /\ phase' = [phase EXCEPT ![l] = "broken"]
    /\ UNCHANGED <<bundleVars, routeVars, linkVars, sending, current, cmds, breaking,
                   daemonVars, envVars>>

-----------------------------------------------------------------------------
(* The environment: applications, peers, operators.                        *)

\* A bundle from an application, or from the peer of a link.
Arrive(b, l) ==
    /\ b \notin arrived
    /\ IF l = NoLink THEN "app" \in Stimuli ELSE "peer" \in Stimuli /\ phase[l] = "up"
    /\ arrived' = arrived \cup {b}
    /\ all' = all \cup {b}
    /\ Post(BundleEvent("received", b, l))
    /\ UNCHANGED <<pending, custody, local, store, expTimer, ctimer, routeVars, linkVars,
                   connVars, calls, exposed>>

\* An application cancels a bundle it has sent: handle_bundle_cancel without a
\* link deletes it, as handle_bundle_delete does.
CancelRequest(b) ==
    /\ "cancel" \in Stimuli
    /\ b \in pending
    /\ Queued("deleterequest") = {}
    /\ Post(BundleEvent("deleterequest", b, NoLink))
    /\ UNCHANGED <<bundleVars, routeVars, linkVars, connVars, calls, envVars>>

\* The operator cancels a transmission, ahead of what is in the event queue.
\* Bound: one such cancellation is under way on a link at a time.
CancelSend(b, l) ==
    /\ "cancelsend" \in Stimuli
    /\ Idle
    /\ b \in pending
    /\ Queued("cancelsend") = {} /\ cmds[l] = <<>>
    /\ \A e \in Queued("sendcancelled") : e.l # l
    /\ eventq' = <<BundleEvent("cancelsend", b, l)>> \o eventq
    /\ UNCHANGED <<bundleVars, routeVars, linkVars, connVars, calls, envVars>>

\* A node downstream has taken custody of the bundle, or has it already.
CustodySignal(b) ==
    /\ "signal" \in Stimuli
    /\ b \in exposed \cap CustodyRequested
    /\ Queued("custodysignal") = {}
    /\ Post(BundleEvent("custodysignal", b, NoLink))
    /\ UNCHANGED <<bundleVars, routeVars, linkVars, connVars, calls, envVars>>

\* The operator closes a link.  Bound: one request for the link at a time.
CloseRequest(l) ==
    /\ "user" \in Stimuli
    /\ linkState[l] \in {"opening", "open"}
    /\ \A e \in Queued("closed") : e.l # l
    /\ Post(ContactEvent("closed", l, contact[l], "user"))
    /\ UNCHANGED <<bundleVars, routeVars, linkVars, connVars, calls, envVars>>

\* ContactManager's retry timer, or the operator, opens a link that is down.
OpenRequest(l) ==
    /\ l \notin Passive
    /\ linkState[l] = "unavailable"
    /\ phase[l] = "none"
    /\ \A e \in Queued("open") : e.l # l
    /\ Post(ContactEvent("open", l, 0, ""))
    /\ UNCHANGED <<bundleVars, routeVars, linkVars, connVars, calls, envVars>>

-----------------------------------------------------------------------------
HandleEvent ==
    \/ DiscardDuplicate \/ ReceiveExpired \/ ReceiveBundle
    \/ HandleTransmitted \/ HandleSendCancelled
    \/ HandleExpired \/ HandleDeleteRequest \/ HandleCancelSend
    \/ HandleCustodySignal \/ HandleCustodyTimeout
    \/ HandleContactUp \/ HandleContactDown \/ HandleClosed \/ HandleOpen

Continue ==
    \/ RouteBundle \/ ForwardBundle \/ CheckNextHop \/ DrainDeferred
    \/ CancelBundle \/ TryToDelete \/ Requeue \/ CloseContact
    \/ LoadBundle \/ LoadExpired \/ LoadDone

Timers ==
    \/ \E b \in Bundles : ExpirationTimer(b)
    \/ \E b \in Bundles, l \in Links : CustodyTimer(b, l) \/ CancelledTimer(b, l)
    \/ \E l \in Links : RerouteTimer(l)

Connection(l) ==
    \/ ConnectionUp(l) \/ AcceptConnection(l)
    \/ StartNextBundle(l) \/ SendSegment(l) \/ AckBundle(l) \/ CancelCommand(l)
    \/ BreakContact(l, "broken") \/ BreakContact(l, "idle") \/ BreakCommand(l)

Environment ==
    \/ \E b \in Bundles, l \in Links \cup {NoLink} : Arrive(b, l)
    \/ \E b \in Bundles : CancelRequest(b) \/ CustodySignal(b)
    \/ \E b \in Bundles, l \in Links : CancelSend(b, l)
    \/ \E l \in Links : CloseRequest(l) \/ OpenRequest(l)
    \/ Crash

Next ==
    \/ HandleEvent
    \/ Continue
    \/ \E b \in Bundles : Free(b)
    \/ Timers
    \/ \E l \in Links : Connection(l)
    \/ Environment

Spec == Init /\ [][Next]_vars

\* The daemon thread and the connection threads keep running, every bundle is
\* acknowledged and every link that is down is tried again.  The daemon runs the
\* timers that are due, and so reaches the events left out of eventq (the free
\* events), between any two events: those are strongly fair.
Fairness ==
    /\ WF_vars(HandleEvent)
    /\ WF_vars(Continue)
    /\ \A b \in Bundles : SF_vars(Free(b))
    /\ \A b \in Bundles, l \in Links : SF_vars(CancelledTimer(b, l))
    /\ \A l \in Links :
         /\ SF_vars(RerouteTimer(l))
         /\ WF_vars(ConnectionUp(l))
         /\ WF_vars(StartNextBundle(l))
         /\ WF_vars(SendSegment(l))
         /\ WF_vars(AckBundle(l))
         /\ WF_vars(CancelCommand(l))
         /\ WF_vars(BreakCommand(l))
         /\ WF_vars(OpenRequest(l))

FairSpec == Spec /\ Fairness

-----------------------------------------------------------------------------
(* Invariants.                                                             *)

\* Every variable has its type.
BundleTypes ==
    /\ all \subseteq Bundles /\ pending \subseteq Bundles /\ custody \subseteq Bundles
    /\ local \subseteq Bundles /\ expTimer \subseteq Bundles
    /\ store \in [Bundles -> {"absent", "plain", "custody"}]
    /\ ctimer \in [Bundles -> [Links -> TimerStates]]
RouteTypes ==
    /\ fwd \in [Bundles -> [Links -> FwdStates]]
    /\ blocks \subseteq Bundles \X Links
    /\ rcache \in [Keys -> Nodes \cup {Unseen, NullEid}]
LinkTypes ==
    /\ linkState \in [Links -> {"unavailable", "available", "opening", "open"}]
    /\ contact \in [Links -> 1..MaxContacts]
    /\ queue \in [Links -> Seq(Bundles)]
    /\ inflight \in [Links -> SUBSET Bundles]
    /\ deferred \in [Links -> Seq(Bundles)]
    /\ reroute \in [Links -> {"none", "armed", "fired"}]
ConnTypes ==
    /\ phase \in [Links -> {"none", "connecting", "up", "broken"}]
    /\ sending \in [Links -> Seq(Bundles)]
    /\ current \in [Links -> Bundles \cup {NoBundle}]
    /\ cmds \in [Links -> Seq(Bundles)]
    /\ breaking \in [Links -> BOOLEAN]
DaemonTypes == eventq \in Seq(Event) /\ calls \in Seq(Call)
EnvTypes == arrived \subseteq Bundles /\ exposed \subseteq Bundles
TypeOK == BundleTypes /\ RouteTypes /\ LinkTypes /\ ConnTypes /\ DaemonTypes /\ EnvTypes

\* Custody is one fact in three places: the flag on the bundle, the custody
\* list and the flag in the data store, which is all that a restart will see.
\* A bundle in custody is pending, and a pending bundle is stored.  Only a
\* bundle that was reloaded after its lifetime is not on the list, and it goes.
CustodyCoherent ==
    /\ custody \subseteq local
    /\ \A b \in local \ custody : BundleEvent("expired", b, NoLink) \in ToSet(eventq)
    /\ local \subseteq pending
    /\ pending \subseteq all
    /\ \A b \in pending : /\ store[b] # "absent"
                          /\ store[b] = "custody" <=> b \in local

\* The node is custodian of a bundle once, however many copies of it arrive,
\* and a restart finds at most one copy in custody: handle_custody_signal
\* releases the first match on the custody list only.
OneCustodyPerIdentity ==
    \A b, d \in Bundles :
        /\ b # d /\ Key[b] = Key[d]
        => /\ ~(b \in local /\ d \in local)
           /\ ~(store[b] = "custody" /\ store[d] = "custody")

\* Nothing leaks in the data store: once it is loaded, every entry has its
\* object, whose end removes the entry; and no entry that says custody is
\* dropped, because custody is released before the bundle leaves the pending
\* list and no restart finds a reason to discard the bundle.
StoreHasObject ==
    /\ (\A c \in ToSet(calls) : c.op # "load") =>
          \A b \in Bundles : store[b] # "absent" => b \in all
    /\ \A b \in all \ pending : store[b] # "custody"

\* A custodian that has sent the bundle will send it again if no signal comes:
\* its custody timer runs, or has expired and the timeout is in the event queue.
CustodyRetried ==
    \A b \in local, l \in Links :
        fwd[b][l] = "transmitted" =>
            \/ ctimer[b][l] = "pending"
            \/ /\ ctimer[b][l] = "fired"
               /\ BundleEvent("custodytimeout", b, l) \in ToSet(eventq)

\* A custody timer that can still fire belongs to a bundle in custody.
CustodyTimersHeld ==
    \A b \in Bundles, l \in Links :
        ctimer[b][l] \in {"pending", "fired"} => b \in local

\* Expiry cannot be forgotten: a pending bundle has its timer, or the event
\* that will delete it is in the queue; a bundle that is gone has no timer.
ExpiryArmed ==
    /\ expTimer \subseteq pending
    /\ \A b \in pending :
          \/ b \in expTimer
          \/ \E e \in Queued("expired") : e.b = b

\* What the log calls queued is being sent: the bundle is formatted for the
\* link and is on its queue, or with the connection, or an event that will
\* change the log is under way.
QueuedIsUnderWay ==
    \A b \in pending, l \in Links :
        fwd[b][l] = "queued" =>
            /\ <<b, l>> \in blocks
            /\ \/ b \in ToSet(queue[l])
               \/ b \in ToSet(sending[l])
               \/ \E e \in Queued("transmitted") \cup Queued("sendcancelled") :
                     e.b = b /\ e.l = l

\* The converse: a pending bundle on a list of the link is logged as queued,
\* on one list only, and once.
SendListsLogged ==
    \A b \in pending, l \in Links :
        /\ b \in ToSet(queue[l]) \cup inflight[l] => fwd[b][l] = "queued"
        /\ ~(b \in ToSet(queue[l]) /\ b \in inflight[l])
        /\ Cardinality({i \in DOMAIN queue[l] : queue[l][i] = b}) <= 1

\* A forwarding route sends the only copy, and copies go to a node once: a
\* bundle is under way or sent on one link to a node, and on one forwarding link.
SingleCopy ==
    \A b \in Bundles, l, m \in Links :
        /\ l # m
        /\ Remote[l] = Remote[m] \/ (Action[l] = "forward" /\ Action[m] = "forward")
        => ~(fwd[b][l] \in Waiting /\ fwd[b][m] \in Waiting)

\* No bundle goes back to the node it came from, on whatever link to that node,
\* however often it is routed again, and a duplicate does not change that.
NotSentBack ==
    \A b \in Bundles, l \in Links :
        fwd[b][l] \in Waiting => rcache[Key[b]] # Remote[l]

\* Only pending bundles wait for a link, each of them once.
DeferredIsPending ==
    \A l \in Links :
        /\ ToSet(deferred[l]) \subseteq pending
        /\ Cardinality(ToSet(deferred[l])) = Len(deferred[l])

\* Between events, a pending bundle that could go to a link waits for it.
NothingForgotten ==
    Idle /\ eventq = <<>> =>
        \A b \in expTimer, l \in ToSet(Routes) :
            ShouldFwdRoute(b, l) => b \in ToSet(deferred[l])

\* The connection thread and the link agree: what the connection carries is on
\* the link's in-flight list, and the bundle it is starting is the last one.
ConnectionCoherent ==
    \A l \in Links :
        /\ phase[l] = "none" => /\ sending[l] = <<>> /\ cmds[l] = <<>>
                                /\ current[l] = NoBundle /\ ~breaking[l]
        /\ ToSet(sending[l]) \subseteq inflight[l]
        /\ phase[l] = "up" /\ current[l] # NoBundle =>
              sending[l] # <<>> /\ Last(sending[l]) = current[l]

\* The link's state and its connection match between events: a link that is
\* open or opening has a contact, and no connection is left behind when the
\* link is down, save one that a peer has just made.
LinkHasContact ==
    Idle => \A l \in Links :
        /\ linkState[l] \in {"open", "opening"} => phase[l] # "none"
        /\ linkState[l] \in {"available", "unavailable"} /\ phase[l] # "none" => l \in Passive
        /\ phase[l] = "broken" => \E e \in Queued("closed") : e.l = l

-----------------------------------------------------------------------------
(* Action properties.                                                      *)

\* A transmission that was acknowledged is undone by a custody timeout only:
\* no late cancellation or second copy of the event may take it back.
TransmittedSticks ==
    [][\A b \in Bundles, l \in Links :
          fwd[b][l] = "transmitted" /\ fwd'[b][l] # "transmitted" =>
              fwd'[b][l] = "custodytimeout" \/ b \notin all']_vars

\* Only the end of the bundle or a custody signal ends custody: a bundle with
\* custody is not deleted because it has been transmitted.
CustodyKept ==
    [][\A b \in local \ local' :
          \/ HandleCustodySignal
          \/ HandleExpired \/ HandleDeleteRequest
          \/ calls' = <<DoCall("load", NoBundle, NoLink)>>]_vars

-----------------------------------------------------------------------------
(* Liveness.                                                               *)

\* A deleted bundle is freed, with its entry in the data store.
DeletedIsFreed ==
    \A b \in Bundles : (b \in all /\ b \notin pending) ~> (b \in pending \/ b \notin all)

\* Once the connections stop breaking, every bundle that was accepted is sent.
AcceptedIsSent ==
    (\A l \in Links : <>[](phase[l] # "broken")) =>
        \A b \in Bundles : b \in pending ~> (b \notin pending \/ b \in exposed)
=============================================================================
