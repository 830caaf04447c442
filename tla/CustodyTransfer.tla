--------------------------- MODULE CustodyTransfer ---------------------------
(***************************************************************************)
(* The custody of one bundle on its way through several nodes: acceptance, *)
(* signals to the previous custodian, retransmission, delivery and         *)
(* restarts, in the daemons of all nodes.  What one daemon does inside is  *)
(* described by modules BundleDaemon and LocalDelivery.                    *)
(*                                                                         *)
(* Bundles and signals travel over links that may break at any time: they  *)
(* may be lost (a node acknowledges what it has not stored yet), arrive    *)
(* twice (an acknowledgement is lost) and overtake each other.             *)
(***************************************************************************)
EXTENDS Naturals, FiniteSets

CONSTANTS
    Nodes,           \* the nodes
    Src, Dst,        \* where the bundle is sent, and where it is delivered
    Hops,            \* Hops[n]: next hops of the copy routes of n
    Rank,            \* Rank[n]: an upper bound of the hops that are left
    Accepts,         \* nodes whose params_.accept_custody_ is set
    MaxCrashes,      \* bound: restarts of daemons
    MaxCopies,       \* bound: copies on their way to one node
    None             \* EndpointID::NULL_EID

ASSUME NodesAssumption == /\ Src \in Nodes /\ Dst \in Nodes
                          /\ Accepts \subseteq Nodes
                          /\ None \notin Nodes
\* Routes have no loop, and none leads on from the destination.
ASSUME RoutesAssumption == /\ Hops \in [Nodes -> SUBSET Nodes]
                           /\ Rank \in [Nodes -> Nat]
                           /\ \A n \in Nodes : \A h \in Hops[n] : Rank[h] < Rank[n]
                           /\ Hops[Dst] = {}
ASSUME BoundAssumption == MaxCrashes \in Nat /\ MaxCopies \in Nat

VARIABLES
    copy,         \* the pending bundle of each node, and its record in the
                  \* store: absent, plain, or in local custody
    custodian,    \* custodian_ of that bundle
    accepting,    \* nodes between the two halves of accept_custody
    sent,         \* next hops for which the log says TRANSMITTED
    timers,       \* next hops for which a custody timer runs
    list,         \* the delivery list at Dst: nothing, the pending copy, or a
                  \* bundle that is not pending any more, with its custodian
    cache,        \* the delivery cache at Dst knows the bundle
    net,          \* copies of the bundle on their way
    signals,      \* custody signals on their way
    created, over, crashes,
    accepted,     \* ghost: some node has accepted custody
    taken,        \* ghost: the application has the bundle
    gap           \* ghost: a daemon stopped between a signal and its record

bundle == <<copy, custodian, accepting>>
log == <<sent, timers>>
delivery == <<list, cache, taken>>
wires == <<net, signals>>
inputs == <<created, over, crashes>>
vars == <<bundle, log, delivery, wires, inputs, accepted, gap>>

Custodians == Nodes \cup {None}
Message(n, c) == [to |-> n, custodian |-> c]
Signal(n, c) == [from |-> n, to |-> c]
Nothing == [held |-> FALSE]
ThePending == [held |-> TRUE, pending |-> TRUE]
Kept(c) == [held |-> TRUE, pending |-> FALSE, custodian |-> c]

Init ==
    /\ copy = [n \in Nodes |-> "absent"]
    /\ custodian = [n \in Nodes |-> None]
    /\ accepting = {}
    /\ sent = [n \in Nodes |-> {}] /\ timers = [n \in Nodes |-> {}]
    /\ list = Nothing /\ cache = FALSE
    /\ net = {} /\ signals = {}
    /\ created = FALSE /\ over = FALSE /\ crashes = 0
    /\ accepted = FALSE /\ taken = FALSE /\ gap = FALSE

-----------------------------------------------------------------------------
(* Receiving a bundle *)

\* generate_custody_signal, to custodian c if there is one.
SignalTo(n, c) == IF c = None THEN {} ELSE {Signal(n, c)}

\* delete_bundle, or the removal of a bundle that was not to be kept.
Without(n) ==
    /\ copy' = [copy EXCEPT ![n] = "absent"]
    /\ custodian' = [custodian EXCEPT ![n] = None]
    /\ sent' = [sent EXCEPT ![n] = {}]
    /\ timers' = [timers EXCEPT ![n] = {}]

\* The end of handle_bundle_received, for a bundle with that status: delivery
\* at Dst, where what is not in custody is then deleted (try_to_delete).
Settle(n, status, c) ==
    \/ /\ n = Dst /\ ~cache /\ status = "plain"
       /\ list' = Kept(c) /\ cache' = TRUE
       /\ UNCHANGED copy /\ UNCHANGED custodian
    \/ /\ n = Dst /\ ~cache /\ status = "custody"
       /\ list' = ThePending /\ cache' = TRUE
       /\ copy' = [copy EXCEPT ![n] = status]
       /\ custodian' = [custodian EXCEPT ![n] = c]
    \/ /\ n # Dst \/ cache
       /\ UNCHANGED <<list, cache>>
       /\ copy' = [copy EXCEPT ![n] = status]
       /\ custodian' = [custodian EXCEPT ![n] = c]

\* handle_bundle_received of a bundle that was not pending: stored, then
\* accepted (whose first half sends the signal) or left as it is.
Fresh(n, c) ==
    /\ copy[n] = "absent"
    /\ \/ /\ over
          /\ copy' = [copy EXCEPT ![n] = "plain"]
          /\ custodian' = [custodian EXCEPT ![n] = c]
          /\ UNCHANGED <<accepting, list, cache, signals>>
       \/ /\ ~over /\ n \in Accepts
          /\ copy' = [copy EXCEPT ![n] = "plain"]
          /\ custodian' = [custodian EXCEPT ![n] = c]
          /\ accepting' = accepting \cup {n}
          /\ signals' = signals \cup SignalTo(n, c)
          /\ UNCHANGED <<list, cache>>
       \/ /\ ~over /\ n \notin Accepts
          /\ Settle(n, "plain", c)
          /\ UNCHANGED <<accepting, signals>>

\* mutant: every duplicate is signalled
RedundantAlways(n, c) == SignalTo(n, c)
\* A duplicate of a bundle in custody tells its custodian so.
Redundant(n, c) == IF copy[n] = "custody" THEN SignalTo(n, c) ELSE {}

\* ... and of one that is pending already: suppressed.
Suppress(n, c) ==
    /\ copy[n] # "absent"
    /\ signals' = signals \cup Redundant(n, c)
    /\ UNCHANGED <<bundle, list, cache>>

\* The sender may not learn that the bundle arrived, and send it again.
Receive(n, c) ==
    /\ Message(n, c) \in net /\ n \notin accepting
    /\ net' \in {net, net \ {Message(n, c)}}
    /\ Fresh(n, c) \/ Suppress(n, c)
    /\ UNCHANGED <<log, taken, inputs, accepted, gap>>

Create ==
    /\ ~created /\ created' = TRUE
    /\ Fresh(Src, None)
    /\ UNCHANGED <<log, taken, net, over, crashes, accepted, gap>>

\* accept_custody from the point where the signal has been sent.
AcceptCustody(n) ==
    /\ n \in accepting
    /\ accepting' = accepting \ {n}
    /\ accepted' = TRUE
    /\ Settle(n, "custody", n)
    /\ UNCHANGED <<log, taken, wires, inputs, gap>>

-----------------------------------------------------------------------------
(* Sending *)

\* The bundle is sent to h; if the contact breaks before the acknowledgement
\* it stays queued, else handle_bundle_transmitted starts a custody timer, and
\* a bundle that is not in custody is deleted (try_to_delete).
Send(n, h) ==
    /\ copy[n] # "absent" /\ n \notin accepting
    /\ h \in Hops[n] \ sent[n]
    /\ net' = net \cup {Message(h, custodian[n])}
    /\ Cardinality({m \in net' : m.to = h}) <= MaxCopies
    /\ UNCHANGED <<accepting, delivery, signals, inputs, accepted, gap>>
    /\ \/ UNCHANGED <<copy, custodian, log>>
       \/ /\ copy[n] = "plain"
          /\ Without(n)
       \/ /\ copy[n] = "custody"
          /\ sent' = [sent EXCEPT ![n] = @ \cup {h}]
          /\ timers' = [timers EXCEPT ![n] = @ \cup {h}]
          /\ UNCHANGED <<copy, custodian>>

\* mutant: the forwarding log still says TRANSMITTED
ForgetNot(n, h) == UNCHANGED sent
Forget(n, h) == sent' = [sent EXCEPT ![n] = @ \ {h}]
\* handle_custody_timeout: the router will send the bundle again.
CustodyTimeout(n, h) ==
    /\ n \notin accepting /\ h \in timers[n]
    /\ timers' = [timers EXCEPT ![n] = @ \ {h}]
    /\ Forget(n, h)
    /\ UNCHANGED <<bundle, delivery, wires, inputs, accepted, gap>>

\* handle_custody_signal: release_custody, then try_to_delete.
HandleSignal(n, m) ==
    /\ Signal(m, n) \in signals /\ n \notin accepting
    /\ signals' \in {signals, signals \ {Signal(m, n)}}
    /\ \/ /\ copy[n] # "custody"
          /\ UNCHANGED <<copy, custodian, log>>
       \/ /\ copy[n] = "custody" /\ sent[n] # {}
          /\ Without(n)
       \/ /\ copy[n] = "custody" /\ sent[n] = {}
          /\ copy' = [copy EXCEPT ![n] = "plain"]
          /\ custodian' = [custodian EXCEPT ![n] = None]
          /\ timers' = [timers EXCEPT ![n] = {}]
          /\ UNCHANGED sent
    /\ UNCHANGED <<accepting, delivery, net, inputs, accepted, gap>>

-----------------------------------------------------------------------------
(* Delivery, the end of the lifetime, losses and crashes *)

\* The application takes the bundle; handle_bundle_delivered releases custody
\* or tells the custodian.
Take ==
    /\ list.held /\ Dst \notin accepting
    /\ list' = Nothing /\ taken' = TRUE
    /\ \/ /\ list.pending
          /\ Without(Dst)
          /\ UNCHANGED signals
       \/ /\ ~list.pending
          /\ signals' = signals \cup SignalTo(Dst, list.custodian)
          /\ UNCHANGED <<copy, custodian, log>>
    /\ UNCHANGED <<accepting, cache, net, inputs, accepted, gap>>

LifetimeEnds ==
    /\ ~over /\ over' = TRUE
    /\ UNCHANGED <<bundle, log, delivery, wires, created, crashes, accepted, gap>>

\* handle_bundle_expired; the delivery list keeps the bundle.
Expire(n) ==
    /\ over /\ copy[n] # "absent" /\ n \notin accepting
    /\ Without(n)
    /\ list' = IF n = Dst /\ list = ThePending THEN Kept(None) ELSE list
    /\ UNCHANGED <<accepting, cache, taken, wires, inputs, accepted, gap>>

Lose ==
    /\ \/ \E m \in net : net' = net \ {m} /\ UNCHANGED signals
       \/ \E s \in signals : signals' = signals \ {s} /\ UNCHANGED net
    /\ UNCHANGED <<bundle, log, delivery, inputs, accepted, gap>>

\* load_bundles: what was on the delivery list, older, is delivered again
\* first; then the pending copy, with the custody that its record says.
Reload(n) ==
    \/ /\ n # Dst
       /\ UNCHANGED <<copy, custodian, list, cache>>
    \/ /\ n = Dst /\ list.held
       /\ cache' = TRUE
       /\ UNCHANGED <<copy, custodian, list>>
    \/ /\ n = Dst /\ ~list.held /\ (over \/ copy[n] = "absent")
       /\ cache' = FALSE
       /\ UNCHANGED <<copy, custodian, list>>
    \/ /\ n = Dst /\ ~list.held /\ ~over /\ copy[n] = "custody"
       /\ cache' = TRUE /\ list' = ThePending
       /\ UNCHANGED <<copy, custodian>>
    \/ /\ n = Dst /\ ~list.held /\ ~over /\ copy[n] = "plain"
       /\ cache' = TRUE /\ list' = Kept(custodian[n])
       /\ copy' = [copy EXCEPT ![n] = "absent"]
       /\ custodian' = [custodian EXCEPT ![n] = None]

\* The daemon of n stops and loads what it has stored.  If it had signalled
\* custody that its data store does not have yet, nobody may have it now.
Crash(n) ==
    /\ crashes < MaxCrashes /\ crashes' = crashes + 1
    /\ gap' = (gap \/ (n \in accepting /\ custodian[n] # None))
    /\ accepting' = accepting \ {n}
    /\ sent' = [sent EXCEPT ![n] = {}] /\ timers' = [timers EXCEPT ![n] = {}]
    /\ Reload(n)
    /\ UNCHANGED <<taken, wires, created, over, accepted>>

Next ==
    \/ Create \/ Take \/ LifetimeEnds \/ Lose
    \/ \E n \in Nodes : AcceptCustody(n) \/ Expire(n) \/ Crash(n)
    \/ \E n \in Nodes, c \in Custodians : Receive(n, c)
    \/ \E n, h \in Nodes : Send(n, h) \/ CustodyTimeout(n, h) \/ HandleSignal(n, h)

Spec == Init /\ [][Next]_vars

\* The daemons keep running, timers fire, and applications take what is on
\* their list.  A contact that is opened again and again lasts long enough at
\* some time: a bundle that is sent again and again is acknowledged, and
\* arrives; nothing is assumed of signals.
Acknowledged(n) == \E h \in Nodes : Send(n, h) /\ (h \in sent'[n] \/ copy'[n] = "absent")
FairSpec ==
    /\ Spec
    /\ WF_vars(Take)
    /\ \A n \in Nodes :
          /\ WF_vars(AcceptCustody(n))
          /\ WF_vars(\E h \in Nodes : CustodyTimeout(n, h))
          /\ SF_vars(Acknowledged(n))
          /\ SF_vars(\E c \in Custodians : Receive(n, c))

-----------------------------------------------------------------------------
(* Properties *)

TypeOK ==
    /\ copy \in [Nodes -> {"absent", "plain", "custody"}]
    /\ custodian \in [Nodes -> Custodians] /\ accepting \subseteq Nodes
    /\ sent \in [Nodes -> SUBSET Nodes] /\ timers \in [Nodes -> SUBSET Nodes]
    /\ list \in {Nothing, ThePending} \cup {Kept(c) : c \in Custodians}
    /\ net \subseteq [to : Nodes, custodian : Custodians]
    /\ signals \subseteq [from : Nodes, to : Nodes]
    /\ cache \in BOOLEAN /\ created \in BOOLEAN /\ over \in BOOLEAN
    /\ accepted \in BOOLEAN /\ taken \in BOOLEAN /\ gap \in BOOLEAN
    /\ crashes \in 0..MaxCrashes

\* n has custody, or is about to record it and has said so.
Holds(n) == copy[n] = "custody" \/ (n \in accepting /\ custodian[n] # None)

\* Custody passes from node to node (accept_custody, handle_custody_signal)
\* without ever being dropped: once a node has accepted it, some node has it until an application has the bundle,
\* within its lifetime, whatever bundles and signals are lost, repeated or
\* late.  Only a crash within accept_custody, between the signal and the
\* update of the data store, may lose it.
SomeoneHasCustody == accepted => over \/ taken \/ gap \/ \E n \in Nodes : Holds(n)

\* A custodian gets the bundle to its destination (handle_custody_timeout): it
\* sends it again until the custody has moved on, to a node that does the same.
CustodyDelivers == (\E n \in Nodes : Holds(n)) ~> (taken \/ over \/ gap)
=============================================================================
