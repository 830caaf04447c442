------------------------ MODULE BundleDaemon_proofs -------------------------
(***************************************************************************)
(* Every variable of the bundle daemon has its type, what it keeps of a    *)
(* bundle agrees, and so do the lists of a link and of its connection: for *)
(* any number of bundles, links and routes.                                *)
(*                                                                         *)
(* The first part proves the types, and shows what a step of each kind     *)
(* does to the event queue and to the stack of calls.                      *)
(***************************************************************************)
EXTENDS BundleDaemon, SequenceLemmas


-----------------------------------------------------------------------------
(* Tables.                                                                 *)

\* One entry of a table of bundles and links.
LEMMA SetEntry ==
    ASSUME NEW S, NEW f \in [Bundles -> [Links -> S]], NEW b \in Bundles, NEW l \in Links,
           NEW x \in S
    PROVE  [f EXCEPT ![b][l] = x] \in [Bundles -> [Links -> S]]
OBVIOUS

-----------------------------------------------------------------------------
(* The constructors.                                                       *)

LEMMA EventShape ==
    ASSUME NEW e \in Event
    PROVE  /\ e.type \in {"received", "expired", "deleterequest", "custodysignal",
                          "transmitted", "sendcancelled", "cancelsend", "custodytimeout"}
                => e.b \in Bundles
           /\ e.type \in {"transmitted", "sendcancelled", "cancelsend", "custodytimeout",
                          "contactup", "contactdown", "closed", "open"} => e.l \in Links
           /\ e.type = "received" => e.l \in Links \cup {NoLink}
           /\ e.c \in 0..MaxContacts
           /\ e.why \in {"", "broken", "idle", "user"}
<1>1. CASE e \in [type : {"received"}, b : Bundles, l : Links \cup {NoLink}, c : {0},
                  why : {""}]
  <2>1. e.c = 0
    BY <1>1
  <2>2. e.c \in 0..MaxContacts
    BY <2>1, ParamsAssumption
  <2> QED
    BY <1>1, <2>2
<1>2. CASE e \in [type : {"expired", "deleterequest", "custodysignal"}, b : Bundles,
                  l : {NoLink}, c : {0}, why : {""}]
  <2>1. e.c = 0
    BY <1>2
  <2>2. e.c \in 0..MaxContacts
    BY <2>1, ParamsAssumption
  <2> QED
    BY <1>2, <2>2
<1>3. CASE e \in [type : {"transmitted", "sendcancelled", "cancelsend", "custodytimeout"},
                  b : Bundles, l : Links, c : {0}, why : {""}]
  <2>1. e.c = 0
    BY <1>3
  <2>2. e.c \in 0..MaxContacts
    BY <2>1, ParamsAssumption
  <2> QED
    BY <1>3, <2>2
<1>4. CASE e \in [type : {"contactup", "contactdown", "closed", "open"}, b : {NoBundle},
                  l : Links, c : 0..MaxContacts, why : {"", "broken", "idle", "user"}]
  BY <1>4
<1> QED
  BY <1>1, <1>2, <1>3, <1>4 DEF Event

LEMMA CallShape ==
    ASSUME NEW c \in Call
    PROVE  /\ c.op \in {"route", "forward", "drain", "cancel", "trydelete"} => c.b \in Bundles
           /\ c.op \in {"route", "forward", "drain", "cancel", "check", "close"} => c.l \in Links
BY DEF Call

LEMMA EventTypes ==
    /\ \A b \in Bundles, l \in Links \cup {NoLink} : BundleEvent("received", b, l) \in Event
    /\ \A b \in Bundles, t \in {"expired", "deleterequest", "custodysignal"} :
          BundleEvent(t, b, NoLink) \in Event
    /\ \A b \in Bundles, l \in Links,
          t \in {"transmitted", "sendcancelled", "cancelsend", "custodytimeout"} :
             BundleEvent(t, b, l) \in Event
    /\ \A l \in Links, t \in {"contactup", "contactdown", "closed", "open"}, c \in 0..MaxContacts,
          w \in {"", "broken", "idle", "user"} : ContactEvent(t, l, c, w) \in Event
BY DEF Event, BundleEvent, ContactEvent

LEMMA CallTypes ==
    /\ \A b \in Bundles, l \in Links, op \in {"route", "forward", "drain", "cancel"} :
          DoCall(op, b, l) \in Call
    /\ \A b \in Bundles : DoCall("trydelete", b, NoLink) \in Call
    /\ \A l \in Links, op \in {"check", "close"} : DoCall(op, NoBundle, l) \in Call
    /\ DoCall("load", NoBundle, NoLink) \in Call
BY DEF Call, DoCall

LEMMA RouteCallsType ==
    ASSUME NEW b \in Bundles
    PROVE  RouteCalls(b) \in Seq(Call) /\ CancelCalls(b) \in Seq(Call)
BY LinksAssumption, CallTypes DEF RouteCalls, CancelCalls

\* The head of the event queue, when the daemon handles it.
LEMMA HandledEvent ==
    ASSUME TypeOK, NEW type, Handle(type)
    PROVE  /\ Ev \in Event /\ Ev.type = type
           /\ Tail(eventq) \in Seq(Event)
           /\ calls = <<>>
BY DEF TypeOK, DaemonTypes, Handle, Ev, Idle

\* The call at the top of the stack, when the daemon works it off.
LEMMA SteppedCall ==
    ASSUME TypeOK, NEW op, Step(op)
    PROVE  /\ Now \in Call /\ Now.op = op
           /\ Tail(calls) \in Seq(Call)
BY DEF TypeOK, DaemonTypes, Step, Now, Idle

-----------------------------------------------------------------------------
(* The parts of TypeOK that an action leaves alone.                        *)

LEMMA UnchangedTypes ==
    /\ BundleTypes /\ UNCHANGED bundleVars => BundleTypes'
    /\ RouteTypes /\ UNCHANGED routeVars => RouteTypes'
    /\ LinkTypes /\ UNCHANGED linkVars => LinkTypes'
    /\ ConnTypes /\ UNCHANGED connVars => ConnTypes'
    /\ DaemonTypes /\ UNCHANGED daemonVars => DaemonTypes'
    /\ EnvTypes /\ UNCHANGED envVars => EnvTypes'
BY DEF BundleTypes, RouteTypes, LinkTypes, ConnTypes, DaemonTypes, EnvTypes,
       bundleVars, routeVars, linkVars, connVars, daemonVars, envVars

LEMMA InitType == Init => TypeOK
<1> SUFFICES ASSUME Init PROVE TypeOK
  OBVIOUS
<1>1. BundleTypes
  BY DEF Init, BundleTypes, TimerStates
<1>2. RouteTypes
  BY DEF Init, RouteTypes, FwdStates
<1>3. LinkTypes
  <2>1. MaxContacts \in 1..MaxContacts
    BY ParamsAssumption
  <2> QED
    BY <2>1 DEF Init, LinkTypes, InitialState
<1>4. ConnTypes
  BY DEF Init, ConnTypes
<1>5. DaemonTypes /\ EnvTypes
  BY DEF Init, DaemonTypes, EnvTypes
<1> QED
  BY <1>1, <1>2, <1>3, <1>4, <1>5 DEF TypeOK

-----------------------------------------------------------------------------
(* The types that the operators of the actions give.                       *)

LEMMA PostType ==
    ASSUME TypeOK, NEW e \in Event, Post(e), UNCHANGED calls
    PROVE  DaemonTypes'
BY DEF Post, TypeOK, DaemonTypes

LEMMA RemoveFromDeferredType ==
    ASSUME TypeOK, NEW b, NEW actions, RemoveFromDeferred(b, actions)
    PROVE  deferred' \in [Links -> Seq(Bundles)]
BY RemoveFirstSeq DEF RemoveFromDeferred, TypeOK, LinkTypes

LEMMA OffListsType ==
    ASSUME TypeOK, NEW b \in Bundles, NEW l \in Links, OffLists(b, l)
    PROVE  /\ queue' \in [Links -> Seq(Bundles)]
           /\ inflight' \in [Links -> SUBSET Bundles]
<1>1. RemoveFirst(queue[l], b) \in Seq(Bundles)
  BY RemoveFirstSeq DEF TypeOK, LinkTypes
<1> QED
  BY <1>1 DEF OffLists, TypeOK, LinkTypes

LEMMA ReleaseCustodyType ==
    ASSUME TypeOK, NEW b \in Bundles, ReleaseCustody(b)
    PROVE  /\ local' \subseteq Bundles /\ custody' \subseteq Bundles
           /\ store' \in [Bundles -> {"absent", "plain", "custody"}]
           /\ ctimer' \in [Bundles -> [Links -> TimerStates]]
<1>1. [l \in Links |-> CASE ctimer[b][l] = "pending" -> "cancelled"
                         [] ctimer[b][l] = "fired"   -> "orphan"
                         [] OTHER -> ctimer[b][l]] \in [Links -> TimerStates]
  BY DEF TypeOK, BundleTypes, TimerStates
<1>2. ctimer' \in [Bundles -> [Links -> TimerStates]]
  BY <1>1 DEF ReleaseCustody, TypeOK, BundleTypes
<1> QED
  BY <1>2 DEF ReleaseCustody, TypeOK, BundleTypes

LEMMA DeleteBundleType ==
    ASSUME TypeOK, NEW b \in Bundles, DeleteBundle(b), UNCHANGED all
    PROVE  BundleTypes' /\ deferred' \in [Links -> Seq(Bundles)]
<1>1. deferred' \in [Links -> Seq(Bundles)]
  BY RemoveFromDeferredType DEF DeleteBundle
<1>2. CASE b \in local
  BY <1>1, <1>2, ReleaseCustodyType DEF DeleteBundle, TypeOK, BundleTypes
<1>3. CASE b \notin local
  BY <1>1, <1>3 DEF DeleteBundle, TypeOK, BundleTypes
<1> QED
  BY <1>2, <1>3

\* The number of a new contact is not in an event that waits.
LEMMA NextContactIsNew ==
    ASSUME NEW l, FreeContacts(l) # {}
    PROVE  /\ NextContact(l) \in 1..MaxContacts
           /\ \A e \in ToSet(eventq) : e.l = l => e.c # NextContact(l)
<1>1. NextContact(l) \in FreeContacts(l)
  BY DEF NextContact
<1> QED
  BY <1>1 DEF FreeContacts

LEMMA OpenLinkType ==
    ASSUME TypeOK, NEW l \in Links, OpenLink(l)
    PROVE  /\ linkState' \in [Links -> {"unavailable", "available", "opening", "open"}]
           /\ contact' \in [Links -> 1..MaxContacts]
           /\ phase' \in [Links -> {"none", "connecting", "up", "broken"}]
<1>1. NextContact(l) \in 1..MaxContacts
  BY NextContactIsNew DEF OpenLink
<1> QED
  BY <1>1 DEF OpenLink, TypeOK, LinkTypes, ConnTypes

LEMMA QueueBundleType ==
    ASSUME TypeOK, NEW b \in Bundles, NEW l \in Links, QueueBundle(b, l)
    PROVE  /\ fwd' \in [Bundles -> [Links -> FwdStates]]
           /\ blocks' \subseteq Bundles \X Links
           /\ queue' \in [Links -> Seq(Bundles)]
<1>1. [fwd EXCEPT ![b][l] = "queued"] \in [Bundles -> [Links -> FwdStates]]
  BY SetEntry DEF TypeOK, RouteTypes, FwdStates
<1>2. Append(queue[l], b) \in Seq(Bundles)
  BY DEF TypeOK, LinkTypes
<1>3. CASE <<b, l>> \in blocks
  BY <1>3 DEF QueueBundle, TypeOK, RouteTypes, LinkTypes
<1>4. CASE <<b, l>> \notin blocks
  <2>1. blocks' \subseteq Bundles \X Links
    BY <1>4 DEF QueueBundle, TypeOK, RouteTypes
  <2>2. \/ UNCHANGED <<fwd, queue>>
        \/ /\ fwd' = [fwd EXCEPT ![b][l] = "queued"]
           /\ queue' = [queue EXCEPT ![l] = Append(queue[l], b)]
    BY <1>4 DEF QueueBundle
  <2>3. fwd' \in [Bundles -> [Links -> FwdStates]]
    BY <1>1, <2>2 DEF TypeOK, RouteTypes
  <2>4. queue' \in [Links -> Seq(Bundles)]
    BY <1>2, <2>2 DEF TypeOK, LinkTypes
  <2> QED
    BY <2>1, <2>3, <2>4
<1> QED
  BY <1>3, <1>4

-----------------------------------------------------------------------------
(* Every action preserves TypeOK.                                          *)

LEMMA CrashType == TypeOK /\ Crash => TypeOK'
<1> SUFFICES ASSUME TypeOK, Crash PROVE TypeOK'
  OBVIOUS
<1>1. BundleTypes'
  BY DEF Crash, TypeOK, BundleTypes, TimerStates
<1>2. RouteTypes'
  BY DEF Crash, TypeOK, RouteTypes, FwdStates
<1>3. LinkTypes'
  <2>1. MaxContacts \in 1..MaxContacts
    BY ParamsAssumption
  <2> QED
    BY <2>1 DEF Crash, LinkTypes, InitialState
<1>4. ConnTypes'
  BY DEF Crash, TypeOK, ConnTypes
<1>5. DaemonTypes'
  BY CallTypes DEF Crash, TypeOK, DaemonTypes
<1>6. EnvTypes'
  BY UnchangedTypes DEF Crash, TypeOK
<1> QED
  BY <1>1, <1>2, <1>3, <1>4, <1>5, <1>6 DEF TypeOK

LEMMA LoadBundleType == TypeOK /\ LoadBundle => TypeOK'
<1> SUFFICES ASSUME TypeOK, LoadBundle PROVE TypeOK'
  OBVIOUS
<1>1. BundleTypes'
  BY DEF LoadBundle, TypeOK, BundleTypes, TimerStates
<1>2. RouteTypes'
  BY BundlesAssumption DEF LoadBundle, TypeOK, RouteTypes, FwdStates
<1>3. DaemonTypes'
  <2>1. PICK b \in Bundles :
          eventq' = eventq \/ eventq' = <<BundleEvent("deleterequest", b, NoLink)>> \o eventq
    BY DEF LoadBundle
  <2>2. eventq' \in Seq(Event)
    BY <2>1, EventTypes, Prepend DEF TypeOK, DaemonTypes
  <2>3. PICK d \in Bundles : calls' = calls \/ calls' = calls \o RouteCalls(d)
    BY DEF LoadBundle
  <2>4. calls' \in Seq(Call)
    BY <2>3, RouteCallsType, Concat DEF TypeOK, DaemonTypes
  <2> QED
    BY <2>2, <2>4 DEF DaemonTypes
<1>4. LinkTypes' /\ ConnTypes' /\ EnvTypes'
  BY UnchangedTypes DEF LoadBundle, TypeOK
<1> QED
  BY <1>1, <1>2, <1>3, <1>4 DEF TypeOK

LEMMA LoadExpiredType == TypeOK /\ LoadExpired => TypeOK'
<1> SUFFICES ASSUME TypeOK, LoadExpired PROVE TypeOK'
  OBVIOUS
<1>1. BundleTypes'
  BY DEF LoadExpired, TypeOK, BundleTypes, TimerStates
<1>2. DaemonTypes'
  BY EventTypes, Prepend DEF LoadExpired, TypeOK, DaemonTypes
<1>3. RouteTypes' /\ LinkTypes' /\ ConnTypes' /\ EnvTypes'
  BY UnchangedTypes DEF LoadExpired, TypeOK
<1> QED
  BY <1>1, <1>2, <1>3 DEF TypeOK

LEMMA LoadDoneType == TypeOK /\ LoadDone => TypeOK'
<1> SUFFICES ASSUME TypeOK, LoadDone PROVE TypeOK'
  OBVIOUS
<1>1. RouteTypes'
  BY DEF LoadDone, TypeOK, RouteTypes, FwdStates
<1>2. DaemonTypes'
  BY DEF LoadDone, Idle, TypeOK, DaemonTypes
<1>3. BundleTypes' /\ LinkTypes' /\ ConnTypes' /\ EnvTypes'
  BY UnchangedTypes DEF LoadDone, TypeOK
<1> QED
  BY <1>1, <1>2, <1>3 DEF TypeOK

LEMMA DiscardDuplicateType == TypeOK /\ DiscardDuplicate => TypeOK'
<1> SUFFICES ASSUME TypeOK, DiscardDuplicate PROVE TypeOK'
  OBVIOUS
<1>1. /\ Ev.b \in Bundles
      /\ Ev.l \in Links \cup {NoLink}
      /\ Tail(eventq) \in Seq(Event)
  BY HandledEvent, EventShape DEF DiscardDuplicate
<1>2. RouteTypes'
  BY <1>1 DEF DiscardDuplicate, Reception, TypeOK, RouteTypes, FwdStates
<1>3. DaemonTypes'
  BY <1>1 DEF DiscardDuplicate, Done, TypeOK, DaemonTypes
<1>4. BundleTypes' /\ LinkTypes' /\ ConnTypes' /\ EnvTypes'
  BY UnchangedTypes DEF DiscardDuplicate, TypeOK
<1> QED
  BY <1>2, <1>3, <1>4 DEF TypeOK

LEMMA ReceiveExpiredType == TypeOK /\ ReceiveExpired => TypeOK'
<1> SUFFICES ASSUME TypeOK, ReceiveExpired PROVE TypeOK'
  OBVIOUS
<1>1. /\ Ev.b \in Bundles
      /\ Ev.l \in Links \cup {NoLink}
      /\ Tail(eventq) \in Seq(Event)
  BY HandledEvent, EventShape DEF ReceiveExpired
<1>2. BundleTypes'
  BY <1>1 DEF ReceiveExpired, TypeOK, BundleTypes, TimerStates
<1>3. RouteTypes'
  BY <1>1 DEF ReceiveExpired, Reception, TypeOK, RouteTypes, FwdStates
<1>4. DaemonTypes'
  BY <1>1, EventTypes, Prepend DEF ReceiveExpired, DoneAfter, TypeOK, DaemonTypes
<1>5. LinkTypes' /\ ConnTypes' /\ EnvTypes'
  BY UnchangedTypes DEF ReceiveExpired, TypeOK
<1> QED
  BY <1>2, <1>3, <1>4, <1>5 DEF TypeOK

LEMMA ReceiveBundleType == TypeOK /\ ReceiveBundle => TypeOK'
<1> SUFFICES ASSUME TypeOK, ReceiveBundle PROVE TypeOK'
  OBVIOUS
<1>1. /\ Ev.b \in Bundles
      /\ Ev.l \in Links \cup {NoLink}
      /\ Tail(eventq) \in Seq(Event)
  BY HandledEvent, EventShape DEF ReceiveBundle
<1>2. BundleTypes'
  BY <1>1 DEF ReceiveBundle, TypeOK, BundleTypes, TimerStates
<1>3. RouteTypes'
  BY <1>1, BundlesAssumption, LinksAssumption
  DEF ReceiveBundle, Reception, TypeOK, RouteTypes, FwdStates
<1>4. DaemonTypes'
  <2>1. \/ eventq' = Tail(eventq)
        \/ eventq' = <<BundleEvent("deleterequest", Ev.b, NoLink)>> \o Tail(eventq)
    BY DEF ReceiveBundle, Done, DoneAfter
  <2>2. eventq' \in Seq(Event)
    BY <1>1, <2>1, EventTypes, Prepend
  <2>3. \/ calls' = <<DoCall("trydelete", Ev.b, NoLink)>>
        \/ calls' = RouteCalls(Ev.b) \o <<DoCall("trydelete", Ev.b, NoLink)>>
    BY DEF ReceiveBundle
  <2>4. <<DoCall("trydelete", Ev.b, NoLink)>> \in Seq(Call)
    BY <1>1, CallTypes
  <2>5. RouteCalls(Ev.b) \o <<DoCall("trydelete", Ev.b, NoLink)>> \in Seq(Call)
    BY <1>1, <2>4, RouteCallsType, Concat
  <2> QED
    BY <2>2, <2>3, <2>4, <2>5 DEF DaemonTypes
<1>5. LinkTypes' /\ ConnTypes' /\ EnvTypes'
  BY UnchangedTypes DEF ReceiveBundle, TypeOK
<1> QED
  BY <1>2, <1>3, <1>4, <1>5 DEF TypeOK

LEMMA HandleTransmittedType == TypeOK /\ HandleTransmitted => TypeOK'
<1> SUFFICES ASSUME TypeOK, HandleTransmitted PROVE TypeOK'
  OBVIOUS
<1>1. /\ Ev.b \in Bundles
      /\ Ev.l \in Links
      /\ Tail(eventq) \in Seq(Event)
  BY HandledEvent, EventShape DEF HandleTransmitted
<1>2. BundleTypes'
  <2>1. [ctimer EXCEPT ![Ev.b][Ev.l] = "pending"] \in [Bundles -> [Links -> TimerStates]]
    BY <1>1, SetEntry DEF TypeOK, BundleTypes, TimerStates
  <2> QED
    BY <2>1 DEF HandleTransmitted, TypeOK, BundleTypes
<1>3. RouteTypes'
  <2>1. [fwd EXCEPT ![Ev.b][Ev.l] = "transmitted"] \in [Bundles -> [Links -> FwdStates]]
    BY <1>1, SetEntry DEF TypeOK, RouteTypes, FwdStates
  <2> QED
    BY <2>1 DEF HandleTransmitted, TypeOK, RouteTypes
<1>4. LinkTypes'
  <2>1. OffLists(Ev.b, Ev.l) => /\ queue' \in [Links -> Seq(Bundles)]
                                /\ inflight' \in [Links -> SUBSET Bundles]
    BY <1>1, OffListsType
  <2>2. deferred' \in [Links -> Seq(Bundles)]
    BY RemoveFromDeferredType DEF HandleTransmitted
  <2> QED
    BY <2>1, <2>2 DEF HandleTransmitted, TypeOK, LinkTypes
<1>5. ConnTypes'
  BY <1>1, UnchangedTypes DEF HandleTransmitted, TypeOK, ConnTypes
<1>6. DaemonTypes'
  BY <1>1, CallTypes DEF HandleTransmitted, Done, TypeOK, DaemonTypes
<1>7. EnvTypes'
  BY <1>1, UnchangedTypes DEF HandleTransmitted, TypeOK, EnvTypes
<1> QED
  BY <1>2, <1>3, <1>4, <1>5, <1>6, <1>7 DEF TypeOK

LEMMA HandleSendCancelledType == TypeOK /\ HandleSendCancelled => TypeOK'
<1> SUFFICES ASSUME TypeOK, HandleSendCancelled PROVE TypeOK'
  OBVIOUS
<1>1. /\ Ev.b \in Bundles
      /\ Ev.l \in Links
      /\ Tail(eventq) \in Seq(Event)
  BY HandledEvent, EventShape DEF HandleSendCancelled
<1>2. RouteTypes'
  <2>1. [fwd EXCEPT ![Ev.b][Ev.l] = "cancelled"] \in [Bundles -> [Links -> FwdStates]]
    BY <1>1, SetEntry DEF TypeOK, RouteTypes, FwdStates
  <2> QED
    BY <2>1 DEF HandleSendCancelled, LogCancelled, TypeOK, RouteTypes
<1>3. DaemonTypes'
  BY <1>1, RouteCallsType DEF HandleSendCancelled, Done, RouteAgain, TypeOK, DaemonTypes
<1>4. BundleTypes' /\ LinkTypes' /\ ConnTypes' /\ EnvTypes'
  BY UnchangedTypes DEF HandleSendCancelled, TypeOK
<1> QED
  BY <1>2, <1>3, <1>4 DEF TypeOK

LEMMA HandleDeletionType ==
    ASSUME TypeOK, NEW type \in {"expired", "deleterequest"}, HandleDeletion(type)
    PROVE  TypeOK'
<1>1. /\ Ev.b \in Bundles
      /\ Tail(eventq) \in Seq(Event)
  BY HandledEvent, EventShape DEF HandleDeletion
<1>2. BundleTypes' /\ deferred' \in [Links -> Seq(Bundles)]
  BY <1>1, DeleteBundleType DEF HandleDeletion
<1>3. LinkTypes'
  BY <1>2 DEF HandleDeletion, TypeOK, LinkTypes
<1>4. DaemonTypes'
  BY <1>1, RouteCallsType DEF HandleDeletion, Done, DaemonTypes
<1>5. RouteTypes' /\ ConnTypes' /\ EnvTypes'
  BY UnchangedTypes DEF HandleDeletion, TypeOK
<1> QED
  BY <1>2, <1>3, <1>4, <1>5 DEF TypeOK

LEMMA HandleCancelSendType == TypeOK /\ HandleCancelSend => TypeOK'
<1> SUFFICES ASSUME TypeOK, HandleCancelSend PROVE TypeOK'
  OBVIOUS
<1>1. /\ Ev.b \in Bundles
      /\ Ev.l \in Links
      /\ Tail(eventq) \in Seq(Event)
  BY HandledEvent, EventShape DEF HandleCancelSend
<1>2. DaemonTypes'
  BY <1>1, CallTypes DEF HandleCancelSend, Done, TypeOK, DaemonTypes
<1>3. BundleTypes' /\ RouteTypes' /\ LinkTypes' /\ ConnTypes' /\ EnvTypes'
  BY UnchangedTypes DEF HandleCancelSend, TypeOK
<1> QED
  BY <1>2, <1>3 DEF TypeOK

LEMMA HandleCustodySignalType == TypeOK /\ HandleCustodySignal => TypeOK'
<1> SUFFICES ASSUME TypeOK, HandleCustodySignal PROVE TypeOK'
  OBVIOUS
<1>1. Tail(eventq) \in Seq(Event) /\ calls = <<>>
  BY HandledEvent DEF HandleCustodySignal
<1>2. RouteTypes' /\ LinkTypes' /\ ConnTypes' /\ EnvTypes'
  BY UnchangedTypes DEF HandleCustodySignal, TypeOK
<1>3. ASSUME NEW b \in custody, ReleaseCustody(b), calls' = <<DoCall("trydelete", b, NoLink)>>
      PROVE  BundleTypes' /\ DaemonTypes'
  <2>1. b \in Bundles
    BY DEF TypeOK, BundleTypes
  <2>2. BundleTypes'
    BY <1>3, <2>1, ReleaseCustodyType DEF HandleCustodySignal, TypeOK, BundleTypes
  <2>3. DaemonTypes'
    BY <1>1, <1>3, <2>1, CallTypes DEF HandleCustodySignal, Done, DaemonTypes
  <2> QED
    BY <2>2, <2>3
<1>4. ASSUME UNCHANGED <<local, custody, store, ctimer, calls>>
      PROVE  BundleTypes' /\ DaemonTypes'
  <2>1. BundleTypes'
    BY <1>4 DEF HandleCustodySignal, TypeOK, BundleTypes
  <2>2. DaemonTypes'
    BY <1>1, <1>4 DEF HandleCustodySignal, Done, TypeOK, DaemonTypes
  <2> QED
    BY <2>1, <2>2
<1> QED
  BY <1>2, <1>3, <1>4 DEF HandleCustodySignal, TypeOK

LEMMA HandleCustodyTimeoutType == TypeOK /\ HandleCustodyTimeout => TypeOK'
<1> SUFFICES ASSUME TypeOK, HandleCustodyTimeout PROVE TypeOK'
  OBVIOUS
<1>1. /\ Ev.b \in Bundles
      /\ Ev.l \in Links
      /\ Tail(eventq) \in Seq(Event)
  BY HandledEvent, EventShape DEF HandleCustodyTimeout
<1>2. BundleTypes'
  <2>1. [ctimer EXCEPT ![Ev.b][Ev.l] = "none"] \in [Bundles -> [Links -> TimerStates]]
    BY <1>1, SetEntry DEF TypeOK, BundleTypes, TimerStates
  <2> QED
    BY <2>1 DEF HandleCustodyTimeout, TypeOK, BundleTypes
<1>3. RouteTypes'
  <2>1. [fwd EXCEPT ![Ev.b][Ev.l] = "custodytimeout"] \in [Bundles -> [Links -> FwdStates]]
    BY <1>1, SetEntry DEF TypeOK, RouteTypes, FwdStates
  <2> QED
    BY <2>1 DEF HandleCustodyTimeout, LogTimeout, TypeOK, RouteTypes
<1>4. DaemonTypes'
  BY <1>1, RouteCallsType DEF HandleCustodyTimeout, Done, TypeOK, DaemonTypes
<1>5. LinkTypes' /\ ConnTypes' /\ EnvTypes'
  BY UnchangedTypes DEF HandleCustodyTimeout, TypeOK
<1> QED
  BY <1>2, <1>3, <1>4, <1>5 DEF TypeOK

LEMMA HandleContactUpType == TypeOK /\ HandleContactUp => TypeOK'
<1> SUFFICES ASSUME TypeOK, HandleContactUp PROVE TypeOK'
  OBVIOUS
<1>1. /\ Ev.l \in Links
      /\ Tail(eventq) \in Seq(Event)
  BY HandledEvent, EventShape DEF HandleContactUp
<1>2. LinkTypes'
  BY <1>1 DEF HandleContactUp, MarkOpen, TypeOK, LinkTypes
<1>3. DaemonTypes'
  BY <1>1, CallTypes DEF HandleContactUp, Done, TypeOK, DaemonTypes
<1>4. BundleTypes' /\ RouteTypes' /\ ConnTypes' /\ EnvTypes'
  BY UnchangedTypes DEF HandleContactUp, TypeOK
<1> QED
  BY <1>2, <1>3, <1>4 DEF TypeOK

LEMMA HandleContactDownType == TypeOK /\ HandleContactDown => TypeOK'
<1> SUFFICES ASSUME TypeOK, HandleContactDown PROVE TypeOK'
  OBVIOUS
<1>1. /\ Ev.l \in Links
      /\ Tail(eventq) \in Seq(Event)
  BY HandledEvent, EventShape DEF HandleContactDown
<1>2. LinkTypes'
  BY <1>1 DEF HandleContactDown, TypeOK, LinkTypes
<1>3. DaemonTypes'
  BY <1>1 DEF HandleContactDown, Done, TypeOK, DaemonTypes
<1>4. BundleTypes' /\ RouteTypes' /\ ConnTypes' /\ EnvTypes'
  BY UnchangedTypes DEF HandleContactDown, TypeOK
<1> QED
  BY <1>2, <1>3, <1>4 DEF TypeOK

LEMMA HandleClosedType == TypeOK /\ HandleClosed => TypeOK'
<1> SUFFICES ASSUME TypeOK, HandleClosed PROVE TypeOK'
  OBVIOUS
<1>1. /\ Ev.l \in Links
      /\ Ev.c \in 0..MaxContacts /\ Ev.why \in {"", "broken", "idle", "user"}
      /\ Tail(eventq) \in Seq(Event)
  BY HandledEvent, EventShape DEF HandleClosed
<1>2. LinkTypes'
  BY <1>1 DEF HandleClosed, TypeOK, LinkTypes
<1>3. ConnTypes'
  BY <1>1 DEF HandleClosed, TypeOK, ConnTypes
<1>4. DaemonTypes'
  <2>1. ContactEvent("contactdown", Ev.l, Ev.c, Ev.why) \in Event
    BY <1>1, EventTypes
  <2>2. eventq' = Tail(eventq)
           \/ eventq' = <<ContactEvent("contactdown", Ev.l, Ev.c, Ev.why)>> \o Tail(eventq)
    BY DEF HandleClosed, Done, DoneAfter
  <2>3. eventq' \in Seq(Event)
    BY <1>1, <2>1, <2>2, Prepend
  <2>4. DoCall("close", NoBundle, Ev.l) \in Call
    BY <1>1, CallTypes
  <2>5. <<DoCall("close", NoBundle, Ev.l)>> \in Seq(Call)
    BY <2>4
  <2>6. calls' = <<DoCall("close", NoBundle, Ev.l)>> \/ UNCHANGED calls
    BY DEF HandleClosed
  <2>7. calls' \in Seq(Call)
    BY <2>5, <2>6 DEF TypeOK, DaemonTypes
  <2> QED
    BY <2>3, <2>7 DEF DaemonTypes
<1>5. BundleTypes' /\ RouteTypes' /\ EnvTypes'
  BY UnchangedTypes DEF HandleClosed, TypeOK
<1> QED
  BY <1>2, <1>3, <1>4, <1>5 DEF TypeOK

LEMMA HandleOpenType == TypeOK /\ HandleOpen => TypeOK'
<1> SUFFICES ASSUME TypeOK, HandleOpen PROVE TypeOK'
  OBVIOUS
<1>1. /\ Ev.l \in Links
      /\ Tail(eventq) \in Seq(Event)
  BY HandledEvent, EventShape DEF HandleOpen
<1>2. LinkTypes'
  BY <1>1, OpenLinkType DEF HandleOpen, TypeOK, LinkTypes
<1>3. ConnTypes'
  BY <1>1, OpenLinkType DEF HandleOpen, TypeOK, ConnTypes
<1>4. DaemonTypes'
  BY <1>1 DEF HandleOpen, Done, TypeOK, DaemonTypes
<1>5. BundleTypes' /\ RouteTypes' /\ EnvTypes'
  BY UnchangedTypes DEF HandleOpen, TypeOK
<1> QED
  BY <1>2, <1>3, <1>4, <1>5 DEF TypeOK

LEMMA RouteBundleType == TypeOK /\ RouteBundle => TypeOK'
<1> SUFFICES ASSUME TypeOK, RouteBundle PROVE TypeOK'
  OBVIOUS
<1>1. /\ Now.b \in Bundles
      /\ Now.l \in Links
      /\ Tail(calls) \in Seq(Call)
  BY SteppedCall, CallShape DEF RouteBundle
<1>2. DaemonTypes'
  <2>1. <<DoCall("check", NoBundle, Now.l), DoCall("forward", Now.b, Now.l)>> \in Seq(Call)
    BY <1>1, CallTypes
  <2> QED
    BY <1>1, <2>1, Concat DEF RouteBundle, TypeOK, DaemonTypes
<1>3. BundleTypes' /\ RouteTypes' /\ LinkTypes' /\ ConnTypes' /\ EnvTypes'
  BY UnchangedTypes DEF RouteBundle, TypeOK
<1> QED
  BY <1>2, <1>3 DEF TypeOK

LEMMA ForwardBundleType == TypeOK /\ ForwardBundle => TypeOK'
<1> SUFFICES ASSUME TypeOK, ForwardBundle PROVE TypeOK'
  OBVIOUS
<1>1. /\ Now.b \in Bundles
      /\ Now.l \in Links
      /\ Tail(calls) \in Seq(Call)
  BY SteppedCall, CallShape DEF ForwardBundle
<1>2. RouteTypes'
  BY <1>1, QueueBundleType DEF ForwardBundle, TypeOK, RouteTypes, FwdStates
<1>3. LinkTypes'
  <2>1. Append(deferred[Now.l], Now.b) \in Seq(Bundles)
    BY <1>1 DEF TypeOK, LinkTypes
  <2> QED
    BY <1>1, <2>1, QueueBundleType, OpenLinkType DEF ForwardBundle, TypeOK, LinkTypes
<1>4. ConnTypes'
  BY <1>1, OpenLinkType DEF ForwardBundle, TypeOK, ConnTypes
<1>5. DaemonTypes'
  BY <1>1 DEF ForwardBundle, Return, TypeOK, DaemonTypes
<1>6. BundleTypes' /\ EnvTypes'
  BY UnchangedTypes DEF ForwardBundle, TypeOK
<1> QED
  BY <1>2, <1>3, <1>4, <1>5, <1>6 DEF TypeOK

LEMMA CheckNextHopType == TypeOK /\ CheckNextHop => TypeOK'
<1> SUFFICES ASSUME TypeOK, CheckNextHop PROVE TypeOK'
  OBVIOUS
<1>1. /\ Now.l \in Links
      /\ Tail(calls) \in Seq(Call)
  BY SteppedCall, CallShape DEF CheckNextHop
<1>2. DaemonTypes'
  <2>1. deferred[Now.l] # <<>> => <<DoCall("drain", Head(deferred[Now.l]), Now.l)>> \in Seq(Call)
    BY <1>1, CallTypes DEF TypeOK, LinkTypes
  <2> QED
    BY <1>1, <2>1, Concat DEF CheckNextHop, TypeOK, DaemonTypes
<1>3. BundleTypes' /\ RouteTypes' /\ LinkTypes' /\ ConnTypes' /\ EnvTypes'
  BY UnchangedTypes DEF CheckNextHop, TypeOK
<1> QED
  BY <1>2, <1>3 DEF TypeOK

LEMMA DrainDeferredType == TypeOK /\ DrainDeferred => TypeOK'
<1> SUFFICES ASSUME TypeOK, DrainDeferred PROVE TypeOK'
  OBVIOUS
<1>1. /\ Now.b \in Bundles
      /\ Now.l \in Links
      /\ Tail(calls) \in Seq(Call)
  BY SteppedCall, CallShape DEF DrainDeferred
<1>2. RouteTypes'
  BY <1>1, QueueBundleType DEF DrainDeferred, TypeOK, RouteTypes, FwdStates
<1>3. LinkTypes'
  <2>1. RemoveFirst(deferred[Now.l], Now.b) \in Seq(Bundles)
    BY <1>1, RemoveFirstSeq DEF TypeOK, LinkTypes
  <2> QED
    BY <1>1, <2>1, QueueBundleType DEF DrainDeferred, TypeOK, LinkTypes
<1>4. DaemonTypes'
  <2>1. After(Now.b, Now.l) \subseteq Bundles
    BY <1>1 DEF After, TypeOK, LinkTypes
  <2>2. After(Now.b, Now.l) # {} =>
          DoCall("drain", CHOOSE d \in After(Now.b, Now.l) : TRUE, Now.l) \in Call
    BY <1>1, <2>1, CallTypes
  <2> QED
    BY <1>1, <2>2, Prepend DEF DrainDeferred, Return, TypeOK, DaemonTypes
<1>5. BundleTypes' /\ ConnTypes' /\ EnvTypes'
  BY UnchangedTypes DEF DrainDeferred, TypeOK
<1> QED
  BY <1>2, <1>3, <1>4, <1>5 DEF TypeOK

LEMMA CancelBundleType == TypeOK /\ CancelBundle => TypeOK'
<1> SUFFICES ASSUME TypeOK, CancelBundle PROVE TypeOK'
  OBVIOUS
<1>1. /\ Now.b \in Bundles
      /\ Now.l \in Links
      /\ Tail(calls) \in Seq(Call)
  BY SteppedCall, CallShape DEF CancelBundle
<1>2. LinkTypes'
  <2>1. RemoveFirst(queue[Now.l], Now.b) \in Seq(Bundles)
    BY <1>1, RemoveFirstSeq DEF TypeOK, LinkTypes
  <2> QED
    BY <1>1, <2>1 DEF CancelBundle, TypeOK, LinkTypes
<1>3. ConnTypes'
  <2>1. Append(cmds[Now.l], Now.b) \in Seq(Bundles)
    BY <1>1 DEF TypeOK, ConnTypes
  <2> QED
    BY <1>1, <2>1 DEF CancelBundle, TypeOK, ConnTypes
<1>4. DaemonTypes'
  <2>1. BundleEvent("sendcancelled", Now.b, Now.l) \in Event
    BY <1>1, EventTypes
  <2>2. Append(eventq, BundleEvent("sendcancelled", Now.b, Now.l)) \in Seq(Event)
    BY <2>1 DEF TypeOK, DaemonTypes
  <2> QED
    BY <1>1, <2>2 DEF CancelBundle, Post, Return, TypeOK, DaemonTypes
<1>5. BundleTypes' /\ RouteTypes' /\ EnvTypes'
  BY UnchangedTypes DEF CancelBundle, TypeOK
<1> QED
  BY <1>2, <1>3, <1>4, <1>5 DEF TypeOK

LEMMA TryToDeleteType == TypeOK /\ TryToDelete => TypeOK'
<1> SUFFICES ASSUME TypeOK, TryToDelete PROVE TypeOK'
  OBVIOUS
<1>1. /\ Now.b \in Bundles
      /\ Tail(calls) \in Seq(Call)
  BY SteppedCall, CallShape DEF TryToDelete
<1>2. BundleTypes'
  BY <1>1, DeleteBundleType DEF TryToDelete, TypeOK, BundleTypes, TimerStates
<1>3. LinkTypes'
  BY <1>1, DeleteBundleType DEF TryToDelete, TypeOK, LinkTypes
<1>4. DaemonTypes'
  BY <1>1, RouteCallsType, Concat DEF TryToDelete, Return, TypeOK, DaemonTypes
<1>5. RouteTypes' /\ ConnTypes' /\ EnvTypes'
  BY UnchangedTypes DEF TryToDelete, TypeOK
<1> QED
  BY <1>2, <1>3, <1>4, <1>5 DEF TypeOK

LEMMA RequeueType == TypeOK /\ Requeue => TypeOK'
<1> SUFFICES ASSUME TypeOK, Requeue PROVE TypeOK'
  OBVIOUS
<1>1. /\ Now.l \in Links
      /\ Tail(calls) \in Seq(Call)
  BY SteppedCall, CallShape DEF Requeue
<1>2. LinkTypes'
  <2>1. sending[Now.l] # <<>> => Head(sending[Now.l]) \in Bundles
    BY <1>1 DEF TypeOK, ConnTypes
  <2> QED
    BY <1>1, <2>1 DEF Requeue, Restore, TypeOK, LinkTypes
<1>3. ConnTypes'
  BY <1>1 DEF Requeue, TypeOK, ConnTypes
<1>4. BundleTypes' /\ RouteTypes' /\ DaemonTypes' /\ EnvTypes'
  BY UnchangedTypes DEF Requeue, TypeOK
<1> QED
  BY <1>2, <1>3, <1>4 DEF TypeOK

LEMMA CloseContactType == TypeOK /\ CloseContact => TypeOK'
<1> SUFFICES ASSUME TypeOK, CloseContact PROVE TypeOK'
  OBVIOUS
<1>1. /\ Now.l \in Links
      /\ Tail(calls) \in Seq(Call)
  BY SteppedCall, CallShape DEF CloseContact
<1>2. ConnTypes'
  BY <1>1 DEF CloseContact, TypeOK, ConnTypes
<1>3. DaemonTypes'
  BY <1>1 DEF CloseContact, Return, TypeOK, DaemonTypes
<1>4. BundleTypes' /\ RouteTypes' /\ LinkTypes' /\ EnvTypes'
  BY UnchangedTypes DEF CloseContact, TypeOK
<1> QED
  BY <1>2, <1>3, <1>4 DEF TypeOK

LEMMA FreeType ==
    ASSUME TypeOK, NEW b \in Bundles, Free(b)
    PROVE  TypeOK'
<1>1. BundleTypes'
  BY DEF Free, StoreDel, TypeOK, BundleTypes, TimerStates
<1>2. RouteTypes'
  <2>1. [fwd EXCEPT ![b] = [l \in Links |-> "none"]] \in [Bundles -> [Links -> FwdStates]]
    BY DEF TypeOK, RouteTypes, FwdStates
  <2> QED
    BY <2>1 DEF Free, TypeOK, RouteTypes
<1>3. LinkTypes' /\ ConnTypes' /\ DaemonTypes' /\ EnvTypes'
  BY UnchangedTypes DEF Free, TypeOK
<1> QED
  BY <1>1, <1>2, <1>3 DEF TypeOK

LEMMA ExpirationTimerType ==
    ASSUME TypeOK, NEW b \in Bundles, ExpirationTimer(b)
    PROVE  TypeOK'
<1>1. BundleTypes'
  BY DEF ExpirationTimer, TypeOK, BundleTypes, TimerStates
<1>2. DaemonTypes'
  BY EventTypes, Prepend DEF ExpirationTimer, TypeOK, DaemonTypes
<1>3. RouteTypes' /\ LinkTypes' /\ ConnTypes' /\ EnvTypes'
  BY UnchangedTypes DEF ExpirationTimer, TypeOK
<1> QED
  BY <1>1, <1>2, <1>3 DEF TypeOK

LEMMA CustodyTimerType ==
    ASSUME TypeOK, NEW b \in Bundles, NEW l \in Links, CustodyTimer(b, l)
    PROVE  TypeOK'
<1>1. BundleTypes'
  <2>1. [ctimer EXCEPT ![b][l] = "fired"] \in [Bundles -> [Links -> TimerStates]]
    BY SetEntry DEF TypeOK, BundleTypes, TimerStates
  <2> QED
    BY <2>1 DEF CustodyTimer, TypeOK, BundleTypes
<1>2. DaemonTypes'
  <2>1. BundleEvent("custodytimeout", b, l) \in Event
    BY EventTypes
  <2> QED
    BY <2>1, PostType DEF CustodyTimer
<1>3. RouteTypes' /\ LinkTypes' /\ ConnTypes' /\ EnvTypes'
  BY UnchangedTypes DEF CustodyTimer, TypeOK
<1> QED
  BY <1>1, <1>2, <1>3 DEF TypeOK

LEMMA CancelledTimerType ==
    ASSUME TypeOK, NEW b \in Bundles, NEW l \in Links, CancelledTimer(b, l)
    PROVE  TypeOK'
<1>1. BundleTypes'
  <2>1. [ctimer EXCEPT ![b][l] = "none"] \in [Bundles -> [Links -> TimerStates]]
    BY SetEntry DEF TypeOK, BundleTypes, TimerStates
  <2> QED
    BY <2>1 DEF CancelledTimer, TypeOK, BundleTypes
<1>2. RouteTypes' /\ LinkTypes' /\ ConnTypes' /\ DaemonTypes' /\ EnvTypes'
  BY UnchangedTypes DEF CancelledTimer, TypeOK
<1> QED
  BY <1>1, <1>2 DEF TypeOK

LEMMA RerouteTimerType ==
    ASSUME TypeOK, NEW l \in Links, RerouteTimer(l)
    PROVE  TypeOK'
<1>1. LinkTypes'
  <2>1. <<>> \in Seq(Bundles)
    OBVIOUS
  <2>2. queue' \in [Links -> Seq(Bundles)]
    BY <2>1 DEF RerouteTimer, TypeOK, LinkTypes
  <2>3. reroute' \in [Links -> {"none", "armed", "fired"}]
    BY DEF RerouteTimer, TypeOK, LinkTypes
  <2> QED
    BY <2>2, <2>3 DEF RerouteTimer, TypeOK, LinkTypes
<1>2. DaemonTypes'
  <2>1. \A i \in 1..Len(queue[l]) : queue[l][i] \in Bundles
    BY DEF TypeOK, LinkTypes
  <2>2. \A i \in 1..Len(queue[l]) : BundleEvent("sendcancelled", queue[l][i], l) \in Event
    BY <2>1, EventTypes
  <2>3. Len(queue[l]) \in Nat
    BY DEF TypeOK, LinkTypes
  <2>4. [i \in 1..Len(queue[l]) |-> BundleEvent("sendcancelled", queue[l][i], l)] \in Seq(Event)
    BY <2>2, <2>3
  <2> QED
    BY <2>4, Concat DEF RerouteTimer, TypeOK, DaemonTypes
<1>3. BundleTypes' /\ RouteTypes' /\ ConnTypes' /\ EnvTypes'
  BY UnchangedTypes DEF RerouteTimer, TypeOK
<1> QED
  BY <1>1, <1>2, <1>3 DEF TypeOK

LEMMA ConnectionUpType ==
    ASSUME TypeOK, NEW l \in Links, ConnectionUp(l)
    PROVE  TypeOK'
<1>1. ConnTypes'
  BY DEF ConnectionUp, TypeOK, ConnTypes
<1>2. DaemonTypes'
  <2>1. contact[l] \in 0..MaxContacts
    BY ParamsAssumption DEF TypeOK, LinkTypes
  <2>2. ContactEvent("contactup", l, contact[l], "") \in Event
    BY <2>1, EventTypes
  <2> QED
    BY <2>2, PostType DEF ConnectionUp
<1>3. BundleTypes' /\ RouteTypes' /\ LinkTypes' /\ EnvTypes'
  BY UnchangedTypes DEF ConnectionUp, TypeOK
<1> QED
  BY <1>1, <1>2, <1>3 DEF TypeOK

LEMMA AcceptConnectionType ==
    ASSUME TypeOK, NEW l \in Links, AcceptConnection(l)
    PROVE  TypeOK'
<1>1. LinkTypes'
  <2>1. NextContact(l) \in 1..MaxContacts
    BY NextContactIsNew DEF AcceptConnection
  <2> QED
    BY <2>1 DEF AcceptConnection, TypeOK, LinkTypes
<1>2. ConnTypes'
  BY DEF AcceptConnection, TypeOK, ConnTypes
<1>3. DaemonTypes'
  <2>1. NextContact(l) \in 1..MaxContacts
    BY NextContactIsNew DEF AcceptConnection
  <2>2. NextContact(l) \in 0..MaxContacts
    BY <2>1, ParamsAssumption
  <2>3. ContactEvent("contactup", l, NextContact(l), "") \in Event
    BY <2>2, EventTypes
  <2> QED
    BY <2>3, PostType DEF AcceptConnection
<1>4. BundleTypes' /\ RouteTypes' /\ EnvTypes'
  BY UnchangedTypes DEF AcceptConnection, TypeOK
<1> QED
  BY <1>1, <1>2, <1>3, <1>4 DEF TypeOK

LEMMA StartNextBundleType ==
    ASSUME TypeOK, NEW l \in Links, StartNextBundle(l)
    PROVE  TypeOK'
<1>1. LinkTypes'
  <2>1. Head(queue[l]) \in Bundles /\ Tail(queue[l]) \in Seq(Bundles)
    BY DEF StartNextBundle, TypeOK, LinkTypes
  <2> QED
    BY <2>1 DEF StartNextBundle, MoveToInflight, TypeOK, LinkTypes
<1>2. ConnTypes'
  <2>1. Head(queue[l]) \in Bundles
    BY DEF StartNextBundle, TypeOK, LinkTypes
  <2>2. Append(sending[l], Head(queue[l])) \in Seq(Bundles)
    BY <2>1 DEF TypeOK, ConnTypes
  <2> QED
    BY <2>1, <2>2 DEF StartNextBundle, TypeOK, ConnTypes
<1>3. BundleTypes' /\ RouteTypes' /\ DaemonTypes' /\ EnvTypes'
  BY UnchangedTypes DEF StartNextBundle, TypeOK
<1> QED
  BY <1>1, <1>2, <1>3 DEF TypeOK

LEMMA SendSegmentType ==
    ASSUME TypeOK, NEW l \in Links, SendSegment(l)
    PROVE  TypeOK'
<1>1. ConnTypes'
  BY DEF SendSegment, TypeOK, ConnTypes
<1>2. EnvTypes'
  BY DEF SendSegment, ConnTypes, TypeOK, EnvTypes
<1>3. BundleTypes' /\ RouteTypes' /\ LinkTypes' /\ DaemonTypes'
  BY UnchangedTypes DEF SendSegment, TypeOK
<1> QED
  BY <1>1, <1>2, <1>3 DEF TypeOK

LEMMA AckBundleType ==
    ASSUME TypeOK, NEW l \in Links, AckBundle(l)
    PROVE  TypeOK'
<1>1. ConnTypes'
  BY DEF AckBundle, TypeOK, ConnTypes
<1>2. DaemonTypes'
  <2>1. Head(sending[l]) \in Bundles
    BY DEF AckBundle, TypeOK, ConnTypes
  <2>2. BundleEvent("transmitted", Head(sending[l]), l) \in Event
    BY <2>1, EventTypes
  <2> QED
    BY <2>2, PostType DEF AckBundle
<1>3. BundleTypes' /\ RouteTypes' /\ LinkTypes' /\ EnvTypes'
  BY UnchangedTypes DEF AckBundle, TypeOK
<1> QED
  BY <1>1, <1>2, <1>3 DEF TypeOK

LEMMA CancelCommandType ==
    ASSUME TypeOK, NEW l \in Links, CancelCommand(l)
    PROVE  TypeOK'
<1>1. ConnTypes'
  <2>1. Tail(cmds[l]) \in Seq(Bundles) /\ RemoveFirst(sending[l], current[l]) \in Seq(Bundles)
    BY RemoveFirstSeq DEF CancelCommand, TypeOK, ConnTypes
  <2> QED
    BY <2>1 DEF CancelCommand, TypeOK, ConnTypes
<1>2. DaemonTypes'
  <2>1. Head(cmds[l]) \in Bundles
    BY DEF CancelCommand, TypeOK, ConnTypes
  <2>2. Head(cmds[l]) = current[l] => BundleEvent("sendcancelled", current[l], l) \in Event
    BY <2>1, EventTypes
  <2> QED
    BY <2>2, PostType, UnchangedTypes DEF CancelCommand, TypeOK, daemonVars
<1>3. BundleTypes' /\ RouteTypes' /\ LinkTypes' /\ EnvTypes'
  BY UnchangedTypes DEF CancelCommand, TypeOK
<1> QED
  BY <1>1, <1>2, <1>3 DEF TypeOK

LEMMA BreakContactType ==
    ASSUME TypeOK, NEW l \in Links, NEW why \in {"broken", "idle"}, BreakContact(l, why)
    PROVE  TypeOK'
<1>1. ConnTypes'
  BY DEF BreakContact, TypeOK, ConnTypes
<1>2. DaemonTypes'
  <2>1. contact[l] \in 0..MaxContacts
    BY ParamsAssumption DEF TypeOK, LinkTypes
  <2>2. ContactEvent("closed", l, contact[l], why) \in Event
    BY <2>1, EventTypes
  <2> QED
    BY <2>2, PostType DEF BreakContact
<1>3. BundleTypes' /\ RouteTypes' /\ LinkTypes' /\ EnvTypes'
  BY UnchangedTypes DEF BreakContact, TypeOK
<1> QED
  BY <1>1, <1>2, <1>3 DEF TypeOK

LEMMA BreakCommandType ==
    ASSUME TypeOK, NEW l \in Links, BreakCommand(l)
    PROVE  TypeOK'
<1>1. ConnTypes'
  BY DEF BreakCommand, TypeOK, ConnTypes
<1>2. BundleTypes' /\ RouteTypes' /\ LinkTypes' /\ DaemonTypes' /\ EnvTypes'
  BY UnchangedTypes DEF BreakCommand, TypeOK
<1> QED
  BY <1>1, <1>2 DEF TypeOK

LEMMA ArriveType ==
    ASSUME TypeOK, NEW b \in Bundles, NEW l \in Links \cup {NoLink}, Arrive(b, l)
    PROVE  TypeOK'
<1>1. BundleTypes'
  BY DEF Arrive, TypeOK, BundleTypes, TimerStates
<1>2. DaemonTypes'
  <2>1. BundleEvent("received", b, l) \in Event
    BY EventTypes
  <2> QED
    BY <2>1, PostType DEF Arrive
<1>3. EnvTypes'
  BY DEF Arrive, TypeOK, EnvTypes
<1>4. RouteTypes' /\ LinkTypes' /\ ConnTypes'
  BY UnchangedTypes DEF Arrive, TypeOK
<1> QED
  BY <1>1, <1>2, <1>3, <1>4 DEF TypeOK

LEMMA CancelRequestType ==
    ASSUME TypeOK, NEW b \in Bundles, CancelRequest(b)
    PROVE  TypeOK'
<1>1. DaemonTypes'
  <2>1. BundleEvent("deleterequest", b, NoLink) \in Event
    BY EventTypes
  <2> QED
    BY <2>1, PostType DEF CancelRequest
<1>2. BundleTypes' /\ RouteTypes' /\ LinkTypes' /\ ConnTypes' /\ EnvTypes'
  BY UnchangedTypes DEF CancelRequest, TypeOK
<1> QED
  BY <1>1, <1>2 DEF TypeOK

LEMMA CancelSendType ==
    ASSUME TypeOK, NEW b \in Bundles, NEW l \in Links, CancelSend(b, l)
    PROVE  TypeOK'
<1>1. DaemonTypes'
  BY EventTypes, Prepend DEF CancelSend, TypeOK, DaemonTypes
<1>2. BundleTypes' /\ RouteTypes' /\ LinkTypes' /\ ConnTypes' /\ EnvTypes'
  BY UnchangedTypes DEF CancelSend, TypeOK
<1> QED
  BY <1>1, <1>2 DEF TypeOK

LEMMA CustodySignalType ==
    ASSUME TypeOK, NEW b \in Bundles, CustodySignal(b)
    PROVE  TypeOK'
<1>1. DaemonTypes'
  <2>1. BundleEvent("custodysignal", b, NoLink) \in Event
    BY EventTypes
  <2> QED
    BY <2>1, PostType DEF CustodySignal
<1>2. BundleTypes' /\ RouteTypes' /\ LinkTypes' /\ ConnTypes' /\ EnvTypes'
  BY UnchangedTypes DEF CustodySignal, TypeOK
<1> QED
  BY <1>1, <1>2 DEF TypeOK

LEMMA CloseRequestType ==
    ASSUME TypeOK, NEW l \in Links, CloseRequest(l)
    PROVE  TypeOK'
<1>1. DaemonTypes'
  <2>1. contact[l] \in 0..MaxContacts
    BY ParamsAssumption DEF TypeOK, LinkTypes
  <2>2. ContactEvent("closed", l, contact[l], "user") \in Event
    BY <2>1, EventTypes
  <2> QED
    BY <2>2, PostType DEF CloseRequest
<1>2. BundleTypes' /\ RouteTypes' /\ LinkTypes' /\ ConnTypes' /\ EnvTypes'
  BY UnchangedTypes DEF CloseRequest, TypeOK
<1> QED
  BY <1>1, <1>2 DEF TypeOK

LEMMA OpenRequestType ==
    ASSUME TypeOK, NEW l \in Links, OpenRequest(l)
    PROVE  TypeOK'
<1>1. DaemonTypes'
  <2>1. 0 \in 0..MaxContacts
    BY ParamsAssumption
  <2>2. ContactEvent("open", l, 0, "") \in Event
    BY <2>1, EventTypes
  <2> QED
    BY <2>2, PostType DEF OpenRequest
<1>2. BundleTypes' /\ RouteTypes' /\ LinkTypes' /\ ConnTypes' /\ EnvTypes'
  BY UnchangedTypes DEF OpenRequest, TypeOK
<1> QED
  BY <1>1, <1>2 DEF TypeOK

LEMMA NextType == TypeOK /\ [Next]_vars => TypeOK'
<1> SUFFICES ASSUME TypeOK, [Next]_vars PROVE TypeOK'
  OBVIOUS
<1>1. CASE HandleEvent
  <2>1. HandleExpired \/ HandleDeleteRequest => TypeOK'
    BY HandleDeletionType DEF HandleExpired, HandleDeleteRequest
  <2> QED
    BY <1>1, <2>1, DiscardDuplicateType, ReceiveExpiredType, ReceiveBundleType,
       HandleTransmittedType, HandleSendCancelledType, HandleCancelSendType,
       HandleCustodySignalType, HandleCustodyTimeoutType, HandleContactUpType,
       HandleContactDownType, HandleClosedType, HandleOpenType
    DEF HandleEvent
<1>2. CASE Continue
  BY <1>2, RouteBundleType, ForwardBundleType, CheckNextHopType, DrainDeferredType,
     CancelBundleType, TryToDeleteType, RequeueType, CloseContactType, LoadBundleType,
     LoadExpiredType, LoadDoneType
  DEF Continue
<1>3. ASSUME NEW b \in Bundles, Free(b) PROVE TypeOK'
  BY <1>3, FreeType
<1>4. CASE Timers
  BY <1>4, ExpirationTimerType, CustodyTimerType, CancelledTimerType, RerouteTimerType
  DEF Timers
<1>5. ASSUME NEW l \in Links, Connection(l) PROVE TypeOK'
  BY <1>5, ConnectionUpType, AcceptConnectionType, StartNextBundleType, SendSegmentType,
     AckBundleType, CancelCommandType, BreakContactType, BreakCommandType
  DEF Connection
<1>6. CASE Environment
  BY <1>6, ArriveType, CancelRequestType, CustodySignalType, CancelSendType,
     CloseRequestType, OpenRequestType, CrashType
  DEF Environment
<1>7. CASE UNCHANGED vars
  BY <1>7, UnchangedTypes DEF vars, TypeOK
<1> QED
  BY <1>1, <1>2, <1>3, <1>4, <1>5, <1>6, <1>7 DEF Next

-----------------------------------------------------------------------------

\* Every variable of the daemon keeps its type: the events and the calls always
\* name the bundle or the link that their handlers use, contacts stay within
\* their bound, and the lists of a link hold bundles only.
THEOREM TypeCorrect == Spec => []TypeOK
BY InitType, NextType, PTL DEF Spec

-----------------------------------------------------------------------------
(* What a step does to the event queue.                                    *)

\* The queue r is the queue q with events of some types behind it, or with
\* events in front, none of which closes a link.
Grown(q, r, types) ==
    \E s \in Seq(Event) : /\ \A i \in 1..Len(s) : s[i].type \in types
                          /\ \/ r = q \o s
                             \/ r = s \o q /\ \A i \in 1..Len(s) : s[i].type # "closed"

\* No two transmitted events of the queue q are the same.
TransmittedOnce(q) ==
    \A i, j \in 1..Len(q) : q[i].type = "transmitted" /\ q[i] = q[j] => i = j

\* In the queue q the contact c of the link l comes up before it is closed.
UpFirst(q, l, c) ==
    \E i \in 1..Len(q) :
        /\ q[i].type = "contactup" /\ q[i].l = l /\ q[i].c = c
        /\ \A j \in 1..i : ~(q[j].type = "closed" /\ q[j].l = l /\ q[j].c = c)

LEMMA UpFirstConcat ==
    ASSUME NEW q \in Seq(Event), NEW s \in Seq(Event), NEW l, NEW c, UpFirst(q, l, c)
    PROVE  /\ UpFirst(q \o s, l, c)
           /\ (\A i \in 1..Len(s) : s[i].type # "closed") => UpFirst(s \o q, l, c)
<1>1. PICK i \in 1..Len(q) :
         /\ q[i].type = "contactup" /\ q[i].l = l /\ q[i].c = c
         /\ \A j \in 1..i : ~(q[j].type = "closed" /\ q[j].l = l /\ q[j].c = c)
  BY DEF UpFirst
<1>2. /\ Len(q) \in Nat /\ Len(s) \in Nat
      /\ Len(q \o s) = Len(q) + Len(s) /\ Len(s \o q) = Len(q) + Len(s)
      /\ \A j \in 1..(Len(q) + Len(s)) :
            (q \o s)[j] = IF j <= Len(q) THEN q[j] ELSE s[j - Len(q)]
      /\ \A j \in 1..(Len(q) + Len(s)) :
            (s \o q)[j] = IF j <= Len(s) THEN s[j] ELSE q[j - Len(s)]
  OBVIOUS
<1>3. UpFirst(q \o s, l, c)
  <2>1. i \in 1..Len(q \o s) /\ \A j \in 1..i : (q \o s)[j] = q[j]
    BY <1>2
  <2> QED
    BY <1>1, <2>1 DEF UpFirst
<1>4. ASSUME \A j \in 1..Len(s) : s[j].type # "closed" PROVE UpFirst(s \o q, l, c)
  <2>1. i + Len(s) \in 1..Len(s \o q) /\ (s \o q)[i + Len(s)] = q[i]
    BY <1>2
  <2>2. ASSUME NEW j \in 1..(i + Len(s))
        PROVE  ~((s \o q)[j].type = "closed" /\ (s \o q)[j].l = l /\ (s \o q)[j].c = c)
    <3>1. CASE j <= Len(s)
      <4>1. j \in 1..Len(s) /\ (s \o q)[j] = s[j]
        BY <1>2, <3>1
      <4> QED
        BY <1>4, <4>1
    <3>2. CASE ~(j <= Len(s))
      <4>1. j - Len(s) \in 1..i /\ (s \o q)[j] = q[j - Len(s)]
        BY <1>2, <3>2
      <4> QED
        BY <1>1, <4>1
    <3> QED
      BY <3>1, <3>2
  <2> QED
    BY <1>1, <2>1, <2>2 DEF UpFirst
<1> QED
  BY <1>3, <1>4

LEMMA UpFirstTail ==
    ASSUME NEW q \in Seq(Event), q # <<>>, NEW l, NEW c, UpFirst(q, l, c)
    PROVE  /\ ~(Head(q).type = "closed" /\ Head(q).l = l /\ Head(q).c = c)
           /\ \/ Head(q).type = "contactup" /\ Head(q).l = l /\ Head(q).c = c
              \/ UpFirst(Tail(q), l, c)
<1>1. PICK i \in 1..Len(q) :
         /\ q[i].type = "contactup" /\ q[i].l = l /\ q[i].c = c
         /\ \A j \in 1..i : ~(q[j].type = "closed" /\ q[j].l = l /\ q[j].c = c)
  BY DEF UpFirst
<1>2. /\ Len(Tail(q)) = Len(q) - 1 /\ Len(q) \in Nat /\ Len(q) >= 1
      /\ \A j \in 1..Len(Tail(q)) : Tail(q)[j] = q[j + 1]
      /\ Head(q) = q[1]
  OBVIOUS
<1>3. ~(Head(q).type = "closed" /\ Head(q).l = l /\ Head(q).c = c)
  BY <1>1, <1>2
<1>4. CASE i = 1
  BY <1>1, <1>2, <1>3, <1>4
<1>5. CASE i # 1
  <2>1. i - 1 \in 1..Len(Tail(q)) /\ Tail(q)[i - 1] = q[i]
    BY <1>2, <1>5
  <2>2. ASSUME NEW j \in 1..(i - 1)
        PROVE  ~(Tail(q)[j].type = "closed" /\ Tail(q)[j].l = l /\ Tail(q)[j].c = c)
    <3>1. Tail(q)[j] = q[j + 1] /\ j + 1 \in 1..i
      BY <1>2
    <3> QED
      BY <1>1, <3>1
  <2>3. UpFirst(Tail(q), l, c)
    BY <1>1, <2>1, <2>2 DEF UpFirst
  <2> QED
    BY <1>3, <2>3
<1> QED
  BY <1>4, <1>5

LEMMA UpFirstNew ==
    ASSUME NEW q \in Seq(Event), NEW e \in Event, e.type = "contactup",
           \A x \in ToSet(q) : x.l = e.l => x.c # e.c
    PROVE  UpFirst(Append(q, e), e.l, e.c)
<1>1. /\ Len(q) \in Nat /\ Len(Append(q, e)) = Len(q) + 1
      /\ \A i \in 1..Len(q) : Append(q, e)[i] = q[i] /\ q[i] \in ToSet(q)
      /\ Append(q, e)[Len(q) + 1] = e
  BY ElementsOf
<1>2. ASSUME NEW j \in 1..(Len(q) + 1)
      PROVE  ~(/\ Append(q, e)[j].type = "closed" /\ Append(q, e)[j].l = e.l
               /\ Append(q, e)[j].c = e.c)
  <2>1. CASE j = Len(q) + 1
    BY <1>1, <2>1
  <2>2. CASE j \in 1..Len(q)
    BY <1>1, <2>2
  <2> QED
    BY <1>1, <2>1, <2>2
<1> QED
  BY <1>1, <1>2 DEF UpFirst

LEMMA GrownQueue ==
    ASSUME NEW q \in Seq(Event), NEW r, NEW types, Grown(q, r, types)
    PROVE  /\ r \in Seq(Event)
           /\ ToSet(q) \subseteq ToSet(r)
           /\ \A e \in ToSet(r) : e \in ToSet(q) \/ e.type \in types
           /\ "transmitted" \notin types /\ TransmittedOnce(q) => TransmittedOnce(r)
           /\ \A l, c : UpFirst(q, l, c) => UpFirst(r, l, c)
<1>1. PICK s \in Seq(Event) :
         /\ \A i \in 1..Len(s) : s[i].type \in types
         /\ \/ r = q \o s
            \/ r = s \o q /\ \A i \in 1..Len(s) : s[i].type # "closed"
  BY DEF Grown
<1>2. \A e \in ToSet(s) : e.type \in types
  BY <1>1, ElementsOf
<1>3. r \in Seq(Event) /\ ToSet(r) = ToSet(q) \cup ToSet(s)
  <2>1. q \o s \in Seq(Event) /\ ToSet(q \o s) = ToSet(q) \cup ToSet(s)
    BY ElementsOfConcat
  <2>2. s \o q \in Seq(Event) /\ ToSet(s \o q) = ToSet(q) \cup ToSet(s)
    BY ElementsOfConcat
  <2> QED
    BY <1>1, <2>1, <2>2
<1>4. ASSUME "transmitted" \notin types, TransmittedOnce(q) PROVE TransmittedOnce(r)
  <2>1. /\ Len(q) \in Nat /\ Len(s) \in Nat
        /\ Len(q \o s) = Len(q) + Len(s) /\ Len(s \o q) = Len(q) + Len(s)
        /\ \A i \in 1..(Len(q) + Len(s)) :
              (q \o s)[i] = IF i <= Len(q) THEN q[i] ELSE s[i - Len(q)]
        /\ \A i \in 1..(Len(q) + Len(s)) :
              (s \o q)[i] = IF i <= Len(s) THEN s[i] ELSE q[i - Len(s)]
    OBVIOUS
  <2>2. CASE r = q \o s
    <3>1. ASSUME NEW i \in 1..Len(r), r[i].type = "transmitted"
          PROVE  i \in 1..Len(q) /\ r[i] = q[i]
      <4>1. i <= Len(q)
        BY <1>1, <1>4, <2>1, <2>2, <3>1
      <4> QED
        BY <2>1, <2>2, <4>1
    <3> QED
      BY <1>4, <3>1 DEF TransmittedOnce
  <2>3. CASE r = s \o q
    <3>1. ASSUME NEW i \in 1..Len(r), r[i].type = "transmitted"
          PROVE  i - Len(s) \in 1..Len(q) /\ r[i] = q[i - Len(s)]
      <4>1. ~(i <= Len(s))
        BY <1>1, <1>4, <2>1, <2>3, <3>1
      <4> QED
        BY <2>1, <2>3, <4>1
    <3>2. ASSUME NEW i \in 1..Len(r), NEW j \in 1..Len(r), r[i].type = "transmitted",
                 r[i] = r[j]
          PROVE  i = j
      <4>1. i - Len(s) = j - Len(s)
        BY <1>4, <3>1, <3>2 DEF TransmittedOnce
      <4> QED
        BY <2>1, <4>1
    <3> QED
      BY <3>2 DEF TransmittedOnce
  <2> QED
    BY <1>1, <2>2, <2>3
<1>5. ASSUME NEW l, NEW c, UpFirst(q, l, c) PROVE UpFirst(r, l, c)
  BY <1>1, <1>5, UpFirstConcat
<1> QED
  BY <1>1, <1>2, <1>3, <1>4, <1>5

LEMMA OnceTail ==
    ASSUME NEW q \in Seq(Event), q # <<>>, TransmittedOnce(q)
    PROVE  /\ TransmittedOnce(Tail(q))
           /\ Head(q).type = "transmitted" => Head(q) \notin ToSet(Tail(q))
<1>1. /\ Len(Tail(q)) = Len(q) - 1 /\ Len(q) \in Nat /\ Len(q) >= 1
      /\ \A i \in 1..Len(Tail(q)) : Tail(q)[i] = q[i + 1]
      /\ Head(q) = q[1] /\ Tail(q) \in Seq(Event)
  OBVIOUS
<1>2. TransmittedOnce(Tail(q))
  <2>1. ASSUME NEW i \in 1..Len(Tail(q)), NEW j \in 1..Len(Tail(q)),
               Tail(q)[i].type = "transmitted", Tail(q)[i] = Tail(q)[j]
        PROVE  i = j
    <3>1. i + 1 \in 1..Len(q) /\ j + 1 \in 1..Len(q) /\ q[i + 1] = q[j + 1]
          /\ q[i + 1].type = "transmitted"
      BY <1>1, <2>1
    <3>2. i + 1 = j + 1
      BY <3>1 DEF TransmittedOnce
    <3> QED
      BY <3>2
  <2> QED
    BY <2>1 DEF TransmittedOnce
<1>3. ASSUME Head(q).type = "transmitted", Head(q) \in ToSet(Tail(q)) PROVE FALSE
  <2>1. PICK i \in 1..Len(Tail(q)) : Tail(q)[i] = Head(q)
    BY <1>1, <1>3, ElementsOf
  <2>2. i + 1 \in 1..Len(q) /\ 1 \in 1..Len(q) /\ q[i + 1] = q[1] /\ i + 1 # 1
    BY <1>1, <2>1
  <2> QED
    BY <1>1, <1>3, <2>2 DEF TransmittedOnce
<1> QED
  BY <1>2, <1>3

LEMMA GrownByOne ==
    ASSUME NEW q \in Seq(Event), NEW r \in Seq(Event), NEW e, NEW types, e.type \in types,
           r = Append(q, e) \/ (r = <<e>> \o q /\ e.type # "closed")
    PROVE  Grown(q, r, types)
<1>1. e \in Event
  <2>1. CASE r = Append(q, e)
    <3>1. r[Len(q) + 1] = e /\ Len(q) + 1 \in 1..Len(r)
      BY <2>1
    <3> QED
      BY <3>1
  <2>2. CASE r = <<e>> \o q
    <3>1. r[1] = e /\ 1 \in 1..Len(r)
      BY <2>2
    <3> QED
      BY <3>1
  <2> QED
    BY <2>1, <2>2
<1>2. /\ <<e>> \in Seq(Event) /\ \A i \in 1..Len(<<e>>) : <<e>>[i].type \in types
      /\ e.type # "closed" => \A i \in 1..Len(<<e>>) : <<e>>[i].type # "closed"
  BY <1>1
<1>3. Append(q, e) = q \o <<e>>
  BY <1>1
<1> QED
  BY <1>2, <1>3 DEF Grown

LEMMA GrownByNone ==
    ASSUME NEW q \in Seq(Event), NEW types PROVE Grown(q, q, types)
<1>1. <<>> \in Seq(Event) /\ q = q \o <<>> /\ \A i \in 1..Len(<<>>) : <<>>[i].type \in types
  OBVIOUS
<1> QED
  BY <1>1 DEF Grown

LEMMA GrownMore ==
    ASSUME NEW q, NEW r, NEW types, NEW more, Grown(q, r, types), types \subseteq more
    PROVE  Grown(q, r, more)
BY DEF Grown

\* A handler takes its event off the queue, and may put one in its place.
LEMMA HandlerEvents ==
    ASSUME TypeOK, TypeOK', HandleEvent
    PROVE  /\ eventq # <<>> /\ Ev = Head(eventq) /\ calls = <<>>
           /\ Tail(eventq) \in Seq(Event)
           /\ Grown(Tail(eventq), eventq', {"expired", "deleterequest", "contactdown"})
<1> DEFINE T == {"expired", "deleterequest", "contactdown"}
<1>1. eventq # <<>> /\ Ev = Head(eventq) /\ calls = <<>>
  BY DEF HandleEvent, DiscardDuplicate, ReceiveExpired, ReceiveBundle, HandleTransmitted,
         HandleSendCancelled, HandleExpired, HandleDeleteRequest, HandleDeletion,
         HandleCancelSend, HandleCustodySignal, HandleCustodyTimeout, HandleContactUp,
         HandleContactDown, HandleClosed, HandleOpen, Handle, Idle, Ev
<1>2. eventq \in Seq(Event) /\ eventq' \in Seq(Event) /\ Tail(eventq) \in Seq(Event)
  BY <1>1 DEF TypeOK, DaemonTypes
<1>3. \/ Done
      \/ DoneAfter(BundleEvent("expired", Ev.b, NoLink))
      \/ DoneAfter(BundleEvent("deleterequest", Ev.b, NoLink))
      \/ DoneAfter(ContactEvent("contactdown", Ev.l, Ev.c, Ev.why))
  BY DEF HandleEvent, DiscardDuplicate, ReceiveExpired, ReceiveBundle, HandleTransmitted,
         HandleSendCancelled, HandleExpired, HandleDeleteRequest, HandleDeletion,
         HandleCancelSend, HandleCustodySignal, HandleCustodyTimeout, HandleContactUp,
         HandleContactDown, HandleClosed, HandleOpen
<1>4. /\ BundleEvent("expired", Ev.b, NoLink).type \in T
      /\ BundleEvent("deleterequest", Ev.b, NoLink).type \in T
      /\ ContactEvent("contactdown", Ev.l, Ev.c, Ev.why).type \in T
  BY DEF BundleEvent, ContactEvent
<1>5. ASSUME NEW e, DoneAfter(e), e.type \in T PROVE Grown(Tail(eventq), eventq', T)
  <2>1. e.type # "closed"
    BY <1>5
  <2> HIDE DEF T
  <2> QED
    BY <1>2, <1>5, <2>1, GrownByOne DEF DoneAfter
<1>6. ASSUME Done PROVE Grown(Tail(eventq), eventq', T)
  BY <1>2, <1>6, GrownByNone DEF Done
<1> QED
  BY <1>1, <1>2, <1>3, <1>4, <1>5, <1>6

\* The rest of a handler posts what a cancelled send or a load has to say.
LEMMA ContinueEvents ==
    ASSUME TypeOK, TypeOK', Continue
    PROVE  Grown(eventq, eventq', {"sendcancelled", "expired", "deleterequest"})
<1> DEFINE T == {"sendcancelled", "expired", "deleterequest"}
<1>1. eventq \in Seq(Event) /\ eventq' \in Seq(Event)
  BY DEF TypeOK, DaemonTypes
<1>2. ASSUME NEW e, e.type \in T, Post(e) PROVE Grown(eventq, eventq', T)
  BY <1>1, <1>2, GrownByOne DEF Post
<1> HIDE DEF T
<1>3. ASSUME UNCHANGED eventq PROVE Grown(eventq, eventq', T)
  BY <1>1, <1>3, GrownByNone
<1>4. ASSUME CancelBundle PROVE Grown(eventq, eventq', T)
  <2>1. UNCHANGED eventq \/ Post(BundleEvent("sendcancelled", Now.b, Now.l))
    BY <1>4 DEF CancelBundle
  <2>2. BundleEvent("sendcancelled", Now.b, Now.l).type \in T
    BY DEF BundleEvent, T
  <2>3. Post(BundleEvent("sendcancelled", Now.b, Now.l)) => Grown(eventq, eventq', T)
    BY <1>2, <2>2
  <2> QED
    BY <1>3, <2>1, <2>3
<1>5. ASSUME LoadBundle \/ LoadExpired PROVE Grown(eventq, eventq', T)
  <2>1. PICK b \in Bundles :
           \/ UNCHANGED eventq
           \/ eventq' = <<BundleEvent("deleterequest", b, NoLink)>> \o eventq
           \/ eventq' = <<BundleEvent("expired", b, NoLink)>> \o eventq
    BY <1>5 DEF LoadBundle, LoadExpired
  <2>2. /\ BundleEvent("deleterequest", b, NoLink).type \in T
        /\ BundleEvent("expired", b, NoLink).type \in T
    BY DEF BundleEvent, T
  <2>3. ASSUME NEW e, e.type \in T, eventq' = <<e>> \o eventq PROVE Grown(eventq, eventq', T)
    <3>1. e.type # "closed"
      BY <2>3 DEF T
    <3> QED
      BY <1>1, <2>3, <3>1, GrownByOne
  <2> QED
    BY <1>3, <2>1, <2>2, <2>3
<1>6. Grown(eventq, eventq', T)
  <2>1. CancelBundle \/ LoadBundle \/ LoadExpired \/ UNCHANGED eventq
    BY DEF Continue, RouteBundle, ForwardBundle, CheckNextHop, DrainDeferred, TryToDelete,
           Requeue, CloseContact, LoadDone, daemonVars
  <2> QED
    BY <1>3, <1>4, <1>5, <2>1
<1> QED
  BY <1>6 DEF T

LEMMA TimerEvents ==
    ASSUME TypeOK, TypeOK', Timers
    PROVE  /\ Grown(eventq, eventq', {"expired", "custodytimeout", "sendcancelled"})
           /\ \/ Grown(eventq, eventq', {"expired", "sendcancelled"})
              \/ \E b \in Bundles, l \in Links : CustodyTimer(b, l)
<1> DEFINE T == {"expired", "custodytimeout", "sendcancelled"}
           S == {"expired", "sendcancelled"}
<1>1. eventq \in Seq(Event) /\ eventq' \in Seq(Event)
  BY DEF TypeOK, DaemonTypes
<1>2. ASSUME NEW b \in Bundles, ExpirationTimer(b) PROVE Grown(eventq, eventq', S)
  <2>1. BundleEvent("expired", b, NoLink).type \in S \ {"closed"}
    BY DEF BundleEvent, S
  <2> QED
    BY <1>1, <1>2, <2>1, GrownByOne DEF ExpirationTimer
<1>3. ASSUME NEW b \in Bundles, NEW l \in Links, CustodyTimer(b, l)
      PROVE  Grown(eventq, eventq', T)
  <2>1. BundleEvent("custodytimeout", b, l).type \in T
    BY DEF BundleEvent, T
  <2> QED
    BY <1>1, <1>3, <2>1, GrownByOne DEF CustodyTimer, Post
<1>4. ASSUME NEW b \in Bundles, NEW l \in Links, CancelledTimer(b, l)
      PROVE  Grown(eventq, eventq', S)
  BY <1>1, <1>4, GrownByNone DEF CancelledTimer, daemonVars
<1>5. ASSUME NEW l \in Links, RerouteTimer(l) PROVE Grown(eventq, eventq', S)
  <2> DEFINE s == [i \in 1..Len(queue[l]) |-> BundleEvent("sendcancelled", queue[l][i], l)]
  <2>1. /\ queue[l] \in Seq(Bundles) /\ Len(queue[l]) \in Nat
        /\ \A i \in 1..Len(queue[l]) : queue[l][i] \in Bundles
    BY DEF TypeOK, LinkTypes
  <2>2. \A i \in 1..Len(queue[l]) : BundleEvent("sendcancelled", queue[l][i], l) \in Event
    BY <2>1, EventTypes
  <2>3. s \in Seq(Event) /\ Len(s) = Len(queue[l])
    BY <2>1, <2>2
  <2>4. \A i \in 1..Len(s) : s[i].type \in S
    BY <2>3 DEF BundleEvent
  <2>5. UNCHANGED eventq \/ eventq' = eventq \o s
    BY <1>5 DEF RerouteTimer
  <2> HIDE DEF s
  <2>6. CASE eventq' = eventq \o s
    BY <2>3, <2>4, <2>6 DEF Grown
  <2> QED
    BY <1>1, <2>5, <2>6, GrownByNone
<1>6. S \subseteq T
  OBVIOUS
<1> HIDE DEF S, T
<1>7. Grown(eventq, eventq', S) => Grown(eventq, eventq', T)
  BY <1>6, GrownMore
<1> QED
  BY <1>2, <1>3, <1>4, <1>5, <1>7 DEF Timers, S, T

\* A connection thread posts at the end of the queue.
LEMMA ConnectionEvents ==
    ASSUME TypeOK, TypeOK', NEW l \in Links, Connection(l)
    PROVE  /\ Grown(eventq, eventq', {"transmitted", "sendcancelled", "contactup", "closed"})
           /\ ~AckBundle(l) =>
                 Grown(eventq, eventq', {"sendcancelled", "contactup", "closed"})
<1> DEFINE T == {"sendcancelled", "contactup", "closed"}
<1>1. eventq \in Seq(Event) /\ eventq' \in Seq(Event)
  BY DEF TypeOK, DaemonTypes
<1>2. CASE AckBundle(l)
  <2>1. BundleEvent("transmitted", Head(sending[l]), l).type \in T \cup {"transmitted"}
    BY DEF BundleEvent, T
  <2>2. Grown(eventq, eventq', T \cup {"transmitted"})
    BY <1>1, <1>2, <2>1, GrownByOne DEF AckBundle, Post
  <2> QED
    BY <1>2, <2>2, GrownMore
<1>3. CASE ~AckBundle(l)
  <2>1. \/ UNCHANGED eventq
        \/ \E c, w : \/ Post(ContactEvent("contactup", l, c, w))
                    \/ Post(ContactEvent("closed", l, c, w))
        \/ \E b : Post(BundleEvent("sendcancelled", b, l))
    BY <1>3 DEF Connection, ConnectionUp, AcceptConnection, StartNextBundle, SendSegment,
                CancelCommand, BreakContact, BreakCommand, daemonVars
  <2>2. /\ \A c, w : /\ ContactEvent("contactup", l, c, w).type \in T
                     /\ ContactEvent("closed", l, c, w).type \in T
        /\ \A b : BundleEvent("sendcancelled", b, l).type \in T
    BY DEF ContactEvent, BundleEvent
  <2>3. ASSUME NEW e, e.type \in T, Post(e) PROVE Grown(eventq, eventq', T)
    BY <1>1, <2>3, GrownByOne DEF Post
  <2>4. Grown(eventq, eventq', T)
    BY <1>1, <2>1, <2>2, <2>3, GrownByNone
  <2> QED
    BY <2>4, GrownMore
<1> QED
  BY <1>2, <1>3

LEMMA EnvironmentEvents ==
    ASSUME TypeOK, TypeOK', Environment, ~Crash
    PROVE  Grown(eventq, eventq', {"received", "deleterequest", "custodysignal", "cancelsend",
                                   "closed", "open"})
<1> DEFINE T == {"received", "deleterequest", "custodysignal", "cancelsend", "closed", "open"}
<1>1. eventq \in Seq(Event) /\ eventq' \in Seq(Event)
  BY DEF TypeOK, DaemonTypes
<1>2. ASSUME NEW e, e.type \in T, Post(e) PROVE Grown(eventq, eventq', T)
  BY <1>1, <1>2, GrownByOne DEF Post
<1> HIDE DEF T
<1>3. ASSUME NEW b, NEW l, Arrive(b, l) PROVE Grown(eventq, eventq', T)
  <2>1. BundleEvent("received", b, l).type \in T
    BY DEF BundleEvent, T
  <2> QED
    BY <1>2, <1>3, <2>1 DEF Arrive
<1>4. ASSUME NEW b, CancelRequest(b) PROVE Grown(eventq, eventq', T)
  <2>1. BundleEvent("deleterequest", b, NoLink).type \in T
    BY DEF BundleEvent, T
  <2> QED
    BY <1>2, <1>4, <2>1 DEF CancelRequest
<1>5. ASSUME NEW b, CustodySignal(b) PROVE Grown(eventq, eventq', T)
  <2>1. BundleEvent("custodysignal", b, NoLink).type \in T
    BY DEF BundleEvent, T
  <2> QED
    BY <1>2, <1>5, <2>1 DEF CustodySignal
<1>6. ASSUME NEW b, NEW l, CancelSend(b, l) PROVE Grown(eventq, eventq', T)
  <2>1. BundleEvent("cancelsend", b, l).type \in T \ {"closed"}
    BY DEF BundleEvent, T
  <2> QED
    BY <1>1, <1>6, <2>1, GrownByOne DEF CancelSend
<1>7. ASSUME NEW l, CloseRequest(l) PROVE Grown(eventq, eventq', T)
  <2>1. ContactEvent("closed", l, contact[l], "user").type \in T
    BY DEF ContactEvent, T
  <2> QED
    BY <1>2, <1>7, <2>1 DEF CloseRequest
<1>8. ASSUME NEW l, OpenRequest(l) PROVE Grown(eventq, eventq', T)
  <2>1. ContactEvent("open", l, 0, "").type \in T
    BY DEF ContactEvent, T
  <2> QED
    BY <1>2, <1>8, <2>1 DEF OpenRequest
<1>9. Grown(eventq, eventq', T)
  BY <1>3, <1>4, <1>5, <1>6, <1>7, <1>8 DEF Environment
<1> QED
  BY <1>9 DEF T

\* The handler of a transmitted event takes the only one that there is.
LEMMA HandledOnce ==
    ASSUME TypeOK, TypeOK', TransmittedOnce(eventq), HandleEvent
    PROVE  /\ TransmittedOnce(eventq')
           /\ Queued("transmitted")' \subseteq Queued("transmitted")
           /\ HandleTransmitted => Ev \notin Queued("transmitted")'
<1> DEFINE t == Tail(eventq)
           T == {"expired", "deleterequest", "contactdown"}
<1>1. eventq \in Seq(Event) /\ eventq # <<>> /\ Ev = Head(eventq) /\ t \in Seq(Event)
  BY HandlerEvents DEF TypeOK, DaemonTypes
<1>2. Grown(t, eventq', T) /\ "transmitted" \notin T
  BY HandlerEvents
<1>3. /\ TransmittedOnce(t) /\ ToSet(t) \subseteq ToSet(eventq)
      /\ Ev.type = "transmitted" => Ev \notin ToSet(t)
  BY <1>1, OnceTail, ElementsOfTail
<1> HIDE DEF t, T
<1>4. /\ TransmittedOnce(eventq')
      /\ \A e \in ToSet(eventq') : e \in ToSet(t) \/ e.type \in T
  BY <1>1, <1>2, <1>3, GrownQueue
<1>5. HandleTransmitted => Ev.type = "transmitted"
  BY DEF HandleTransmitted, Handle, Ev
<1> QED
  BY <1>2, <1>3, <1>4, <1>5 DEF Queued

\* The step makes no transmitted event.
OnceKept ==
    /\ TransmittedOnce(eventq')
    /\ Queued("transmitted")' \subseteq Queued("transmitted")

\* Only the acknowledgement of a bundle makes a transmitted event.
LEMMA TransmittedEvents ==
    ASSUME TypeOK, TypeOK', TransmittedOnce(eventq),
           \/ HandleEvent \/ Continue \/ Timers \/ Environment \/ UNCHANGED vars
           \/ \E b \in Bundles : Free(b)
           \/ \E l \in Links : Connection(l) /\ ~AckBundle(l)
    PROVE  OnceKept
<1>1. eventq \in Seq(Event)
  BY DEF TypeOK, DaemonTypes
<1>2. ASSUME NEW types, "transmitted" \notin types, Grown(eventq, eventq', types)
      PROVE  OnceKept
  BY <1>1, <1>2, GrownQueue DEF Queued, OnceKept
<1>3. ASSUME HandleEvent PROVE OnceKept
  BY <1>3, HandledOnce DEF OnceKept
<1>4. ASSUME Continue PROVE OnceKept
  BY <1>2, <1>4, ContinueEvents
<1>5. ASSUME Timers PROVE OnceKept
  BY <1>2, <1>5, TimerEvents
<1>6. ASSUME NEW l \in Links, Connection(l), ~AckBundle(l) PROVE OnceKept
  BY <1>2, <1>6, ConnectionEvents
<1>7. ASSUME Environment PROVE OnceKept
  <2>1. CASE Crash
    BY <2>1, ElementsOfEmpty DEF Crash, Queued, TransmittedOnce, OnceKept
  <2>2. CASE ~Crash
    BY <1>2, <1>7, <2>2, EnvironmentEvents
  <2> QED
    BY <2>1, <2>2
<1>8. ASSUME UNCHANGED vars \/ \E b \in Bundles : Free(b) PROVE OnceKept
  BY <1>8 DEF Free, vars, daemonVars, Queued, OnceKept
<1> QED
  BY <1>3, <1>4, <1>5, <1>6, <1>7, <1>8

\* An event stays in the queue until it is handled, or the process dies.
LEMMA HandlerKeeps ==
    ASSUME TypeOK, TypeOK', HandleEvent
    PROVE  ToSet(eventq) \ {Ev} \subseteq ToSet(eventq') /\ Ev \in ToSet(eventq)
<1> DEFINE t == Tail(eventq)
<1>1. /\ eventq \in Seq(Event) /\ eventq # <<>> /\ Ev = Head(eventq) /\ t \in Seq(Event)
      /\ Grown(t, eventq', {"expired", "deleterequest", "contactdown"})
  BY HandlerEvents DEF TypeOK, DaemonTypes
<1>2. ToSet(eventq) = {Ev} \cup ToSet(t)
  BY <1>1, ElementsOfTail
<1> HIDE DEF t
<1>3. ToSet(t) \subseteq ToSet(eventq')
  BY <1>1, GrownQueue
<1> QED
  BY <1>2, <1>3

QueueStays ==
    /\ ToSet(eventq) \subseteq ToSet(eventq')
    /\ \A l, c : UpFirst(eventq, l, c) => UpFirst(eventq', l, c)

LEMMA EventsKept ==
    ASSUME TypeOK, TypeOK',
           \/ Continue \/ Timers \/ (Environment /\ ~Crash) \/ UNCHANGED vars
           \/ \E b \in Bundles : Free(b)
           \/ \E l \in Links : Connection(l)
    PROVE  QueueStays
<1>1. eventq \in Seq(Event)
  BY DEF TypeOK, DaemonTypes
<1>2. ASSUME NEW types, Grown(eventq, eventq', types) PROVE QueueStays
  BY <1>1, <1>2, GrownQueue DEF QueueStays
<1>3. ASSUME Continue PROVE \E types : Grown(eventq, eventq', types)
  BY <1>3, ContinueEvents
<1>4. ASSUME Timers PROVE \E types : Grown(eventq, eventq', types)
  BY <1>4, TimerEvents
<1>5. ASSUME NEW l \in Links, Connection(l) PROVE \E types : Grown(eventq, eventq', types)
  BY <1>5, ConnectionEvents
<1>6. ASSUME Environment, ~Crash PROVE \E types : Grown(eventq, eventq', types)
  BY <1>6, EnvironmentEvents
<1>7. ASSUME UNCHANGED vars \/ \E b \in Bundles : Free(b)
      PROVE  \E types : Grown(eventq, eventq', types)
  <2>1. eventq' = eventq
    BY <1>7 DEF Free, vars, daemonVars
  <2>2. Grown(eventq, eventq, {})
    BY <1>1, GrownByNone
  <2> QED
    BY <2>1, <2>2
<1> QED
  BY <1>2, <1>3, <1>4, <1>5, <1>6, <1>7

-----------------------------------------------------------------------------
(* What a step does to the rest of the handler on the stack.               *)

\* The types of the lists of a link.
LEMMA ListTypes ==
    ASSUME TypeOK, NEW l \in Links
    PROVE  /\ queue[l] \in Seq(Bundles) /\ sending[l] \in Seq(Bundles)
           /\ cmds[l] \in Seq(Bundles) /\ deferred[l] \in Seq(Bundles)
           /\ inflight[l] \subseteq Bundles
BY DEF TypeOK, LinkTypes, ConnTypes

\* The calls that a route or a deletion makes.
LEMMA CallsOfRoutes ==
    ASSUME NEW b \in Bundles
    PROVE  /\ \A c \in ToSet(RouteCalls(b)) : c.op = "route" /\ c.b = b
           /\ \A c \in ToSet(CancelCalls(b)) : c.op = "cancel" /\ c.b = b
BY LinksAssumption DEF ToSet, RouteCalls, CancelCalls, DoCall

\* A handler starts on an empty stack, and leaves calls about its bundle, about
\* a bundle whose custody it released, or about a link.
LEMMA HandlerPushes ==
    ASSUME TypeOK, TypeOK', HandleEvent
    PROVE  /\ calls = <<>>
           /\ \A c \in ToSet(calls') :
                 /\ c.op \in {"route", "cancel", "trydelete", "check", "close"}
                 /\ c.op = "close" => HandleClosed
                 /\ c.b = NoBundle \/ c.b \in custody \/ (c.b = Ev.b /\ Ev.b \in Bundles)
<1> DEFINE Known(c) ==
      /\ c.op \in {"route", "cancel", "trydelete", "check", "close"}
      /\ c.op = "close" => HandleClosed
      /\ c.b = NoBundle \/ c.b \in custody \/ (c.b = Ev.b /\ Ev.b \in Bundles)
<1>1. calls = <<>>
  BY HandlerEvents
<1>2. ASSUME UNCHANGED calls PROVE \A c \in ToSet(calls') : Known(c)
  BY <1>1, <1>2, ElementsOfEmpty
<1>3. ASSUME NEW c, Known(c), calls' = <<c>> PROVE \A d \in ToSet(calls') : Known(d)
  BY <1>3, ElementsOfOne
<1>4. \A op, b, l : DoCall(op, b, l).op = op /\ DoCall(op, b, l).b = b
  BY DEF DoCall
<1>5. ASSUME ReceiveBundle PROVE \A c \in ToSet(calls') : Known(c)
  <2>1. Ev.b \in Bundles
    BY <1>5, HandledEvent, EventShape DEF ReceiveBundle
  <2> DEFINE t == <<DoCall("trydelete", Ev.b, NoLink)>>
  <2>2. RouteCalls(Ev.b) \in Seq(Call) /\ t \in Seq(Call)
    BY <2>1, RouteCallsType, CallTypes
  <2>3. ToSet(t) = {DoCall("trydelete", Ev.b, NoLink)}
    BY ElementsOfOne
  <2>4. calls' = t \/ calls' = RouteCalls(Ev.b) \o t
    BY <1>5 DEF ReceiveBundle
  <2> HIDE DEF t
  <2>5. ToSet(RouteCalls(Ev.b) \o t) = ToSet(RouteCalls(Ev.b)) \cup ToSet(t)
    BY <2>2, ElementsOfConcat
  <2>6. (\A c \in ToSet(RouteCalls(Ev.b)) : Known(c)) /\ Known(DoCall("trydelete", Ev.b, NoLink))
    BY <1>4, <2>1, CallsOfRoutes
  <2> HIDE DEF Known
  <2> QED
    BY <2>3, <2>4, <2>5, <2>6
<1>6. ASSUME HandleTransmitted PROVE \A c \in ToSet(calls') : Known(c)
  <2>1. Ev.b \in Bundles
    BY <1>6, HandledEvent, EventShape DEF HandleTransmitted
  <2>2. calls' = <<DoCall("check", NoBundle, Ev.l), DoCall("trydelete", Ev.b, NoLink)>>
    BY <1>6 DEF HandleTransmitted
  <2>3. ToSet(calls') = {DoCall("check", NoBundle, Ev.l), DoCall("trydelete", Ev.b, NoLink)}
    BY <2>2 DEF ToSet
  <2> QED
    BY <1>4, <2>1, <2>3
<1>7. ASSUME HandleSendCancelled \/ HandleExpired \/ HandleDeleteRequest \/ HandleCustodyTimeout
      PROVE  \A c \in ToSet(calls') : Known(c)
  <2>1. Ev.b \in Bundles
    BY <1>7, HandledEvent, EventShape
    DEF HandleSendCancelled, HandleExpired, HandleDeleteRequest, HandleDeletion,
        HandleCustodyTimeout
  <2>2. calls' \in {<<>>, RouteCalls(Ev.b), CancelCalls(Ev.b)}
    BY <1>7 DEF HandleSendCancelled, RouteAgain, HandleExpired, HandleDeleteRequest,
                HandleDeletion, HandleCustodyTimeout
  <2> QED
    BY <2>1, <2>2, CallsOfRoutes, ElementsOfEmpty
<1>8. ASSUME HandleCancelSend PROVE \A c \in ToSet(calls') : Known(c)
  <2>1. Ev.b \in Bundles
    BY <1>8, HandledEvent, EventShape DEF HandleCancelSend
  <2>2. calls' = <<DoCall("cancel", Ev.b, Ev.l)>>
    BY <1>8 DEF HandleCancelSend
  <2> QED
    BY <1>3, <1>4, <2>1, <2>2
<1>9. ASSUME HandleCustodySignal PROVE \A c \in ToSet(calls') : Known(c)
  <2>1. UNCHANGED calls \/ \E b \in custody : calls' = <<DoCall("trydelete", b, NoLink)>>
    BY <1>9 DEF HandleCustodySignal
  <2> QED
    BY <1>2, <1>3, <1>4, <2>1
<1>10. ASSUME HandleContactUp PROVE \A c \in ToSet(calls') : Known(c)
  <2>1. calls' = <<DoCall("check", NoBundle, Ev.l)>>
    BY <1>10 DEF HandleContactUp
  <2> QED
    BY <1>3, <1>4, <2>1
<1>11. ASSUME HandleClosed PROVE \A c \in ToSet(calls') : Known(c)
  <2>1. UNCHANGED calls \/ calls' = <<DoCall("close", NoBundle, Ev.l)>>
    BY <1>11 DEF HandleClosed
  <2> QED
    BY <1>2, <1>3, <1>4, <1>11, <2>1
<1>12. ASSUME DiscardDuplicate \/ ReceiveExpired \/ HandleContactDown \/ HandleOpen
       PROVE  \A c \in ToSet(calls') : Known(c)
  <2>1. UNCHANGED calls
    BY <1>12 DEF DiscardDuplicate, ReceiveExpired, HandleContactDown, HandleOpen
  <2> QED
    BY <1>2, <2>1
<1>13. \A c \in ToSet(calls') : Known(c)
  BY <1>5, <1>6, <1>7, <1>8, <1>9, <1>10, <1>11, <1>12 DEF HandleEvent
<1> QED
  BY <1>1, <1>13

\* A step works off the call on top of the stack, and puts calls in its place:
\* about the same bundle, about one that waits for the link, about the link.
LEMMA StepPushes ==
    ASSUME TypeOK, TypeOK', Continue, ~LoadBundle, ~LoadExpired, ~LoadDone,
           NEW c \in ToSet(calls')
    PROVE  \/ c \in ToSet(calls)
           \/ /\ RouteBundle
              /\ c = DoCall("forward", Now.b, Now.l) /\ ShouldFwdRoute(Now.b, Now.l)
           \/ /\ c.op \in {"check", "cancel"}
              /\ c.b = NoBundle \/ \E d \in ToSet(calls) : c.b = d.b
           \/ c.op = "drain" /\ c.l \in Links /\ c.b \in ToSet(deferred[c.l])
<1> DEFINE Known(d) ==
      \/ d \in ToSet(calls)
      \/ /\ RouteBundle
         /\ d = DoCall("forward", Now.b, Now.l) /\ ShouldFwdRoute(Now.b, Now.l)
      \/ d.op \in {"check", "cancel"} /\ (d.b = NoBundle \/ \E e \in ToSet(calls) : d.b = e.b)
      \/ d.op = "drain" /\ d.l \in Links /\ d.b \in ToSet(deferred[d.l])
<1> DEFINE t == Tail(calls)
<1>1. /\ calls \in Seq(Call) /\ calls # <<>> /\ t \in Seq(Call) /\ ToSet(t) \subseteq ToSet(calls)
      /\ Now \in ToSet(calls)
  <2>1. calls \in Seq(Call) /\ calls # <<>>
    BY DEF Continue, RouteBundle, ForwardBundle, CheckNextHop, DrainDeferred, CancelBundle,
           TryToDelete, Requeue, CloseContact, Step, Idle, TypeOK, DaemonTypes
  <2> QED
    BY <2>1, ElementsOfTail DEF Now
<1> HIDE DEF t
<1>2. ASSUME NEW s \in Seq(Call), calls' = s \o t, \A d \in ToSet(s) : Known(d) PROVE Known(c)
  BY <1>1, <1>2, ElementsOfConcat
<1>3. ASSUME calls' = t \/ UNCHANGED calls PROVE Known(c)
  BY <1>1, <1>3
<1>4. ASSUME RouteBundle PROVE Known(c)
  <2>1. Now.b \in Bundles /\ Now.l \in Links
    BY <1>4, SteppedCall, CallShape DEF RouteBundle
  <2> DEFINE s == <<DoCall("check", NoBundle, Now.l), DoCall("forward", Now.b, Now.l)>>
  <2>2. s \in Seq(Call)
    BY <2>1, CallTypes
  <2>3. ToSet(s) = {DoCall("check", NoBundle, Now.l), DoCall("forward", Now.b, Now.l)}
    BY DEF ToSet
  <2>4. /\ DoCall("check", NoBundle, Now.l).op = "check"
        /\ DoCall("check", NoBundle, Now.l).b = NoBundle
    BY DEF DoCall
  <2>5. (calls' = s \o t /\ ShouldFwdRoute(Now.b, Now.l)) \/ calls' = t
    BY <1>4 DEF RouteBundle, t
  <2> HIDE DEF s
  <2> QED
    BY <1>2, <1>3, <1>4, <2>2, <2>3, <2>4, <2>5
<1>5. ASSUME NEW b \in Bundles, NEW l \in Links, b \in ToSet(deferred[l]),
             calls' = <<DoCall("drain", b, l)>> \o t
      PROVE  Known(c)
  <2> DEFINE s == <<DoCall("drain", b, l)>>
  <2>1. s \in Seq(Call)
    BY CallTypes
  <2>2. /\ ToSet(s) = {DoCall("drain", b, l)}
        /\ DoCall("drain", b, l).op = "drain" /\ DoCall("drain", b, l).b = b
        /\ DoCall("drain", b, l).l = l
    BY ElementsOfOne DEF DoCall
  <2>3. calls' = s \o t
    BY <1>5
  <2>4. \A d \in ToSet(s) : Known(d)
    BY <1>5, <2>2
  <2> HIDE DEF s, Known
  <2> QED
    BY <1>2, <2>1, <2>3, <2>4
<1>6. ASSUME CheckNextHop PROVE Known(c)
  <2>1. Now.l \in Links
    BY <1>6, SteppedCall, CallShape DEF CheckNextHop
  <2>2. deferred[Now.l] # <<>> => /\ Head(deferred[Now.l]) \in Bundles
                                  /\ Head(deferred[Now.l]) \in ToSet(deferred[Now.l])
    BY <2>1, ListTypes, ElementsOfTail
  <2>3. \/ calls' = t
        \/ /\ deferred[Now.l] # <<>>
           /\ calls' = <<DoCall("drain", Head(deferred[Now.l]), Now.l)>> \o t
    BY <1>6 DEF CheckNextHop, t
  <2> QED
    BY <1>3, <1>5, <2>1, <2>2, <2>3
<1>7. ASSUME DrainDeferred PROVE Known(c)
  <2>1. Now.l \in Links /\ Now.b \in Bundles
    BY <1>7, SteppedCall, CallShape DEF DrainDeferred
  <2>2. After(Now.b, Now.l) \subseteq Bundles \cap ToSet(deferred[Now.l])
    <3>1. deferred[Now.l] \in Seq(Bundles)
      BY <2>1, ListTypes
    <3>2. \A j \in 1..(Len(deferred[Now.l]) - 1) :
             deferred[Now.l][j + 1] \in Bundles \cap ToSet(deferred[Now.l])
      BY <3>1, ElementsOf
    <3> QED
      BY <3>2 DEF After
  <2>3. After(Now.b, Now.l) # {} =>
           (CHOOSE d \in After(Now.b, Now.l) : TRUE) \in Bundles \cap ToSet(deferred[Now.l])
    BY <2>2
  <2>4. \/ calls' = t
        \/ /\ After(Now.b, Now.l) # {}
           /\ calls' = <<DoCall("drain", CHOOSE d \in After(Now.b, Now.l) : TRUE, Now.l)>> \o t
    BY <1>7 DEF DrainDeferred, Return, t
  <2> QED
    BY <1>3, <1>5, <2>1, <2>3, <2>4
<1>8. ASSUME TryToDelete PROVE Known(c)
  <2>1. Now.b \in Bundles
    BY <1>8, SteppedCall, CallShape DEF TryToDelete
  <2>2. /\ CancelCalls(Now.b) \in Seq(Call)
        /\ \A d \in ToSet(CancelCalls(Now.b)) : d.op = "cancel" /\ d.b = Now.b
    BY <2>1, RouteCallsType, CallsOfRoutes
  <2>3. calls' = t \/ calls' = CancelCalls(Now.b) \o t
    BY <1>8 DEF TryToDelete, Return, t
  <2>4. \A d \in ToSet(CancelCalls(Now.b)) : Known(d)
    BY <1>1, <2>2
  <2> HIDE DEF Known
  <2> QED
    BY <1>2, <1>3, <2>2, <2>3, <2>4
<1>9. ASSUME ForwardBundle \/ CancelBundle \/ Requeue \/ CloseContact PROVE Known(c)
  <2>1. calls' = t \/ UNCHANGED calls
    BY <1>9 DEF ForwardBundle, CancelBundle, Requeue, CloseContact, Return, daemonVars, t
  <2> QED
    BY <1>3, <2>1
<1> QED
  BY <1>4, <1>6, <1>7, <1>8, <1>9 DEF Continue

-----------------------------------------------------------------------------
(***************************************************************************)
(* What the daemon keeps of a bundle: custody, the data store, its timers  *)
(* and the forwarding log agree in every reachable state.                  *)
(*                                                                         *)
(* CustodyCoherent is not inductive.  A bundle that is received must not   *)
(* be pending already, or the plain copy in the store would be written     *)
(* over a record that says custody; so no bundle is received twice, and a  *)
(* bundle that arrives is not in the data store.  That is IInv, and the    *)
(* other invariants are inductive once it is known:                        *)
(*   - ExpiryArmed and CustodyTimersHeld, with the lemmas of IInv that no  *)
(*     step but the handler of an expired event takes one out of the queue; *)
(*   - StoreHasObject and OneCustodyPerIdentity, with the load: LoadFirst  *)
(*     says that a handler never pushes work in front of it, so the check  *)
(*     for a copy in custody sees what the store says;                     *)
(*   - CustodyRetried and TransmittedSticks, with FreshUntouched, that     *)
(*     nothing is known of a bundle before its received event is handled,  *)
(*     and LogCoherent, that no blocks are left of what is transmitted.    *)
(***************************************************************************)


\* What exists, in memory or in the data store, has arrived.
ArrivedFirst ==
    /\ all \subseteq arrived
    /\ \A b \in Bundles : store[b] # "absent" => b \in arrived

\* The received events of the queue q are about different bundles, which are
\* in the set a and not in the set p.
ReceivedFresh(q, a, p) ==
    /\ \A i \in 1..Len(q) : q[i].type = "received" => q[i].b \in a \ p
    /\ \A i, j \in 1..Len(q) :
          q[i].type = "received" /\ q[j].type = "received" /\ q[i].b = q[j].b => i = j

IInv == TypeOK /\ CustodyCoherent /\ ArrivedFirst /\ ReceivedFresh(eventq, all, pending)

-----------------------------------------------------------------------------
(* Steps of the event queue.                                               *)

\* The expired events of the queue q are in the queue r.
ExpiredKept(q, r) == \A e \in ToSet(q) : e.type = "expired" => e \in ToSet(r)

QueueKept == ReceivedFresh(eventq', all, pending) /\ ExpiredKept(eventq, eventq')

LEMMA TailKeeps ==
    ASSUME NEW q \in Seq(Event), q # <<>>, NEW a, NEW p, ReceivedFresh(q, a, p)
    PROVE  /\ ReceivedFresh(Tail(q), a, p)
           /\ Head(q).type # "expired" => ExpiredKept(q, Tail(q))
           /\ Head(q).type = "received" =>
                 /\ Head(q).b \in a \ p
                 /\ ReceivedFresh(Tail(q), a, p \cup {Head(q).b})
<1>1. /\ Len(Tail(q)) = Len(q) - 1 /\ Len(q) \in Nat /\ Len(q) >= 1
      /\ \A i \in 1..Len(Tail(q)) : Tail(q)[i] = q[i + 1]
      /\ Head(q) = q[1]
  OBVIOUS
<1>2. ReceivedFresh(Tail(q), a, p)
  BY <1>1 DEF ReceivedFresh
<1>3. ASSUME Head(q).type # "expired", NEW e \in ToSet(q), e.type = "expired"
      PROVE  e \in ToSet(Tail(q))
  <2>1. PICK i \in 1..Len(q) : q[i] = e
    BY DEF ToSet
  <2>2. i - 1 \in 1..Len(Tail(q)) /\ Tail(q)[i - 1] = e
    BY <1>1, <1>3, <2>1
  <2>3. DOMAIN Tail(q) = 1..Len(Tail(q))
    OBVIOUS
  <2> QED
    BY <2>2, <2>3 DEF ToSet
<1>4. ASSUME Head(q).type = "received"
      PROVE  Head(q).b \in a \ p /\ ReceivedFresh(Tail(q), a, p \cup {Head(q).b})
  BY <1>1, <1>4 DEF ReceivedFresh
<1> QED
  BY <1>2, <1>3, <1>4 DEF ExpiredKept

LEMMA ConcatKeeps ==
    ASSUME NEW q \in Seq(Event), NEW s \in Seq(Event), NEW a, NEW p,
           \A i \in 1..Len(s) : s[i].type # "received",
           ReceivedFresh(q, a, p)
    PROVE  /\ ReceivedFresh(q \o s, a, p) /\ ExpiredKept(q, q \o s)
           /\ ReceivedFresh(s \o q, a, p) /\ ExpiredKept(q, s \o q)
           /\ ToSet(s) \subseteq ToSet(s \o q)
<1>1. /\ Len(q) \in Nat /\ Len(s) \in Nat
      /\ Len(q \o s) = Len(q) + Len(s) /\ Len(s \o q) = Len(q) + Len(s)
      /\ \A i \in 1..Len(q \o s) :
            (q \o s)[i] = IF i <= Len(q) THEN q[i] ELSE s[i - Len(q)]
      /\ \A i \in 1..Len(s \o q) :
            (s \o q)[i] = IF i <= Len(s) THEN s[i] ELSE q[i - Len(s)]
      /\ DOMAIN (q \o s) = 1..Len(q \o s) /\ DOMAIN (s \o q) = 1..Len(s \o q)
  OBVIOUS
<1>2. ReceivedFresh(q \o s, a, p)
  <2>1. ASSUME NEW i \in 1..Len(q \o s), (q \o s)[i].type = "received"
        PROVE  i \in 1..Len(q) /\ (q \o s)[i] = q[i]
    <3>1. i <= Len(q)
      BY <1>1, <2>1
    <3> QED
      BY <1>1, <3>1
  <2> QED
    BY <2>1 DEF ReceivedFresh
<1>3. ReceivedFresh(s \o q, a, p)
  <2>1. ASSUME NEW i \in 1..Len(s \o q), (s \o q)[i].type = "received"
        PROVE  i - Len(s) \in 1..Len(q) /\ (s \o q)[i] = q[i - Len(s)]
    <3>1. ~(i <= Len(s))
      BY <1>1, <2>1
    <3> QED
      BY <1>1, <3>1
  <2>2. ASSUME NEW i \in 1..Len(s \o q), (s \o q)[i].type = "received"
        PROVE  (s \o q)[i].b \in a \ p
    BY <2>1, <2>2 DEF ReceivedFresh
  <2>3. ASSUME NEW i \in 1..Len(s \o q), NEW j \in 1..Len(s \o q),
               (s \o q)[i].type = "received", (s \o q)[j].type = "received",
               (s \o q)[i].b = (s \o q)[j].b
        PROVE  i = j
    <3>1. i - Len(s) = j - Len(s)
      BY <2>1, <2>3 DEF ReceivedFresh
    <3> QED
      BY <1>1, <3>1
  <2> QED
    BY <2>2, <2>3 DEF ReceivedFresh
<1>4. ToSet(q) \subseteq ToSet(q \o s)
  BY <1>1 DEF ToSet
<1>5. ToSet(q) \subseteq ToSet(s \o q)
  <2>1. SUFFICES ASSUME NEW i \in 1..Len(q) PROVE q[i] \in ToSet(s \o q)
    BY DEF ToSet
  <2>2. i + Len(s) \in 1..Len(s \o q) /\ (s \o q)[i + Len(s)] = q[i]
    BY <1>1
  <2> QED
    BY <1>1, <2>2 DEF ToSet
<1>6. ToSet(s) \subseteq ToSet(s \o q)
  BY <1>1 DEF ToSet
<1> QED
  BY <1>2, <1>3, <1>4, <1>5, <1>6 DEF ExpiredKept

LEMMA QueueUnchanged == IInv /\ UNCHANGED eventq => QueueKept
BY DEF IInv, QueueKept, ExpiredKept

\* A handler takes the event off the queue.
LEMMA QueueDone ==
    ASSUME IInv, NEW type, type # "expired", Handle(type), Done
    PROVE  QueueKept
<1>1. eventq \in Seq(Event) /\ eventq # <<>> /\ Head(eventq).type = type
  BY DEF IInv, TypeOK, DaemonTypes, Handle
<1> QED
  BY <1>1, TailKeeps DEF IInv, QueueKept, Done

\* An event other than a reception is posted at the end or at the head.
LEMMA QueuePosted ==
    ASSUME IInv, TypeOK', NEW e, e.type # "received",
           Post(e) \/ eventq' = <<e>> \o eventq
    PROVE  QueueKept /\ e \in ToSet(eventq')
<1>1. eventq \in Seq(Event) /\ <<e>> \in Seq(Event)
  <2>1. eventq \in Seq(Event) /\ eventq' \in Seq(Event)
    BY DEF IInv, TypeOK, DaemonTypes
  <2>2. CASE Post(e)
    <3>1. eventq'[Len(eventq')] = e /\ Len(eventq') \in 1..Len(eventq')
      BY <2>1, <2>2 DEF Post
    <3> QED
      BY <2>1, <3>1
  <2>3. CASE eventq' = <<e>> \o eventq
    <3>1. eventq'[1] = e /\ 1 \in 1..Len(eventq')
      BY <2>1, <2>3
    <3> QED
      BY <2>1, <3>1
  <2> QED
    BY <2>2, <2>3
<1>2. \A i \in 1..Len(<<e>>) : <<e>>[i].type # "received"
  OBVIOUS
<1>3. eventq' = eventq \o <<e>> \/ eventq' = <<e>> \o eventq
  BY <1>1 DEF Post
<1>4. e \in ToSet(eventq')
  <2>1. /\ (<<e>> \o eventq)[1] = e /\ 1 \in DOMAIN (<<e>> \o eventq)
        /\ (eventq \o <<e>>)[Len(eventq) + 1] = e
        /\ Len(eventq) + 1 \in DOMAIN (eventq \o <<e>>)
    BY <1>1
  <2> QED
    BY <1>3, <2>1 DEF ToSet
<1> QED
  BY <1>1, <1>2, <1>3, <1>4, ConcatKeeps DEF IInv, QueueKept

\* A handler puts another event in the place of its own.
LEMMA QueueReplaced ==
    ASSUME IInv, NEW type, type # "expired", Handle(type),
           NEW e \in Event, e.type # "received", DoneAfter(e)
    PROVE  QueueKept /\ e \in ToSet(eventq')
<1>1. eventq \in Seq(Event) /\ eventq # <<>> /\ Head(eventq).type = type
  BY DEF IInv, TypeOK, DaemonTypes, Handle
<1>2. ReceivedFresh(Tail(eventq), all, pending) /\ ExpiredKept(eventq, Tail(eventq))
  BY <1>1, TailKeeps DEF IInv
<1>3. Tail(eventq) \in Seq(Event) /\ <<e>> \in Seq(Event)
  BY <1>1
<1>4. \A i \in 1..Len(<<e>>) : <<e>>[i].type # "received"
  OBVIOUS
<1>5. /\ ReceivedFresh(eventq', all, pending)
      /\ ExpiredKept(Tail(eventq), eventq')
      /\ ToSet(<<e>>) \subseteq ToSet(eventq')
  BY <1>2, <1>3, <1>4, ConcatKeeps DEF DoneAfter
<1>6. e \in ToSet(<<e>>)
  BY DEF ToSet
<1> QED
  BY <1>2, <1>5, <1>6 DEF QueueKept, ExpiredKept

-----------------------------------------------------------------------------
(* Actions that leave the bundles alone.                                   *)

LEMMA QuietStep ==
    ASSUME IInv, TypeOK', QueueKept, UNCHANGED <<all, pending, custody, local, store>>,
           arrived \subseteq arrived'
    PROVE  IInv'
<1>1. CustodyCoherent'
  <2>1. \A b \in local' \ custody' : BundleEvent("expired", b, NoLink) \in ToSet(eventq')
    BY DEF IInv, CustodyCoherent, QueueKept, ExpiredKept, BundleEvent
  <2> QED
    BY <2>1 DEF IInv, CustodyCoherent
<1>2. ArrivedFirst'
  BY DEF IInv, ArrivedFirst
<1> QED
  BY <1>1, <1>2 DEF IInv, QueueKept

LEMMA QuietHandlers ==
    ASSUME IInv, TypeOK',
           \/ DiscardDuplicate \/ HandleTransmitted \/ HandleSendCancelled \/ HandleCancelSend
           \/ HandleCustodyTimeout \/ HandleContactUp \/ HandleContactDown \/ HandleClosed
           \/ HandleOpen
    PROVE  IInv' /\ QueueKept
<1>1. UNCHANGED <<all, pending, custody, local, store, arrived>>
  BY DEF DiscardDuplicate, HandleTransmitted, HandleSendCancelled, HandleCancelSend,
         HandleCustodyTimeout, HandleContactUp, HandleContactDown, HandleClosed, HandleOpen,
         bundleVars, envVars
<1>2. QueueKept
  <2>1. CASE DiscardDuplicate
    BY <2>1, QueueDone DEF DiscardDuplicate
  <2>2. CASE HandleTransmitted
    BY <2>2, QueueDone DEF HandleTransmitted
  <2>3. CASE HandleSendCancelled
    BY <2>3, QueueDone DEF HandleSendCancelled
  <2>4. CASE HandleCancelSend
    BY <2>4, QueueDone DEF HandleCancelSend
  <2>5. CASE HandleCustodyTimeout
    BY <2>5, QueueDone DEF HandleCustodyTimeout
  <2>6. CASE HandleContactUp
    BY <2>6, QueueDone DEF HandleContactUp
  <2>7. CASE HandleContactDown
    BY <2>7, QueueDone DEF HandleContactDown
  <2>8. CASE HandleClosed
    <3>1. Handle("closed")
      BY <2>8 DEF HandleClosed
    <3>2. Ev.l \in Links /\ Ev.c \in 0..MaxContacts /\ Ev.why \in {"", "broken", "idle", "user"}
      BY <3>1, HandledEvent, EventShape DEF IInv
    <3>3. /\ ContactEvent("contactdown", Ev.l, Ev.c, Ev.why) \in Event
          /\ ContactEvent("contactdown", Ev.l, Ev.c, Ev.why).type = "contactdown"
      BY <3>2, EventTypes DEF ContactEvent
    <3>4. Done \/ DoneAfter(ContactEvent("contactdown", Ev.l, Ev.c, Ev.why))
      BY <2>8 DEF HandleClosed
    <3> QED
      BY <3>1, <3>3, <3>4, QueueDone, QueueReplaced
  <2>9. CASE HandleOpen
    BY <2>9, QueueDone DEF HandleOpen
  <2> QED
    BY <2>1, <2>2, <2>3, <2>4, <2>5, <2>6, <2>7, <2>8, <2>9
<1> QED
  BY <1>1, <1>2, QuietStep

LEMMA QuietSteps ==
    ASSUME IInv, TypeOK',
           \/ RouteBundle \/ ForwardBundle \/ CheckNextHop \/ DrainDeferred \/ CancelBundle
           \/ Requeue \/ CloseContact \/ LoadDone
    PROVE  IInv' /\ QueueKept
<1>1. UNCHANGED <<all, pending, custody, local, store, arrived>>
  BY DEF RouteBundle, ForwardBundle, CheckNextHop, DrainDeferred, CancelBundle, Requeue,
         CloseContact, LoadDone, bundleVars, envVars
<1>2. \/ UNCHANGED eventq
      \/ Post(BundleEvent("sendcancelled", Now.b, Now.l))
  BY DEF RouteBundle, ForwardBundle, CheckNextHop, DrainDeferred, CancelBundle, Requeue,
         CloseContact, LoadDone, daemonVars
<1>3. BundleEvent("sendcancelled", Now.b, Now.l).type # "received"
  BY DEF BundleEvent
<1>4. QueueKept
  BY <1>2, <1>3, QueueUnchanged, QueuePosted
<1> QED
  BY <1>1, <1>4, QuietStep

LEMMA QuietTimers == ASSUME IInv, TypeOK', Timers PROVE IInv' /\ QueueKept
<1>1. ASSUME NEW b, NEW l, ExpirationTimer(b) \/ CustodyTimer(b, l) \/ CancelledTimer(b, l)
      PROVE  IInv' /\ QueueKept
  <2>1. UNCHANGED <<all, pending, custody, local, store, arrived>>
    BY <1>1 DEF ExpirationTimer, CustodyTimer, CancelledTimer, bundleVars, envVars
  <2>2. \/ UNCHANGED eventq
        \/ eventq' = <<BundleEvent("expired", b, NoLink)>> \o eventq
        \/ Post(BundleEvent("custodytimeout", b, l))
    BY <1>1 DEF ExpirationTimer, CustodyTimer, CancelledTimer, daemonVars
  <2>3. /\ BundleEvent("expired", b, NoLink).type # "received"
        /\ BundleEvent("custodytimeout", b, l).type # "received"
    BY DEF BundleEvent
  <2>4. QueueKept
    BY <2>2, <2>3, QueueUnchanged, QueuePosted
  <2> QED
    BY <2>1, <2>4, QuietStep
<1>2. ASSUME NEW l \in Links, RerouteTimer(l) PROVE IInv' /\ QueueKept
  <2> DEFINE s == [i \in 1..Len(queue[l]) |-> BundleEvent("sendcancelled", queue[l][i], l)]
  <2>1. /\ queue[l] \in Seq(Bundles) /\ Len(queue[l]) \in Nat
        /\ \A i \in 1..Len(queue[l]) : queue[l][i] \in Bundles
    BY DEF IInv, TypeOK, LinkTypes
  <2>2. \A i \in 1..Len(queue[l]) : BundleEvent("sendcancelled", queue[l][i], l) \in Event
    BY <2>1, EventTypes
  <2>3. s \in Seq(Event) /\ Len(s) = Len(queue[l])
    BY <2>1, <2>2
  <2>4. \A i \in 1..Len(s) : s[i].type # "received"
    BY <2>3 DEF BundleEvent
  <2>5. UNCHANGED eventq \/ eventq' = eventq \o s
    BY <1>2 DEF RerouteTimer
  <2>6. UNCHANGED <<all, pending, custody, local, store, arrived>>
    BY <1>2 DEF RerouteTimer, bundleVars, envVars
  <2> HIDE DEF s
  <2>7. eventq \in Seq(Event)
    BY DEF IInv, TypeOK, DaemonTypes
  <2>8. QueueKept
    BY <2>3, <2>4, <2>5, <2>7, QueueUnchanged, ConcatKeeps DEF IInv, QueueKept
  <2> QED
    BY <2>6, <2>8, QuietStep
<1> QED
  BY <1>1, <1>2 DEF Timers

LEMMA QuietConnections ==
    ASSUME IInv, TypeOK', NEW l \in Links, Connection(l)
    PROVE  IInv' /\ QueueKept
<1>1. UNCHANGED <<all, pending, custody, local, store, arrived>>
  BY DEF Connection, ConnectionUp, AcceptConnection, StartNextBundle, SendSegment, AckBundle,
         CancelCommand, BreakContact, BreakCommand, bundleVars, envVars
<1>2. \/ UNCHANGED eventq
      \/ \E c, w : Post(ContactEvent("contactup", l, c, w)) \/ Post(ContactEvent("closed", l, c, w))
      \/ \E b : Post(BundleEvent("transmitted", b, l)) \/ Post(BundleEvent("sendcancelled", b, l))
  BY DEF Connection, ConnectionUp, AcceptConnection, StartNextBundle, SendSegment, AckBundle,
         CancelCommand, BreakContact, BreakCommand, daemonVars
<1>3. /\ \A c, w : /\ ContactEvent("contactup", l, c, w).type # "received"
                   /\ ContactEvent("closed", l, c, w).type # "received"
      /\ \A b : /\ BundleEvent("transmitted", b, l).type # "received"
                /\ BundleEvent("sendcancelled", b, l).type # "received"
  BY DEF ContactEvent, BundleEvent
<1>4. ASSUME NEW e, e.type # "received", Post(e) PROVE QueueKept
  BY <1>4, QueuePosted
<1>5. QueueKept
  BY <1>2, <1>3, <1>4, QueueUnchanged
<1> QED
  BY <1>1, <1>5, QuietStep

LEMMA QuietRequests ==
    ASSUME IInv, TypeOK', NEW b, NEW l,
           \/ CancelRequest(b) \/ CustodySignal(b) \/ CancelSend(b, l)
           \/ CloseRequest(l) \/ OpenRequest(l)
    PROVE  IInv' /\ QueueKept
<1>1. UNCHANGED <<all, pending, custody, local, store, arrived>>
  BY DEF CancelRequest, CustodySignal, CancelSend, CloseRequest, OpenRequest, bundleVars, envVars
<1>2. \/ Post(BundleEvent("deleterequest", b, NoLink))
      \/ Post(BundleEvent("custodysignal", b, NoLink))
      \/ eventq' = <<BundleEvent("cancelsend", b, l)>> \o eventq
      \/ Post(ContactEvent("closed", l, contact[l], "user"))
      \/ Post(ContactEvent("open", l, 0, ""))
  BY DEF CancelRequest, CustodySignal, CancelSend, CloseRequest, OpenRequest
<1>3. /\ BundleEvent("deleterequest", b, NoLink).type # "received"
      /\ BundleEvent("custodysignal", b, NoLink).type # "received"
      /\ BundleEvent("cancelsend", b, l).type # "received"
      /\ ContactEvent("closed", l, contact[l], "user").type # "received"
      /\ ContactEvent("open", l, 0, "").type # "received"
  BY DEF ContactEvent, BundleEvent
<1>4. QueueKept
  BY <1>2, <1>3, QueuePosted
<1> QED
  BY <1>1, <1>4, QuietStep

-----------------------------------------------------------------------------
(* Actions that change the lists of bundles, custody or the data store.    *)

LEMMA InitCoherent == Init => IInv
<1> SUFFICES ASSUME Init PROVE IInv
  OBVIOUS
<1>1. TypeOK
  BY InitType
<1>2. CustodyCoherent /\ ArrivedFirst
  BY DEF Init, CustodyCoherent, ArrivedFirst
<1>3. ReceivedFresh(eventq, all, pending)
  BY DEF Init, ReceivedFresh
<1> QED
  BY <1>1, <1>2, <1>3 DEF IInv

LEMMA CrashCoherent == ASSUME IInv, TypeOK', Crash PROVE IInv'
<1>1. CustodyCoherent'
  BY DEF Crash, CustodyCoherent
<1>2. ArrivedFirst'
  BY DEF Crash, IInv, ArrivedFirst, envVars
<1>3. ReceivedFresh(eventq', all', pending')
  BY DEF Crash, ReceivedFresh
<1> QED
  BY <1>1, <1>2, <1>3 DEF IInv

LEMMA LoadBundleCoherent == ASSUME IInv, TypeOK', LoadBundle PROVE IInv'
<1>1. PICK b \in Bundles \ all :
        /\ store[b] # "absent"
        /\ all' = all \cup {b}
        /\ \/ UNCHANGED <<pending, custody, local, eventq>>
           \/ /\ pending' = pending \cup {b}
              /\ IF store[b] = "custody"
                 THEN local' = local \cup {b} /\ custody' = custody \cup {b}
                 ELSE UNCHANGED <<local, custody>>
              /\ \/ eventq' = <<BundleEvent("deleterequest", b, NoLink)>> \o eventq
                 \/ UNCHANGED eventq
  BY DEF LoadBundle
<1>2. UNCHANGED <<store, arrived>>
  BY DEF LoadBundle, envVars
<1>3. QueueKept
  <2>1. BundleEvent("deleterequest", b, NoLink).type # "received"
    BY DEF BundleEvent
  <2> QED
    BY <1>1, <2>1, QueueUnchanged, QueuePosted
<1>4. CustodyCoherent'
  <2>1. \A d \in local' \ custody' : BundleEvent("expired", d, NoLink) \in ToSet(eventq')
    BY <1>1, <1>3 DEF IInv, CustodyCoherent, QueueKept, ExpiredKept, BundleEvent
  <2> QED
    BY <1>1, <1>2, <2>1 DEF IInv, CustodyCoherent
<1>5. ArrivedFirst'
  BY <1>1, <1>2 DEF IInv, ArrivedFirst
<1>6. ReceivedFresh(eventq', all', pending')
  BY <1>1, <1>3 DEF IInv, QueueKept, ReceivedFresh
<1> QED
  BY <1>4, <1>5, <1>6 DEF IInv

LEMMA LoadExpiredCoherent == ASSUME IInv, TypeOK', LoadExpired PROVE IInv'
<1>1. PICK b \in Bundles \ all :
        /\ store[b] # "absent"
        /\ all' = all \cup {b}
        /\ pending' = pending \cup {b}
        /\ local' = IF store[b] = "custody" THEN local \cup {b} ELSE local
        /\ eventq' = <<BundleEvent("expired", b, NoLink)>> \o eventq
  BY DEF LoadExpired
<1>2. UNCHANGED <<custody, store, arrived>>
  BY DEF LoadExpired, envVars
<1>3. QueueKept /\ BundleEvent("expired", b, NoLink) \in ToSet(eventq')
  <2>1. BundleEvent("expired", b, NoLink).type # "received"
    BY DEF BundleEvent
  <2> QED
    BY <1>1, <2>1, QueuePosted
<1>4. CustodyCoherent'
  <2>1. \A d \in local' \ custody' : BundleEvent("expired", d, NoLink) \in ToSet(eventq')
    BY <1>1, <1>2, <1>3 DEF IInv, CustodyCoherent, QueueKept, ExpiredKept, BundleEvent
  <2> QED
    BY <1>1, <1>2, <2>1 DEF IInv, CustodyCoherent
<1>5. ArrivedFirst'
  BY <1>1, <1>2 DEF IInv, ArrivedFirst
<1>6. ReceivedFresh(eventq', all', pending')
  BY <1>1, <1>3 DEF IInv, QueueKept, ReceivedFresh
<1> QED
  BY <1>4, <1>5, <1>6 DEF IInv

\* The bundle of a received event becomes pending, and no other received event
\* is about it.
LEMMA ReceptionOf ==
    ASSUME IInv, TypeOK', Handle("received")
    PROVE  /\ Ev.b \in Bundles /\ Ev.b \in all \ pending
           /\ \A e : e.type # "received" /\ (Done \/ DoneAfter(e)) =>
                 /\ ReceivedFresh(eventq', all, pending \cup {Ev.b})
                 /\ ExpiredKept(eventq, eventq')
                 /\ DoneAfter(e) => e \in ToSet(eventq')
<1>1. eventq \in Seq(Event) /\ eventq # <<>> /\ Ev = Head(eventq) /\ Ev.type = "received"
  BY DEF IInv, TypeOK, DaemonTypes, Handle, Ev
<1>2. Ev.b \in Bundles
  BY HandledEvent, EventShape DEF IInv
<1>3. /\ Ev.b \in all \ pending
      /\ ReceivedFresh(Tail(eventq), all, pending \cup {Ev.b})
      /\ ExpiredKept(eventq, Tail(eventq))
  BY <1>1, TailKeeps DEF IInv
<1>4. ASSUME NEW e, e.type # "received", DoneAfter(e)
      PROVE  /\ ReceivedFresh(eventq', all, pending \cup {Ev.b})
             /\ ExpiredKept(eventq, eventq')
             /\ e \in ToSet(eventq')
  <2>1. Tail(eventq) \in Seq(Event) /\ eventq' \in Seq(Event) /\ eventq' = <<e>> \o Tail(eventq)
    BY <1>1, <1>4 DEF TypeOK, DaemonTypes, DoneAfter
  <2>2. eventq'[1] = e /\ 1 \in 1..Len(eventq') /\ DOMAIN eventq' = 1..Len(eventq')
    BY <2>1
  <2>3. <<e>> \in Seq(Event)
    BY <2>1, <2>2
  <2>4. \A i \in 1..Len(<<e>>) : <<e>>[i].type # "received"
    BY <1>4
  <2>5. /\ ReceivedFresh(eventq', all, pending \cup {Ev.b})
        /\ ExpiredKept(Tail(eventq), eventq')
    BY <1>3, <2>1, <2>3, <2>4, ConcatKeeps
  <2> QED
    BY <1>3, <2>2, <2>5 DEF ExpiredKept, ToSet
<1> QED
  BY <1>2, <1>3, <1>4 DEF Done

LEMMA ReceiveExpiredCoherent == ASSUME IInv, TypeOK', ReceiveExpired PROVE IInv'
<1>1. /\ pending' = pending \cup {Ev.b}
      /\ store' = [store EXCEPT ![Ev.b] = "plain"]
      /\ DoneAfter(BundleEvent("expired", Ev.b, NoLink))
      /\ UNCHANGED <<all, custody, local, arrived>>
  BY DEF ReceiveExpired, envVars
<1>2. /\ Ev.b \in Bundles /\ Ev.b \in all \ pending
      /\ ReceivedFresh(eventq', all, pending')
      /\ ExpiredKept(eventq, eventq')
  <2>1. BundleEvent("expired", Ev.b, NoLink).type # "received"
    BY DEF BundleEvent
  <2> QED
    BY <1>1, <2>1, ReceptionOf DEF ReceiveExpired
<1>3. CustodyCoherent'
  <2>1. \A d \in local' \ custody' : BundleEvent("expired", d, NoLink) \in ToSet(eventq')
    BY <1>1, <1>2 DEF IInv, CustodyCoherent, ExpiredKept, BundleEvent
  <2> QED
    BY <1>1, <1>2, <2>1 DEF IInv, CustodyCoherent, TypeOK, BundleTypes
<1>4. ArrivedFirst'
  BY <1>1, <1>2 DEF IInv, ArrivedFirst, TypeOK, BundleTypes
<1> QED
  BY <1>1, <1>2, <1>3, <1>4 DEF IInv

LEMMA ReceiveBundleCoherent == ASSUME IInv, TypeOK', ReceiveBundle PROVE IInv'
<1>1. /\ pending' = pending \cup {Ev.b}
      /\ \/ /\ local' = local \cup {Ev.b}
            /\ custody' = custody \cup {Ev.b}
            /\ store' = [store EXCEPT ![Ev.b] = "custody"]
         \/ /\ store' = [store EXCEPT ![Ev.b] = "plain"]
            /\ UNCHANGED <<local, custody>>
      /\ Done \/ DoneAfter(BundleEvent("deleterequest", Ev.b, NoLink))
      /\ UNCHANGED <<all, arrived>>
  BY DEF ReceiveBundle, envVars
<1>2. /\ Ev.b \in Bundles /\ Ev.b \in all \ pending
      /\ ReceivedFresh(eventq', all, pending')
      /\ ExpiredKept(eventq, eventq')
  <2>1. BundleEvent("deleterequest", Ev.b, NoLink).type # "received"
    BY DEF BundleEvent
  <2> QED
    BY <1>1, <2>1, ReceptionOf DEF ReceiveBundle
<1>3. CustodyCoherent'
  <2>1. \A d \in local' \ custody' : BundleEvent("expired", d, NoLink) \in ToSet(eventq')
    BY <1>1, <1>2 DEF IInv, CustodyCoherent, ExpiredKept, BundleEvent
  <2> QED
    BY <1>1, <1>2, <2>1 DEF IInv, CustodyCoherent, TypeOK, BundleTypes
<1>4. ArrivedFirst'
  BY <1>1, <1>2 DEF IInv, ArrivedFirst, TypeOK, BundleTypes
<1> QED
  BY <1>1, <1>2, <1>3, <1>4 DEF IInv

\* DeleteBundle takes the bundle out of everything that custody is about; only
\* the expired events of other bundles are needed from then on.
LEMMA DeletedCoherent ==
    ASSUME IInv, TypeOK', NEW b \in Bundles, DeleteBundle(b), UNCHANGED <<all, arrived>>,
           ReceivedFresh(eventq', all, pending),
           \A e \in ToSet(eventq) : e.type = "expired" /\ e.b # b => e \in ToSet(eventq')
    PROVE  IInv'
<1>1. /\ pending' = pending \ {b} /\ local' = local \ {b} /\ custody' = custody \ {b}
      /\ \A d \in Bundles \ {b} : store'[d] = store[d]
      /\ \A d \in Bundles : store'[d] # "absent" => store[d] # "absent" \/ d \in local
  <2>1. CASE b \in local
    BY <2>1 DEF DeleteBundle, ReleaseCustody, IInv, TypeOK, BundleTypes
  <2>2. CASE b \notin local
    BY <2>2 DEF DeleteBundle, IInv, CustodyCoherent, TypeOK, BundleTypes
  <2> QED
    BY <2>1, <2>2
<1>2. local \subseteq Bundles /\ local \subseteq all /\ pending \subseteq Bundles
  BY DEF IInv, CustodyCoherent, TypeOK, BundleTypes
<1>3. CustodyCoherent'
  <2>1. ASSUME NEW d \in local' \ custody'
        PROVE  BundleEvent("expired", d, NoLink) \in ToSet(eventq')
    <3>1. BundleEvent("expired", d, NoLink) \in ToSet(eventq) /\ d # b
      BY <1>1, <2>1 DEF IInv, CustodyCoherent
    <3> QED
      BY <3>1 DEF BundleEvent
  <2> QED
    BY <1>1, <1>2, <2>1 DEF IInv, CustodyCoherent
<1>4. ArrivedFirst'
  BY <1>1, <1>2 DEF IInv, ArrivedFirst
<1>5. ReceivedFresh(eventq', all', pending')
  BY <1>1 DEF ReceivedFresh
<1> QED
  BY <1>3, <1>4, <1>5 DEF IInv

LEMMA HandleDeletionCoherent ==
    ASSUME IInv, TypeOK', NEW type \in {"expired", "deleterequest"}, HandleDeletion(type)
    PROVE  IInv'
<1>1. /\ eventq \in Seq(Event) /\ eventq # <<>> /\ Ev = Head(eventq)
      /\ eventq' = Tail(eventq)
  BY DEF HandleDeletion, Handle, Done, Ev, IInv, TypeOK, DaemonTypes
<1>2. Ev.b \in Bundles
  BY HandledEvent, EventShape DEF HandleDeletion, IInv
<1>3. ReceivedFresh(eventq', all, pending)
  BY <1>1, TailKeeps DEF IInv
<1>4. ASSUME NEW e \in ToSet(eventq), e # Ev PROVE e \in ToSet(eventq')
  <2>1. PICK i \in 1..Len(eventq) : eventq[i] = e
    BY <1>1 DEF ToSet
  <2>2. i - 1 \in 1..Len(eventq') /\ eventq'[i - 1] = e /\ DOMAIN eventq' = 1..Len(eventq')
    BY <1>1, <1>4, <2>1
  <2> QED
    BY <2>2 DEF ToSet
<1>5. DeleteBundle(Ev.b) /\ UNCHANGED <<all, arrived>>
  BY DEF HandleDeletion, envVars
<1> QED
  BY <1>2, <1>3, <1>4, <1>5, DeletedCoherent

LEMMA TryToDeleteCoherent == ASSUME IInv, TypeOK', TryToDelete PROVE IInv'
<1>1. Now.b \in Bundles
  BY SteppedCall, CallShape DEF TryToDelete, IInv
<1>2. UNCHANGED <<all, arrived, eventq>>
  BY DEF TryToDelete, envVars
<1>3. CASE DeleteBundle(Now.b)
  BY <1>1, <1>2, <1>3, DeletedCoherent DEF IInv
<1>4. CASE UNCHANGED <<pending, custody, local, store>>
  BY <1>2, <1>4, QueueUnchanged, QuietStep
<1> QED
  BY <1>3, <1>4 DEF TryToDelete

LEMMA HandleCustodySignalCoherent == ASSUME IInv, TypeOK', HandleCustodySignal PROVE IInv'
<1>1. UNCHANGED <<all, pending, arrived>>
  BY DEF HandleCustodySignal, envVars
<1>2. QueueKept
  BY QueueDone DEF HandleCustodySignal
<1>3. CASE UNCHANGED <<local, custody, store>>
  BY <1>1, <1>2, <1>3, QuietStep
<1>4. ASSUME NEW b \in custody, ReleaseCustody(b) PROVE IInv'
  <2>1. /\ local' = local \ {b} /\ custody' = custody \ {b}
        /\ b \in Bundles /\ b \in pending /\ store' = [store EXCEPT ![b] = "plain"]
    BY <1>4 DEF ReleaseCustody, IInv, CustodyCoherent, TypeOK, BundleTypes
  <2>2. \A d \in Bundles : store'[d] = IF d = b THEN "plain" ELSE store[d]
    BY <2>1 DEF IInv, TypeOK, BundleTypes
  <2>3. \A d \in local' \ custody' : BundleEvent("expired", d, NoLink) \in ToSet(eventq')
    BY <1>2, <2>1 DEF IInv, CustodyCoherent, QueueKept, ExpiredKept, BundleEvent
  <2>4. CustodyCoherent'
    BY <1>1, <2>1, <2>2, <2>3 DEF IInv, CustodyCoherent, TypeOK, BundleTypes
  <2>5. ArrivedFirst'
    BY <1>1, <2>1, <2>2 DEF IInv, CustodyCoherent, ArrivedFirst
  <2> QED
    BY <1>1, <1>2, <2>4, <2>5 DEF IInv, QueueKept
<1> QED
  BY <1>3, <1>4 DEF HandleCustodySignal

\* A bundle is freed only when no received event names it.
LEMMA FreeCoherent == ASSUME IInv, TypeOK', NEW b \in Bundles, Free(b) PROVE IInv'
<1>1. /\ all' = all \ {b} /\ store' = [store EXCEPT ![b] = "absent"]
      /\ UNCHANGED <<pending, custody, local, arrived, eventq>>
  BY DEF Free, StoreDel, daemonVars, envVars
<1>2. b \notin pending /\ \A e \in ToSet(eventq) : e.type = "received" => e.b # b
  BY DEF Free, Referenced
<1>3. CustodyCoherent'
  BY <1>1, <1>2 DEF IInv, CustodyCoherent, TypeOK, BundleTypes
<1>4. ArrivedFirst'
  BY <1>1 DEF IInv, ArrivedFirst, TypeOK, BundleTypes
<1>5. ReceivedFresh(eventq', all', pending')
  <2>1. \A i \in 1..Len(eventq) : eventq[i] \in ToSet(eventq)
    BY DEF IInv, TypeOK, DaemonTypes, ToSet
  <2> QED
    BY <1>1, <1>2, <2>1 DEF IInv, ReceivedFresh
<1> QED
  BY <1>3, <1>4, <1>5 DEF IInv

\* A new bundle is in no list and in no event that waits.
LEMMA ArriveCoherent ==
    ASSUME IInv, TypeOK', NEW b \in Bundles, NEW l, Arrive(b, l)
    PROVE  IInv'
<1> DEFINE e == BundleEvent("received", b, l)
<1>1. /\ b \notin arrived /\ b \notin all
      /\ arrived' = arrived \cup {b} /\ all' = all \cup {b}
      /\ eventq' = Append(eventq, e)
      /\ UNCHANGED <<pending, custody, local, store>>
  BY DEF Arrive, Post, IInv, ArrivedFirst
<1>2. eventq \in Seq(Event) /\ e.b = b /\ e.type = "received"
  BY DEF IInv, TypeOK, DaemonTypes, BundleEvent
<1> HIDE DEF e
<1>3. /\ Len(eventq') = Len(eventq) + 1 /\ Len(eventq) \in Nat
      /\ DOMAIN eventq = 1..Len(eventq) /\ DOMAIN eventq' = 1..Len(eventq')
      /\ \A i \in 1..Len(eventq) : eventq'[i] = eventq[i]
      /\ eventq'[Len(eventq) + 1] = e
  BY <1>1, <1>2
<1>4. CustodyCoherent'
  <2>1. ToSet(eventq) \subseteq ToSet(eventq')
    BY <1>3 DEF ToSet
  <2> QED
    BY <1>1, <2>1 DEF IInv, CustodyCoherent
<1>5. ArrivedFirst'
  BY <1>1 DEF IInv, ArrivedFirst
<1>6. ReceivedFresh(eventq', all', pending')
  <2>1. b \notin pending
    BY <1>1 DEF IInv, CustodyCoherent
  <2>2. \A i \in 1..Len(eventq) :
           eventq[i].type = "received" => eventq[i].b \in all \ pending
    BY DEF IInv, ReceivedFresh
  <2>3. ASSUME NEW i \in 1..Len(eventq'), eventq'[i].type = "received"
        PROVE  eventq'[i].b \in all' \ pending'
    BY <1>1, <1>2, <1>3, <2>1, <2>2, <2>3
  <2>4. ASSUME NEW i \in 1..Len(eventq'), NEW j \in 1..Len(eventq'),
               eventq'[i].type = "received", eventq'[j].type = "received",
               eventq'[i].b = eventq'[j].b
        PROVE  i = j
    <3>1. CASE i <= Len(eventq) /\ j <= Len(eventq)
      BY <1>3, <2>4, <3>1 DEF IInv, ReceivedFresh
    <3>2. CASE i = Len(eventq) + 1 \/ j = Len(eventq) + 1
      BY <1>1, <1>2, <1>3, <2>2, <2>4, <3>2
    <3> QED
      BY <1>3, <3>1, <3>2
  <2> QED
    BY <2>3, <2>4 DEF ReceivedFresh
<1> QED
  BY <1>4, <1>5, <1>6 DEF IInv

-----------------------------------------------------------------------------

LEMMA NextCoherent == IInv /\ [Next]_vars => IInv'
<1> SUFFICES ASSUME IInv, [Next]_vars PROVE IInv'
  OBVIOUS
<1>1. TypeOK'
  BY NextType DEF IInv
<1>2. CASE HandleEvent
  <2>1. HandleExpired \/ HandleDeleteRequest => IInv'
    BY <1>1, HandleDeletionCoherent DEF HandleExpired, HandleDeleteRequest
  <2> QED
    BY <1>1, <1>2, <2>1, QuietHandlers, ReceiveExpiredCoherent, ReceiveBundleCoherent,
       HandleCustodySignalCoherent
    DEF HandleEvent
<1>3. CASE Continue
  BY <1>1, <1>3, QuietSteps, TryToDeleteCoherent, LoadBundleCoherent, LoadExpiredCoherent
  DEF Continue
<1>4. ASSUME NEW b \in Bundles, Free(b) PROVE IInv'
  BY <1>1, <1>4, FreeCoherent
<1>5. CASE Timers
  BY <1>1, <1>5, QuietTimers
<1>6. ASSUME NEW l \in Links, Connection(l) PROVE IInv'
  BY <1>1, <1>6, QuietConnections
<1>7. CASE Environment
  BY <1>1, <1>7, ArriveCoherent, QuietRequests, CrashCoherent DEF Environment
<1>8. CASE UNCHANGED vars
  <2>1. UNCHANGED <<all, pending, custody, local, store, arrived, eventq>>
    BY <1>8 DEF vars, bundleVars, daemonVars, envVars
  <2> QED
    BY <1>1, <2>1, QueueUnchanged, QuietStep
<1> QED
  BY <1>2, <1>3, <1>4, <1>5, <1>6, <1>7, <1>8 DEF Next

\* The flag local_custody of a bundle, the custody list, the pending list and
\* the flag that the data store keeps agree after every handler, timer, crash
\* and reload: accept_custody, release_custody, delete_bundle and load_bundles
\* never leave one of them behind.
THEOREM CustodyIsCoherent == Spec => []CustodyCoherent
<1>1. IInv => CustodyCoherent
  BY DEF IInv
<1> QED
  BY <1>1, InitCoherent, NextCoherent, PTL DEF Spec

-----------------------------------------------------------------------------
(* Timers.                                                                 *)

Running == {"pending", "fired"}

-----------------------------------------------------------------------------
(* Custody is kept.                                                        *)

\* TryToDelete does not touch a bundle in custody: can_delete_bundle says no.
LEMMA TryToDeleteKeepsCustody == TryToDelete => UNCHANGED <<local, ctimer>>
BY DEF TryToDelete, CanDelete, DeleteBundle

LEMMA NextKeepsCustody ==
    ASSUME [Next]_vars
    PROVE  \/ local \subseteq local'
           \/ HandleCustodySignal \/ HandleExpired \/ HandleDeleteRequest
           \/ calls' = <<DoCall("load", NoBundle, NoLink)>>
<1>1. CASE HandleEvent
  BY <1>1 DEF HandleEvent, DiscardDuplicate, ReceiveExpired, ReceiveBundle, HandleTransmitted,
              HandleSendCancelled, HandleCancelSend, HandleCustodyTimeout, HandleContactUp,
              HandleContactDown, HandleClosed, HandleOpen, bundleVars
<1>2. CASE Continue
  BY <1>2, TryToDeleteKeepsCustody
  DEF Continue, RouteBundle, ForwardBundle, CheckNextHop, DrainDeferred, CancelBundle, Requeue,
      CloseContact, LoadBundle, LoadExpired, LoadDone, bundleVars
<1>3. ASSUME NEW b \in Bundles, Free(b) PROVE local \subseteq local'
  BY <1>3 DEF Free
<1>4. CASE Timers
  BY <1>4 DEF Timers, ExpirationTimer, CustodyTimer, CancelledTimer, RerouteTimer, bundleVars
<1>5. ASSUME NEW l \in Links, Connection(l) PROVE local \subseteq local'
  BY <1>5 DEF Connection, ConnectionUp, AcceptConnection, StartNextBundle, SendSegment,
              AckBundle, CancelCommand, BreakContact, BreakCommand, bundleVars
<1>6. CASE Environment
  BY <1>6 DEF Environment, Arrive, CancelRequest, CustodySignal, CancelSend, CloseRequest,
              OpenRequest, Crash, bundleVars
<1>7. CASE UNCHANGED vars
  BY <1>7 DEF vars, bundleVars
<1> QED
  BY <1>1, <1>2, <1>3, <1>4, <1>5, <1>6, <1>7 DEF Next

\* Custody of a bundle is never given up because the bundle was transmitted,
\* its transmission cancelled or its link closed: only a custody signal, the
\* end of the bundle (expiry, deletion) or a restart ends it.
THEOREM CustodyIsKept == Spec => CustodyKept
<1>1. [Next]_vars =>
        [\A b \in local \ local' :
            \/ HandleCustodySignal
            \/ HandleExpired \/ HandleDeleteRequest
            \/ calls' = <<DoCall("load", NoBundle, NoLink)>>]_vars
  BY NextKeepsCustody
<1> QED
  BY <1>1, PTL DEF Spec, CustodyKept

-----------------------------------------------------------------------------
(* Custody timers.                                                         *)

\* No timer of a bundle out of custody starts, and custody is not given up.
LEMMA TimersStay ==
    ASSUME CustodyTimersHeld, local \subseteq local',
           \A b \in Bundles, l \in Links :
              ctimer'[b][l] \in Running => ctimer[b][l] \in Running \/ b \in local
    PROVE  CustodyTimersHeld'
BY DEF CustodyTimersHeld, Running

\* cancel_custody_timers leaves no timer of the bundle running.
LEMMA ReleaseStopsTimers ==
    ASSUME TypeOK, CustodyTimersHeld, NEW b \in Bundles, ReleaseCustody(b)
    PROVE  CustodyTimersHeld'
<1>1. ASSUME NEW d \in Bundles, NEW l \in Links, ctimer'[d][l] \in {"pending", "fired"}
      PROVE  d \in local'
  <2>1. CASE d = b
    <3>1. ctimer'[b][l] = CASE ctimer[b][l] = "pending" -> "cancelled"
                            [] ctimer[b][l] = "fired"   -> "orphan"
                            [] OTHER -> ctimer[b][l]
      BY DEF ReleaseCustody, TypeOK, BundleTypes
    <3> QED
      BY <1>1, <2>1, <3>1
  <2>2. CASE d # b
    <3>1. ctimer'[d][l] = ctimer[d][l]
      BY <2>2 DEF ReleaseCustody, TypeOK, BundleTypes
    <3> QED
      BY <1>1, <2>2, <3>1 DEF CustodyTimersHeld, ReleaseCustody
  <2> QED
    BY <2>1, <2>2
<1> QED
  BY <1>1 DEF CustodyTimersHeld

LEMMA DeletionStopsTimers ==
    ASSUME TypeOK, CustodyTimersHeld, NEW b \in Bundles, DeleteBundle(b)
    PROVE  CustodyTimersHeld'
<1>1. CASE b \in local
  BY <1>1, ReleaseStopsTimers DEF DeleteBundle
<1>2. CASE b \notin local
  BY <1>2 DEF DeleteBundle, CustodyTimersHeld
<1> QED
  BY <1>1, <1>2

\* The steps that change one custody timer.
LEMMA OneTimer ==
    ASSUME TypeOK, CustodyTimersHeld, UNCHANGED local, NEW b \in Bundles, NEW l \in Links,
           NEW t, ctimer' = [ctimer EXCEPT ![b][l] = t],
           t \in Running => ctimer[b][l] \in Running \/ b \in local
    PROVE  CustodyTimersHeld'
<1>1. \A d \in Bundles, m \in Links :
        ctimer'[d][m] = IF d = b /\ m = l THEN t ELSE ctimer[d][m]
  BY DEF TypeOK, BundleTypes
<1> QED
  BY <1>1, TimersStay

LEMMA HandlersHoldTimers ==
    ASSUME TypeOK, CustodyTimersHeld, HandleEvent PROVE CustodyTimersHeld'
<1>1. CASE \/ DiscardDuplicate \/ ReceiveExpired \/ ReceiveBundle \/ HandleSendCancelled
           \/ HandleCancelSend \/ HandleContactUp \/ HandleContactDown \/ HandleClosed
           \/ HandleOpen
  <2>1. UNCHANGED ctimer /\ local \subseteq local'
    BY <1>1 DEF DiscardDuplicate, ReceiveExpired, ReceiveBundle, HandleSendCancelled,
                HandleCancelSend, HandleContactUp, HandleContactDown, HandleClosed,
                HandleOpen, bundleVars
  <2> QED
    BY <2>1, TimersStay
<1>2. CASE HandleTransmitted
  <2>1. Ev.b \in Bundles /\ Ev.l \in Links
    BY <1>2, HandledEvent, EventShape DEF HandleTransmitted
  <2>2. /\ UNCHANGED local
        /\ \/ UNCHANGED ctimer
           \/ Ev.b \in local /\ ctimer' = [ctimer EXCEPT ![Ev.b][Ev.l] = "pending"]
    BY <1>2 DEF HandleTransmitted
  <2> QED
    BY <2>1, <2>2, OneTimer, TimersStay
<1>3. CASE HandleCustodyTimeout
  <2>1. Ev.b \in Bundles /\ Ev.l \in Links
    BY <1>3, HandledEvent, EventShape DEF HandleCustodyTimeout
  <2>2. /\ UNCHANGED local
        /\ UNCHANGED ctimer \/ ctimer' = [ctimer EXCEPT ![Ev.b][Ev.l] = "none"]
    BY <1>3 DEF HandleCustodyTimeout
  <2>3. "none" \notin Running
    BY DEF Running
  <2> QED
    BY <2>1, <2>2, <2>3, OneTimer, TimersStay
<1>4. ASSUME NEW type \in {"expired", "deleterequest"}, HandleDeletion(type)
      PROVE  CustodyTimersHeld'
  <2>1. Ev.b \in Bundles
    BY <1>4, HandledEvent, EventShape DEF HandleDeletion
  <2> QED
    BY <1>4, <2>1, DeletionStopsTimers DEF HandleDeletion
<1>5. CASE HandleCustodySignal
  <2>1. \/ UNCHANGED <<local, ctimer>>
        \/ \E b \in custody : ReleaseCustody(b)
    BY <1>5 DEF HandleCustodySignal
  <2>2. custody \subseteq Bundles
    BY DEF TypeOK, BundleTypes
  <2> QED
    BY <2>1, <2>2, TimersStay, ReleaseStopsTimers
<1> QED
  BY <1>1, <1>2, <1>3, <1>4, <1>5 DEF HandleEvent, HandleExpired, HandleDeleteRequest

LEMMA TimersHoldTimers ==
    ASSUME TypeOK, CustodyTimersHeld, Timers PROVE CustodyTimersHeld'
<1>1. ASSUME NEW b \in Bundles, NEW l \in Links, CustodyTimer(b, l) \/ CancelledTimer(b, l)
      PROVE  CustodyTimersHeld'
  <2>1. /\ UNCHANGED local
        /\ \/ /\ ctimer[b][l] = "pending"
              /\ ctimer' = [ctimer EXCEPT ![b][l] = "fired"]
           \/ ctimer' = [ctimer EXCEPT ![b][l] = "none"]
    BY <1>1 DEF CustodyTimer, CancelledTimer
  <2>2. "pending" \in Running /\ "none" \notin Running
    BY DEF Running
  <2> QED
    BY <2>1, <2>2, OneTimer
<1>2. CASE UNCHANGED <<local, ctimer>>
  BY <1>2, TimersStay
<1> QED
  BY <1>1, <1>2 DEF Timers, ExpirationTimer, RerouteTimer, bundleVars

LEMMA NextHoldsTimers == TypeOK /\ CustodyTimersHeld /\ [Next]_vars => CustodyTimersHeld'
<1> SUFFICES ASSUME TypeOK, CustodyTimersHeld, [Next]_vars PROVE CustodyTimersHeld'
  OBVIOUS
<1>1. CASE Continue
  <2>1. UNCHANGED ctimer /\ local \subseteq local'
    BY <1>1, TryToDeleteKeepsCustody
    DEF Continue, RouteBundle, ForwardBundle, CheckNextHop, DrainDeferred, CancelBundle,
        Requeue, CloseContact, LoadBundle, LoadExpired, LoadDone, bundleVars
  <2> QED
    BY <2>1, TimersStay
<1>2. ASSUME NEW b \in Bundles, Free(b) PROVE CustodyTimersHeld'
  BY <1>2, TimersStay DEF Free
<1>3. ASSUME NEW l \in Links, Connection(l) PROVE CustodyTimersHeld'
  <2>1. UNCHANGED <<local, ctimer>>
    BY <1>3 DEF Connection, ConnectionUp, AcceptConnection, StartNextBundle, SendSegment,
                AckBundle, CancelCommand, BreakContact, BreakCommand, bundleVars
  <2> QED
    BY <2>1, TimersStay
<1>4. CASE Environment
  <2>1. CASE Crash
    BY <2>1 DEF Crash, CustodyTimersHeld
  <2>2. CASE UNCHANGED <<local, ctimer>>
    BY <2>2, TimersStay
  <2> QED
    BY <1>4, <2>1, <2>2 DEF Environment, Arrive, CancelRequest, CustodySignal, CancelSend,
                            CloseRequest, OpenRequest, bundleVars
<1>5. CASE UNCHANGED vars
  BY <1>5, TimersStay DEF vars, bundleVars
<1> QED
  BY <1>1, <1>2, <1>3, <1>4, <1>5, HandlersHoldTimers, TimersHoldTimers DEF Next

\* A custody timer that is scheduled, or has fired and is still to be handled,
\* belongs to a bundle in custody: whatever releases custody cancels the timers
\* first, and none is started for a bundle that is out of custody.
THEOREM CustodyTimersAreHeld == Spec => []CustodyTimersHeld
<1>1. Init => CustodyTimersHeld
  BY DEF Init, CustodyTimersHeld
<1> QED
  BY <1>1, NextHoldsTimers, TypeCorrect, PTL DEF Spec

-----------------------------------------------------------------------------
(* Expiration timers.                                                      *)

\* Every bundle that is pending after the step was pending and keeps its timer,
\* has its timer now, or has its expired event in the queue.
LEMMA ArmedStep ==
    ASSUME ExpiryArmed, ExpiredKept(eventq, eventq'), expTimer' \subseteq pending',
           \A b \in pending' :
              \/ b \in pending /\ (b \in expTimer => b \in expTimer')
              \/ b \in expTimer'
              \/ BundleEvent("expired", b, NoLink) \in ToSet(eventq')
    PROVE  ExpiryArmed'
<1>1. ASSUME NEW b \in pending', b \notin expTimer'
      PROVE  \E e \in ToSet(eventq') : e.type = "expired" /\ e.b = b
  <2>1. CASE b \in pending /\ b \notin expTimer
    <3>1. \E e \in ToSet(eventq) : e.type = "expired" /\ e.b = b
      BY <2>1 DEF ExpiryArmed, Queued
    <3> QED
      BY <3>1 DEF ExpiredKept
  <2>2. CASE BundleEvent("expired", b, NoLink) \in ToSet(eventq')
    BY <2>2 DEF BundleEvent
  <2> QED
    BY <1>1, <2>1, <2>2
<1> QED
  BY <1>1 DEF ExpiryArmed, Queued

LEMMA ArmedUnchanged ==
    ASSUME ExpiryArmed, ExpiredKept(eventq, eventq'), UNCHANGED <<pending, expTimer>>
    PROVE  ExpiryArmed'
BY ArmedStep DEF ExpiryArmed

LEMMA DeletedIsDisarmed ==
    ASSUME ExpiryArmed, NEW b, DeleteBundle(b),
           \A e \in ToSet(eventq) : e.type = "expired" /\ e.b # b => e \in ToSet(eventq')
    PROVE  ExpiryArmed'
BY DEF DeleteBundle, ExpiryArmed, Queued

LEMMA HandlersArm ==
    ASSUME IInv, TypeOK', ExpiryArmed, HandleEvent PROVE ExpiryArmed'
<1>1. CASE \/ DiscardDuplicate \/ HandleTransmitted \/ HandleSendCancelled
           \/ HandleCancelSend \/ HandleCustodyTimeout \/ HandleContactUp
           \/ HandleContactDown \/ HandleClosed \/ HandleOpen
  <2>1. UNCHANGED <<pending, expTimer>>
    BY <1>1 DEF DiscardDuplicate, HandleTransmitted, HandleSendCancelled, HandleCancelSend,
                HandleCustodyTimeout, HandleContactUp, HandleContactDown, HandleClosed,
                HandleOpen, bundleVars
  <2>2. ExpiredKept(eventq, eventq')
    BY <1>1, QuietHandlers DEF QueueKept
  <2> QED
    BY <2>1, <2>2, ArmedUnchanged
<1>2. CASE ReceiveExpired
  <2>1. BundleEvent("expired", Ev.b, NoLink).type # "received"
    BY DEF BundleEvent
  <2>2. /\ ExpiredKept(eventq, eventq')
        /\ BundleEvent("expired", Ev.b, NoLink) \in ToSet(eventq')
    BY <1>2, <2>1, ReceptionOf DEF ReceiveExpired
  <2>3. pending' = pending \cup {Ev.b} /\ expTimer' = expTimer
    BY <1>2 DEF ReceiveExpired
  <2>4. expTimer' \subseteq pending'
    BY <2>3 DEF ExpiryArmed
  <2> QED
    BY <2>2, <2>3, <2>4, ArmedStep
<1>3. CASE ReceiveBundle
  <2>1. BundleEvent("deleterequest", Ev.b, NoLink).type # "received"
    BY DEF BundleEvent
  <2>2. ExpiredKept(eventq, eventq')
    BY <1>3, <2>1, ReceptionOf DEF ReceiveBundle
  <2>3. pending' = pending \cup {Ev.b} /\ expTimer' = expTimer \cup {Ev.b}
    BY <1>3 DEF ReceiveBundle
  <2>4. expTimer' \subseteq pending'
    BY <2>3 DEF ExpiryArmed
  <2> QED
    BY <2>2, <2>3, <2>4, ArmedStep
<1>4. ASSUME NEW type \in {"expired", "deleterequest"}, HandleDeletion(type)
      PROVE  ExpiryArmed'
  <2>1. /\ eventq \in Seq(Event) /\ eventq # <<>> /\ Ev = Head(eventq)
        /\ eventq' = Tail(eventq) /\ DeleteBundle(Ev.b)
    BY <1>4 DEF HandleDeletion, Handle, Done, Ev, IInv, TypeOK, DaemonTypes
  <2>2. ASSUME NEW e \in ToSet(eventq), e # Ev PROVE e \in ToSet(eventq')
    <3>1. PICK i \in 1..Len(eventq) : eventq[i] = e
      BY <2>1 DEF ToSet
    <3>2. i - 1 \in 1..Len(eventq') /\ eventq'[i - 1] = e /\ DOMAIN eventq' = 1..Len(eventq')
      BY <2>1, <2>2, <3>1
    <3> QED
      BY <3>2 DEF ToSet
  <2> QED
    BY <2>1, <2>2, DeletedIsDisarmed
<1>5. CASE HandleCustodySignal
  <2>1. ExpiredKept(eventq, eventq') /\ UNCHANGED <<pending, expTimer>>
    BY <1>5, QueueDone DEF HandleCustodySignal, QueueKept
  <2> QED
    BY <2>1, ArmedUnchanged
<1> QED
  BY <1>1, <1>2, <1>3, <1>4, <1>5 DEF HandleEvent, HandleExpired, HandleDeleteRequest

LEMMA ContinueArms ==
    ASSUME IInv, TypeOK', ExpiryArmed, Continue PROVE ExpiryArmed'
<1>1. CASE \/ RouteBundle \/ ForwardBundle \/ CheckNextHop \/ DrainDeferred \/ CancelBundle
           \/ Requeue \/ CloseContact \/ LoadDone
  <2>1. UNCHANGED <<pending, expTimer>>
    BY <1>1 DEF RouteBundle, ForwardBundle, CheckNextHop, DrainDeferred, CancelBundle,
                Requeue, CloseContact, LoadDone, bundleVars
  <2>2. ExpiredKept(eventq, eventq')
    BY <1>1, QuietSteps DEF QueueKept
  <2> QED
    BY <2>1, <2>2, ArmedUnchanged
<1>2. CASE TryToDelete
  <2>1. UNCHANGED eventq
    BY <1>2 DEF TryToDelete
  <2>2. CASE DeleteBundle(Now.b)
    BY <2>1, <2>2, DeletedIsDisarmed
  <2>3. CASE UNCHANGED <<pending, expTimer>>
    BY <2>1, <2>3, ArmedUnchanged DEF ExpiredKept
  <2> QED
    BY <1>2, <2>2, <2>3 DEF TryToDelete
<1>3. CASE LoadBundle
  <2>1. PICK b \in Bundles :
           /\ \/ UNCHANGED <<pending, expTimer>>
              \/ pending' = pending \cup {b} /\ expTimer' = expTimer \cup {b}
           /\ \/ eventq' = <<BundleEvent("deleterequest", b, NoLink)>> \o eventq
              \/ UNCHANGED eventq
    BY <1>3 DEF LoadBundle
  <2>2. BundleEvent("deleterequest", b, NoLink).type # "received"
    BY DEF BundleEvent
  <2>3. ExpiredKept(eventq, eventq')
    BY <2>1, <2>2, QueueUnchanged, QueuePosted DEF QueueKept
  <2>4. expTimer' \subseteq pending'
    BY <2>1 DEF ExpiryArmed
  <2> QED
    BY <2>1, <2>3, <2>4, ArmedStep
<1>4. CASE LoadExpired
  <2>1. PICK b \in Bundles :
           /\ pending' = pending \cup {b} /\ UNCHANGED expTimer
           /\ eventq' = <<BundleEvent("expired", b, NoLink)>> \o eventq
    BY <1>4 DEF LoadExpired
  <2>2. BundleEvent("expired", b, NoLink).type # "received"
    BY DEF BundleEvent
  <2>3. /\ ExpiredKept(eventq, eventq')
        /\ BundleEvent("expired", b, NoLink) \in ToSet(eventq')
    BY <2>1, <2>2, QueuePosted DEF QueueKept
  <2>4. expTimer' \subseteq pending'
    BY <2>1 DEF ExpiryArmed
  <2> QED
    BY <2>1, <2>3, <2>4, ArmedStep
<1> QED
  BY <1>1, <1>2, <1>3, <1>4 DEF Continue

LEMMA TimersArm ==
    ASSUME IInv, TypeOK', ExpiryArmed, Timers PROVE ExpiryArmed'
<1>1. ExpiredKept(eventq, eventq')
  BY QuietTimers DEF QueueKept
<1>2. ASSUME NEW b \in Bundles, ExpirationTimer(b) PROVE ExpiryArmed'
  <2>1. /\ UNCHANGED pending /\ expTimer' = expTimer \ {b}
        /\ eventq' = <<BundleEvent("expired", b, NoLink)>> \o eventq
    BY <1>2 DEF ExpirationTimer
  <2>2. BundleEvent("expired", b, NoLink).type # "received"
    BY DEF BundleEvent
  <2>3. BundleEvent("expired", b, NoLink) \in ToSet(eventq')
    BY <2>1, <2>2, QueuePosted
  <2>4. expTimer' \subseteq pending'
    BY <2>1 DEF ExpiryArmed
  <2> QED
    BY <1>1, <2>1, <2>3, <2>4, ArmedStep
<1>3. CASE UNCHANGED <<pending, expTimer>>
  BY <1>1, <1>3, ArmedUnchanged
<1> QED
  BY <1>2, <1>3 DEF Timers, CustodyTimer, CancelledTimer, RerouteTimer, bundleVars

LEMMA EnvironmentArms ==
    ASSUME IInv, TypeOK', ExpiryArmed, Environment PROVE ExpiryArmed'
<1>1. CASE Crash
  BY <1>1 DEF Crash, ExpiryArmed
<1>2. ASSUME NEW b \in Bundles, NEW l, Arrive(b, l) PROVE ExpiryArmed'
  <2> DEFINE e == BundleEvent("received", b, l)
  <2>1. UNCHANGED <<pending, expTimer>> /\ eventq' = Append(eventq, e)
    BY <1>2 DEF Arrive, Post
  <2>2. eventq \in Seq(Event)
    BY DEF IInv, TypeOK, DaemonTypes
  <2> HIDE DEF e
  <2>3. /\ DOMAIN eventq \subseteq DOMAIN eventq'
        /\ \A i \in DOMAIN eventq : eventq'[i] = eventq[i]
    BY <2>1, <2>2
  <2>4. ExpiredKept(eventq, eventq')
    BY <2>3 DEF ExpiredKept, ToSet
  <2> QED
    BY <2>1, <2>4, ArmedUnchanged
<1>3. ASSUME NEW b, NEW l,
             \/ CancelRequest(b) \/ CustodySignal(b) \/ CancelSend(b, l)
             \/ CloseRequest(l) \/ OpenRequest(l)
      PROVE  ExpiryArmed'
  <2>1. UNCHANGED <<pending, expTimer>>
    BY <1>3 DEF CancelRequest, CustodySignal, CancelSend, CloseRequest, OpenRequest, bundleVars
  <2>2. ExpiredKept(eventq, eventq')
    BY <1>3, QuietRequests DEF QueueKept
  <2> QED
    BY <2>1, <2>2, ArmedUnchanged
<1> QED
  BY <1>1, <1>2, <1>3 DEF Environment

LEMMA NextArms == IInv /\ ExpiryArmed /\ [Next]_vars => ExpiryArmed'
<1> SUFFICES ASSUME IInv, ExpiryArmed, [Next]_vars PROVE ExpiryArmed'
  OBVIOUS
<1>1. TypeOK'
  BY NextType DEF IInv
<1>2. ASSUME NEW b \in Bundles, Free(b) PROVE ExpiryArmed'
  BY <1>2, ArmedUnchanged DEF Free, daemonVars, ExpiredKept
<1>3. ASSUME NEW l \in Links, Connection(l) PROVE ExpiryArmed'
  <2>1. UNCHANGED <<pending, expTimer>>
    BY <1>3 DEF Connection, ConnectionUp, AcceptConnection, StartNextBundle, SendSegment,
                AckBundle, CancelCommand, BreakContact, BreakCommand, bundleVars
  <2>2. ExpiredKept(eventq, eventq')
    BY <1>1, <1>3, QuietConnections DEF QueueKept
  <2> QED
    BY <2>1, <2>2, ArmedUnchanged
<1>4. CASE UNCHANGED vars
  BY <1>4, ArmedUnchanged DEF vars, bundleVars, daemonVars, ExpiredKept
<1> QED
  BY <1>1, <1>2, <1>3, <1>4, HandlersArm, ContinueArms, TimersArm, EnvironmentArms DEF Next

\* A pending bundle cannot outlive its lifetime unnoticed: its expiration timer
\* is scheduled or the event that will delete it is in the event queue, also
\* after a restart and for a bundle whose lifetime was over when it came; and
\* a bundle that is not pending has no timer left to fire.
THEOREM ExpiryIsArmed == Spec => []ExpiryArmed
<1>1. Init => ExpiryArmed
  BY DEF Init, ExpiryArmed
<1> QED
  BY <1>1, InitCoherent, NextCoherent, NextArms, PTL DEF Spec

-----------------------------------------------------------------------------
(* The data store, while suppress_duplicates_ is off: what keeps copies    *)
(* apart then is the check for a duplicate in custody alone.               *)

NoLoad(s) == \A c \in ToSet(s) : c.op # "load"

\* The load is at the top of the stack of calls, or over.
LoadFirst == calls # <<>> => NoLoad(Tail(calls))

StoredInCustodyOnce ==
    \A b, d \in Bundles :
        b # d /\ Key[b] = Key[d] => ~(store[b] = "custody" /\ store[d] = "custody")

SInv == IInv /\ LoadFirst /\ StoreHasObject /\ StoredInCustodyOnce

-----------------------------------------------------------------------------
(* The stack of calls.                                                     *)

LEMMA NoLoadSeq ==
    /\ NoLoad(<<>>)
    /\ \A c : c.op # "load" => NoLoad(<<c>>)
    /\ \A s \in Seq(Call) : s # <<>> => /\ NoLoad(s) => NoLoad(Tail(s))
                                        /\ Head(s).op # "load" /\ NoLoad(Tail(s)) => NoLoad(s)
    /\ \A s, t \in Seq(Call) : NoLoad(s) /\ NoLoad(t) => NoLoad(s \o t)
<1>1. NoLoad(<<>>)
  BY DEF NoLoad, ToSet
<1>2. \A c : c.op # "load" => NoLoad(<<c>>)
  BY DEF NoLoad, ToSet
<1>3. ASSUME NEW s \in Seq(Call), s # <<>>
      PROVE  /\ NoLoad(s) => NoLoad(Tail(s))
             /\ Head(s).op # "load" /\ NoLoad(Tail(s)) => NoLoad(s)
  <2>1. /\ Len(s) \in Nat /\ Len(Tail(s)) = Len(s) - 1 /\ Head(s) = s[1]
        /\ DOMAIN s = 1..Len(s) /\ DOMAIN Tail(s) = 1..(Len(s) - 1)
        /\ \A i \in 1..(Len(s) - 1) : Tail(s)[i] = s[i + 1]
    BY <1>3
  <2>2. NoLoad(s) => NoLoad(Tail(s))
    BY <2>1 DEF NoLoad, ToSet
  <2>3. ASSUME Head(s).op # "load", NoLoad(Tail(s)), NEW i \in 1..Len(s) PROVE s[i].op # "load"
    <3>1. CASE i = 1
      BY <2>1, <2>3, <3>1
    <3>2. CASE i # 1
      <4>1. i - 1 \in 1..(Len(s) - 1) /\ s[i] = Tail(s)[i - 1]
        BY <2>1, <3>2
      <4> QED
        BY <2>1, <2>3, <4>1 DEF NoLoad, ToSet
    <3> QED
      BY <3>1, <3>2
  <2> QED
    BY <2>1, <2>2, <2>3 DEF NoLoad, ToSet
<1>4. ASSUME NEW s \in Seq(Call), NEW t \in Seq(Call), NoLoad(s), NoLoad(t)
      PROVE  NoLoad(s \o t)
  <2>1. /\ Len(s) \in Nat /\ Len(t) \in Nat
        /\ DOMAIN s = 1..Len(s) /\ DOMAIN t = 1..Len(t)
        /\ DOMAIN (s \o t) = 1..(Len(s) + Len(t))
        /\ \A i \in 1..(Len(s) + Len(t)) :
              (s \o t)[i] = IF i <= Len(s) THEN s[i] ELSE t[i - Len(s)]
    BY <1>4
  <2>2. ASSUME NEW i \in 1..(Len(s) + Len(t)) PROVE (s \o t)[i].op # "load"
    <3>1. CASE i <= Len(s)
      BY <1>4, <2>1, <3>1 DEF NoLoad, ToSet
    <3>2. CASE ~(i <= Len(s))
      <4>1. i - Len(s) \in 1..Len(t)
        BY <2>1, <3>2
      <4> QED
        BY <1>4, <2>1, <3>2, <4>1 DEF NoLoad, ToSet
    <3> QED
      BY <3>1, <3>2
  <2> QED
    BY <2>1, <2>2 DEF NoLoad, ToSet
<1> QED
  BY <1>1, <1>2, <1>3, <1>4

LEMMA RouteCallsNoLoad == \A b : NoLoad(RouteCalls(b)) /\ NoLoad(CancelCalls(b))
BY LinksAssumption DEF NoLoad, ToSet, RouteCalls, CancelCalls, DoCall

\* A handler starts with an empty stack and leaves no load on it.
LEMMA HandlerCalls ==
    ASSUME TypeOK, TypeOK', HandleEvent
    PROVE  NoLoad(calls) /\ NoLoad(calls')
<1>1. ASSUME NEW type, Handle(type) PROVE calls = <<>>
  BY <1>1 DEF Handle, Idle
<1>2. calls = <<>>
  BY <1>1 DEF HandleEvent, DiscardDuplicate, ReceiveExpired, ReceiveBundle, HandleTransmitted,
              HandleSendCancelled, HandleExpired, HandleDeleteRequest, HandleDeletion,
              HandleCancelSend, HandleCustodySignal, HandleCustodyTimeout, HandleContactUp,
              HandleContactDown, HandleClosed, HandleOpen
<1>3. UNCHANGED calls => NoLoad(calls')
  BY <1>2, NoLoadSeq
<1>4. \A op, b, l : op # "load" => DoCall(op, b, l).op # "load"
  BY DEF DoCall
<1>5. \A b, l, m : /\ NoLoad(<<DoCall("trydelete", b, l)>>) /\ NoLoad(<<DoCall("cancel", b, l)>>)
                   /\ NoLoad(<<DoCall("check", b, l)>>) /\ NoLoad(<<DoCall("close", b, l)>>)
  BY <1>4, NoLoadSeq
<1>6. ASSUME ReceiveBundle PROVE NoLoad(calls')
  <2>1. Ev.b \in Bundles
    BY <1>6, HandledEvent, EventShape DEF ReceiveBundle
  <2>2. RouteCalls(Ev.b) \in Seq(Call) /\ <<DoCall("trydelete", Ev.b, NoLink)>> \in Seq(Call)
    BY <2>1, RouteCallsType, CallTypes
  <2>3. NoLoad(RouteCalls(Ev.b) \o <<DoCall("trydelete", Ev.b, NoLink)>>)
    BY <2>2, <1>5, RouteCallsNoLoad, NoLoadSeq
  <2> QED
    BY <1>5, <1>6, <2>3 DEF ReceiveBundle
<1>7. ASSUME HandleTransmitted PROVE NoLoad(calls')
  <2>1. calls' = <<DoCall("check", NoBundle, Ev.l), DoCall("trydelete", Ev.b, NoLink)>>
    BY <1>7 DEF HandleTransmitted
  <2> QED
    BY <2>1 DEF NoLoad, ToSet, DoCall
<1>8. ASSUME \/ HandleSendCancelled \/ HandleExpired \/ HandleDeleteRequest
             \/ HandleCustodyTimeout
      PROVE  NoLoad(calls')
  <2>1. calls' \in {<<>>, RouteCalls(Ev.b), CancelCalls(Ev.b)}
    BY <1>8 DEF HandleSendCancelled, RouteAgain, HandleExpired, HandleDeleteRequest,
                HandleDeletion, HandleCustodyTimeout
  <2> QED
    BY <2>1, RouteCallsNoLoad, NoLoadSeq
<1>9. ASSUME HandleCancelSend \/ HandleCustodySignal \/ HandleContactUp \/ HandleClosed
      PROVE  NoLoad(calls')
  <2>1. CASE HandleCancelSend
    BY <1>5, <2>1 DEF HandleCancelSend
  <2>2. CASE HandleCustodySignal
    <3>1. PICK b : UNCHANGED calls \/ calls' = <<DoCall("trydelete", b, NoLink)>>
      BY <2>2 DEF HandleCustodySignal
    <3> QED
      BY <1>5, <1>3, <3>1
  <2>3. CASE HandleContactUp
    BY <1>5, <2>3 DEF HandleContactUp
  <2>4. CASE HandleClosed
    <3>1. UNCHANGED calls \/ calls' = <<DoCall("close", NoBundle, Ev.l)>>
      BY <2>4 DEF HandleClosed
    <3> QED
      BY <1>5, <1>3, <3>1
  <2> QED
    BY <1>9, <2>1, <2>2, <2>3, <2>4
<1>10. ASSUME DiscardDuplicate \/ ReceiveExpired \/ HandleContactDown \/ HandleOpen
      PROVE  NoLoad(calls')
  <2>1. UNCHANGED calls
    BY <1>10 DEF DiscardDuplicate, ReceiveExpired, HandleContactDown, HandleOpen
  <2> QED
    BY <1>2, <2>1, NoLoadSeq
<1>11. NoLoad(calls')
  BY <1>6, <1>7, <1>8, <1>9, <1>10 DEF HandleEvent
<1> QED
  BY <1>2, <1>11, NoLoadSeq

\* So does a step that works off a call other than the load.
LEMMA StepCalls ==
    ASSUME TypeOK, TypeOK', LoadFirst,
           \/ RouteBundle \/ ForwardBundle \/ CheckNextHop \/ DrainDeferred \/ CancelBundle
           \/ TryToDelete \/ Requeue \/ CloseContact
    PROVE  NoLoad(calls) /\ NoLoad(calls')
<1>1. ASSUME NEW op, op # "load", Step(op) PROVE NoLoad(calls) /\ NoLoad(Tail(calls))
  <2>1. calls \in Seq(Call) /\ calls # <<>> /\ Head(calls).op # "load"
    BY <1>1 DEF Step, Idle, TypeOK, DaemonTypes
  <2> QED
    BY <2>1, NoLoadSeq DEF LoadFirst
<1>2. NoLoad(calls) /\ NoLoad(Tail(calls))
  BY <1>1 DEF RouteBundle, ForwardBundle, CheckNextHop, DrainDeferred, CancelBundle,
              TryToDelete, Requeue, CloseContact
<1>3. Tail(calls) \in Seq(Call) /\ calls \in Seq(Call)
  BY SteppedCall DEF RouteBundle, ForwardBundle, CheckNextHop, DrainDeferred, CancelBundle,
              TryToDelete, Requeue, CloseContact, TypeOK, DaemonTypes
<1>4. ASSUME NEW s \in Seq(Call), NoLoad(s), calls' = s \o Tail(calls) PROVE NoLoad(calls')
  BY <1>2, <1>3, <1>4, NoLoadSeq
<1>5. CASE RouteBundle
  <2>1. Now.b \in Bundles /\ Now.l \in Links
    BY <1>5, SteppedCall, CallShape DEF RouteBundle
  <2> DEFINE s == <<DoCall("check", NoBundle, Now.l), DoCall("forward", Now.b, Now.l)>>
  <2>2. s \in Seq(Call)
    BY <2>1, CallTypes
  <2>3. NoLoad(s)
    BY DEF NoLoad, ToSet, DoCall
  <2>4. calls' = s \o Tail(calls) \/ calls' = Tail(calls)
    BY <1>5 DEF RouteBundle
  <2> HIDE DEF s
  <2> QED
    BY <1>2, <1>4, <2>2, <2>3, <2>4
<1>6. ASSUME NEW b \in Bundles, NEW l \in Links,
             calls' = <<DoCall("drain", b, l)>> \o Tail(calls)
      PROVE  NoLoad(calls')
  <2>1. <<DoCall("drain", b, l)>> \in Seq(Call)
    BY CallTypes
  <2>2. NoLoad(<<DoCall("drain", b, l)>>)
    BY DEF NoLoad, ToSet, DoCall
  <2> QED
    BY <1>4, <1>6, <2>1, <2>2
<1>7. CASE CheckNextHop
  <2>1. Now.l \in Links
    BY <1>7, SteppedCall, CallShape DEF CheckNextHop
  <2>2. deferred[Now.l] # <<>> => Head(deferred[Now.l]) \in Bundles
    BY <2>1 DEF TypeOK, LinkTypes
  <2> QED
    BY <1>2, <1>6, <1>7, <2>1, <2>2 DEF CheckNextHop
<1>8. CASE DrainDeferred
  <2>1. Now.l \in Links /\ Now.b \in Bundles
    BY <1>8, SteppedCall, CallShape DEF DrainDeferred
  <2>2. After(Now.b, Now.l) \subseteq Bundles
    BY <2>1 DEF After, TypeOK, LinkTypes
  <2>3. After(Now.b, Now.l) # {} => (CHOOSE d \in After(Now.b, Now.l) : TRUE) \in Bundles
    BY <2>2
  <2>4. \/ calls' = Tail(calls)
        \/ /\ After(Now.b, Now.l) # {}
           /\ calls' = <<DoCall("drain", CHOOSE d \in After(Now.b, Now.l) : TRUE, Now.l)>>
                         \o Tail(calls)
    BY <1>8 DEF DrainDeferred, Return
  <2> QED
    BY <1>2, <1>6, <2>1, <2>3, <2>4
<1>9. CASE TryToDelete
  <2>1. Now.b \in Bundles
    BY <1>9, SteppedCall, CallShape DEF TryToDelete
  <2>2. CancelCalls(Now.b) \in Seq(Call) /\ NoLoad(CancelCalls(Now.b))
    BY <2>1, RouteCallsType, RouteCallsNoLoad
  <2> QED
    BY <1>2, <1>4, <1>9, <2>2 DEF TryToDelete, Return
<1>10. CASE ForwardBundle \/ CancelBundle \/ Requeue \/ CloseContact
  BY <1>2, <1>10 DEF ForwardBundle, CancelBundle, Requeue, CloseContact, Return, daemonVars
<1> QED
  BY <1>2, <1>5, <1>7, <1>8, <1>9, <1>10

-----------------------------------------------------------------------------
(* What a step does to the store.                                          *)

\* A step that stores nothing without its object, and that neither writes
\* custody nor drops a bundle whose record says so.
LEMMA StoreStep ==
    ASSUME SInv, IInv',
           (NoLoad(calls) /\ NoLoad(calls')) \/ UNCHANGED calls,
           \A b \in Bundles :
              /\ store'[b] # "absent" => b \in all' \/ (b \notin all /\ store[b] # "absent")
              /\ store'[b] = "custody" =>
                    store[b] = "custody" /\ (b \in all' \ pending' => b \in all \ pending)
    PROVE  SInv'
<1>1. LoadFirst'
  <2>1. calls' \in Seq(Call)
    BY DEF IInv, TypeOK, DaemonTypes
  <2>2. CASE NoLoad(calls')
    BY <2>1, <2>2, NoLoadSeq DEF LoadFirst
  <2>3. CASE UNCHANGED calls
    BY <2>3 DEF SInv, LoadFirst
  <2> QED
    BY <2>2, <2>3
<1>2. StoreHasObject'
  <2>1. NoLoad(calls') => NoLoad(calls)
    OBVIOUS
  <2>2. all' \subseteq Bundles
    BY DEF IInv, TypeOK, BundleTypes
  <2>3. ASSUME NoLoad(calls'), NEW b \in Bundles, store'[b] # "absent" PROVE b \in all'
    BY <2>1, <2>3 DEF SInv, StoreHasObject, NoLoad
  <2>4. ASSUME NEW b \in all' \ pending' PROVE store'[b] # "custody"
    BY <2>2 DEF SInv, StoreHasObject
  <2> QED
    BY <2>3, <2>4 DEF StoreHasObject, NoLoad
<1>3. StoredInCustodyOnce'
  BY DEF SInv, StoredInCustodyOnce
<1> QED
  BY <1>1, <1>2, <1>3 DEF SInv

LEMMA StoreQuiet ==
    ASSUME SInv, IInv', (NoLoad(calls) /\ NoLoad(calls')) \/ UNCHANGED calls,
           UNCHANGED <<all, pending, store>>
    PROVE  SInv'
BY StoreStep

\* The record of a bundle that leaves the pending list does not say custody.
LEMMA DeletedStore ==
    ASSUME SInv, IInv', (NoLoad(calls) /\ NoLoad(calls')) \/ UNCHANGED calls,
           NEW b \in Bundles, DeleteBundle(b), UNCHANGED all
    PROVE  SInv'
<1>1. /\ TypeOK /\ CustodyCoherent
  BY DEF SInv, IInv
<1>2. /\ pending' = pending \ {b}
      /\ \A d \in Bundles : store'[d] = IF d = b /\ b \in local THEN "plain" ELSE store[d]
  BY <1>1 DEF DeleteBundle, ReleaseCustody, TypeOK, BundleTypes
<1>3. b \in local => b \in all
  BY <1>1 DEF CustodyCoherent
<1>4. b \in pending /\ b \notin local => store[b] # "custody"
  BY <1>1 DEF CustodyCoherent
<1> QED
  BY <1>2, <1>3, <1>4, StoreStep

\* Custody is accepted of a bundle when no record of another copy says custody:
\* that copy would have its object, be pending, and be found.
LEMMA AcceptedOnce ==
    ASSUME SInv, Idle, NEW b \in Bundles, ~DuplicateInCustody(b),
           NEW d \in Bundles, d # b, Key[d] = Key[b]
    PROVE  store[d] # "custody"
<1>1. SUFFICES ASSUME store[d] = "custody" PROVE FALSE
  OBVIOUS
<1>2. NoLoad(calls)
  BY NoLoadSeq DEF Idle
<1>3. d \in all
  BY <1>1, <1>2 DEF SInv, StoreHasObject, NoLoad
<1>4. d \in pending
  BY <1>1, <1>3 DEF SInv, StoreHasObject
<1>5. d \in local
  BY <1>1, <1>4 DEF SInv, IInv, CustodyCoherent
<1> QED
  BY <1>4, <1>5 DEF DuplicateInCustody, Duplicates

LEMMA ReceptionStore ==
    ASSUME SInv, IInv', ReceiveExpired \/ ReceiveBundle
    PROVE  SInv'
<1>1. TypeOK /\ TypeOK' /\ HandleEvent /\ Handle("received") /\ Idle
  BY DEF SInv, IInv, HandleEvent, ReceiveExpired, ReceiveBundle, Handle
<1>2. NoLoad(calls) /\ NoLoad(calls')
  BY <1>1, HandlerCalls
<1>3. Ev.b \in Bundles /\ Ev.b \in all
  BY <1>1, ReceptionOf DEF SInv
<1>4. UNCHANGED all /\ pending' = pending \cup {Ev.b}
  BY DEF ReceiveExpired, ReceiveBundle
<1>5. CASE store' = [store EXCEPT ![Ev.b] = "plain"]
  <2>1. \A d \in Bundles : store'[d] = IF d = Ev.b THEN "plain" ELSE store[d]
    BY <1>1, <1>5 DEF TypeOK, BundleTypes
  <2> QED
    BY <1>2, <1>3, <1>4, <2>1, StoreStep
<1>6. CASE store' = [store EXCEPT ![Ev.b] = "custody"] /\ ~DuplicateInCustody(Ev.b)
  <2>1. \A d \in Bundles : store'[d] = IF d = Ev.b THEN "custody" ELSE store[d]
    BY <1>1, <1>6 DEF TypeOK, BundleTypes
  <2>2. LoadFirst'
    BY <1>1, <1>2, NoLoadSeq DEF LoadFirst, TypeOK, DaemonTypes
  <2>3. StoreHasObject'
    BY <1>1, <1>2, <1>3, <1>4, <2>1 DEF SInv, StoreHasObject, NoLoad, TypeOK, BundleTypes
  <2>4. StoredInCustodyOnce'
    BY <1>1, <1>3, <1>6, <2>1, AcceptedOnce DEF SInv, StoredInCustodyOnce
  <2> QED
    BY <2>2, <2>3, <2>4 DEF SInv
<1> QED
  BY <1>5, <1>6 DEF ReceiveExpired, ReceiveBundle

LEMMA HandlersStore ==
    ASSUME SInv, IInv', HandleEvent PROVE SInv'
<1>1. TypeOK /\ TypeOK' /\ CustodyCoherent
  BY DEF SInv, IInv
<1>2. NoLoad(calls) /\ NoLoad(calls')
  BY <1>1, HandlerCalls
<1>3. CASE \/ DiscardDuplicate \/ HandleTransmitted \/ HandleSendCancelled
           \/ HandleCancelSend \/ HandleCustodyTimeout \/ HandleContactUp
           \/ HandleContactDown \/ HandleClosed \/ HandleOpen
  <2>1. UNCHANGED <<all, pending, store>>
    BY <1>3 DEF DiscardDuplicate, HandleTransmitted, HandleSendCancelled, HandleCancelSend,
                HandleCustodyTimeout, HandleContactUp, HandleContactDown, HandleClosed,
                HandleOpen, bundleVars
  <2> QED
    BY <1>2, <2>1, StoreQuiet
<1>4. ASSUME NEW type \in {"expired", "deleterequest"}, HandleDeletion(type) PROVE SInv'
  <2>1. Ev.b \in Bundles
    BY <1>1, <1>4, HandledEvent, EventShape DEF HandleDeletion
  <2>2. DeleteBundle(Ev.b) /\ UNCHANGED all
    BY <1>4 DEF HandleDeletion
  <2> QED
    BY <1>2, <2>1, <2>2, DeletedStore
<1>5. CASE HandleCustodySignal
  <2>1. UNCHANGED <<all, pending>>
    BY <1>5 DEF HandleCustodySignal
  <2>2. CASE UNCHANGED store
    BY <1>2, <2>1, <2>2, StoreQuiet
  <2>3. ASSUME NEW b \in custody, ReleaseCustody(b) PROVE SInv'
    <3>1. b \in Bundles /\ b \in all
      BY <1>1 DEF CustodyCoherent, TypeOK, BundleTypes
    <3>2. \A d \in Bundles : store'[d] = IF d = b THEN "plain" ELSE store[d]
      BY <1>1, <2>3 DEF ReleaseCustody, TypeOK, BundleTypes
    <3> QED
      BY <1>2, <2>1, <3>1, <3>2, StoreStep
  <2> QED
    BY <1>5, <2>2, <2>3 DEF HandleCustodySignal
<1> QED
  BY <1>3, <1>4, <1>5, ReceptionStore DEF HandleEvent, HandleExpired, HandleDeleteRequest

-----------------------------------------------------------------------------
(* The load.                                                               *)

\* A copy that the load discards, because another one is pending in custody, is
\* not in custody itself.
LEMMA SuppressedIsPlain ==
    ASSUME SInv, ~SuppressDuplicates, NEW b \in Bundles \ all, Suppressed(b)
    PROVE  store[b] # "custody"
<1>1. PICK d \in pending \cap local : Key[d] = Key[b]
  BY DEF Suppressed, DuplicateInCustody, Duplicates
<1>2. d \in Bundles /\ d # b /\ store[d] = "custody"
  BY <1>1 DEF SInv, IInv, CustodyCoherent, TypeOK, BundleTypes
<1> QED
  BY <1>1, <1>2 DEF SInv, StoredInCustodyOnce

LEMMA LoadBundleStore ==
    ASSUME SInv, IInv', ~SuppressDuplicates, LoadBundle
    PROVE  SInv'
<1>1. /\ calls \in Seq(Call) /\ calls' \in Seq(Call)
      /\ calls # <<>> /\ Head(calls).op = "load" /\ NoLoad(Tail(calls))
  BY DEF SInv, IInv, TypeOK, DaemonTypes, LoadBundle, Idle, LoadFirst
<1>2. PICK b \in Bundles \ all :
        /\ all' = all \cup {b}
        /\ Suppressed(b) \/ pending' = pending \cup {b}
        /\ Suppressed(b) => UNCHANGED pending
        /\ UNCHANGED calls \/ calls' = calls \o RouteCalls(b)
  BY DEF LoadBundle
<1>3. UNCHANGED store
  BY DEF LoadBundle
<1>4. LoadFirst' /\ ~NoLoad(calls')
  <2>1. CASE UNCHANGED calls
    <3>1. Head(calls) \in ToSet(calls)
      BY <1>1 DEF ToSet
    <3> QED
      BY <1>1, <2>1, <3>1 DEF LoadFirst, NoLoad
  <2>2. CASE calls' = calls \o RouteCalls(b)
    <3>1. RouteCalls(b) \in Seq(Call) /\ NoLoad(RouteCalls(b))
      BY <1>2, RouteCallsType, RouteCallsNoLoad
    <3>2. /\ Tail(calls') = Tail(calls) \o RouteCalls(b) /\ Tail(calls) \in Seq(Call)
          /\ calls' # <<>> /\ Head(calls') = Head(calls)
      BY <1>1, <2>2, <3>1
    <3>3. NoLoad(Tail(calls'))
      <4>1. NoLoad(Tail(calls) \o RouteCalls(b))
        BY <1>1, <3>1, <3>2, NoLoadSeq
      <4> QED
        BY <3>2, <4>1
    <3>4. Head(calls') \in ToSet(calls')
      BY <1>1, <3>2 DEF ToSet
    <3> QED
      BY <1>1, <3>2, <3>3, <3>4 DEF LoadFirst, NoLoad
  <2> QED
    BY <1>2, <2>1, <2>2
<1>5. StoreHasObject'
  <2>1. Suppressed(b) => store[b] # "custody"
    BY SuppressedIsPlain
  <2> QED
    BY <1>2, <1>3, <1>4, <2>1 DEF SInv, StoreHasObject, NoLoad
<1>6. StoredInCustodyOnce'
  BY <1>3 DEF SInv, StoredInCustodyOnce
<1> QED
  BY <1>4, <1>5, <1>6 DEF SInv

LEMMA LoadExpiredStore ==
    ASSUME SInv, IInv', LoadExpired
    PROVE  SInv'
<1>1. PICK b \in Bundles \ all : all' = all \cup {b} /\ pending' = pending \cup {b}
  BY DEF LoadExpired
<1>2. UNCHANGED <<store, calls>>
  BY DEF LoadExpired
<1> QED
  BY <1>1, <1>2, StoreStep

LEMMA LoadDoneStore ==
    ASSUME SInv, IInv', LoadDone
    PROVE  SInv'
<1>1. /\ calls' \in Seq(Call) /\ NoLoad(calls')
      /\ UNCHANGED <<all, pending, store>>
      /\ \A b \in Bundles \ all : store[b] = "absent"
  BY DEF SInv, IInv, TypeOK, DaemonTypes, LoadDone, Idle, LoadFirst, bundleVars
<1>2. LoadFirst'
  BY <1>1, NoLoadSeq DEF LoadFirst
<1>3. StoreHasObject'
  BY <1>1 DEF SInv, StoreHasObject
<1>4. StoredInCustodyOnce'
  BY <1>1 DEF SInv, StoredInCustodyOnce
<1> QED
  BY <1>2, <1>3, <1>4 DEF SInv

LEMMA CrashStore ==
    ASSUME SInv, IInv', Crash
    PROVE  SInv'
<1>1. /\ calls' = <<DoCall("load", NoBundle, NoLink)>> /\ all' = {}
      /\ UNCHANGED store
  BY DEF Crash
<1>2. Tail(calls') = <<>> /\ DoCall("load", NoBundle, NoLink) \in ToSet(calls')
  BY <1>1 DEF ToSet
<1>3. LoadFirst'
  BY <1>2, NoLoadSeq DEF LoadFirst
<1>4. StoreHasObject'
  BY <1>1, <1>2 DEF StoreHasObject, DoCall
<1>5. StoredInCustodyOnce'
  BY <1>1 DEF SInv, StoredInCustodyOnce
<1> QED
  BY <1>3, <1>4, <1>5 DEF SInv

-----------------------------------------------------------------------------
(* Every step.                                                             *)

LEMMA ContinueStore ==
    ASSUME SInv, IInv', ~SuppressDuplicates, Continue
    PROVE  SInv'
<1>1. TypeOK /\ TypeOK' /\ LoadFirst
  BY DEF SInv, IInv
<1>2. CASE \/ RouteBundle \/ ForwardBundle \/ CheckNextHop \/ DrainDeferred
           \/ CancelBundle \/ Requeue \/ CloseContact
  <2>1. UNCHANGED <<all, pending, store>>
    BY <1>2 DEF RouteBundle, ForwardBundle, CheckNextHop, DrainDeferred, CancelBundle,
                Requeue, CloseContact, bundleVars
  <2> QED
    BY <1>1, <1>2, <2>1, StepCalls, StoreQuiet
<1>3. CASE TryToDelete
  <2>1. Now.b \in Bundles
    BY <1>1, <1>3, SteppedCall, CallShape DEF TryToDelete
  <2>2. NoLoad(calls) /\ NoLoad(calls')
    BY <1>1, <1>3, StepCalls
  <2>3. /\ UNCHANGED all
        /\ DeleteBundle(Now.b) \/ UNCHANGED <<pending, store>>
    BY <1>3 DEF TryToDelete
  <2> QED
    BY <2>1, <2>2, <2>3, DeletedStore, StoreQuiet
<1> QED
  BY <1>2, <1>3, LoadBundleStore, LoadExpiredStore, LoadDoneStore DEF Continue

LEMMA NextStore ==
    ASSUME ~SuppressDuplicates, SInv, [Next]_vars
    PROVE  SInv'
<1>1. IInv'
  BY NextCoherent DEF SInv
<1>2. ASSUME NEW b \in Bundles, Free(b) PROVE SInv'
  <2>1. all' = all \ {b} /\ UNCHANGED <<pending, calls>>
    BY <1>2 DEF Free, daemonVars
  <2>2. \A d \in Bundles : store'[d] = IF d = b THEN "absent" ELSE store[d]
    BY <1>2 DEF Free, StoreDel, SInv, IInv, TypeOK, BundleTypes
  <2> QED
    BY <1>1, <2>1, <2>2, StoreStep
<1>3. CASE UNCHANGED <<all, pending, store, calls>>
  BY <1>1, <1>3, StoreQuiet
<1>4. CASE Timers
  BY <1>3, <1>4 DEF Timers, ExpirationTimer, CustodyTimer, CancelledTimer, RerouteTimer,
                    bundleVars, daemonVars
<1>5. ASSUME NEW l \in Links, Connection(l) PROVE SInv'
  BY <1>3, <1>5 DEF Connection, ConnectionUp, AcceptConnection, StartNextBundle, SendSegment,
                    AckBundle, CancelCommand, BreakContact, BreakCommand, bundleVars,
                    daemonVars
<1>6. ASSUME NEW b \in Bundles, NEW l, Arrive(b, l) PROVE SInv'
  <2>1. store[b] = "absent"
    BY <1>6 DEF Arrive, SInv, IInv, ArrivedFirst
  <2>2. all' = all \cup {b} /\ UNCHANGED <<pending, store, calls>>
    BY <1>6 DEF Arrive
  <2> QED
    BY <1>1, <2>1, <2>2, StoreStep
<1>7. ASSUME NEW b, NEW l,
             \/ CancelRequest(b) \/ CustodySignal(b) \/ CancelSend(b, l)
             \/ CloseRequest(l) \/ OpenRequest(l)
      PROVE  SInv'
  BY <1>3, <1>7 DEF CancelRequest, CustodySignal, CancelSend, CloseRequest, OpenRequest,
                    bundleVars
<1>8. CASE Environment
  BY <1>1, <1>6, <1>7, <1>8, CrashStore DEF Environment
<1>9. CASE UNCHANGED vars
  BY <1>3, <1>9 DEF vars, bundleVars, daemonVars
<1> QED
  BY <1>1, <1>2, <1>4, <1>5, <1>8, <1>9, HandlersStore, ContinueStore DEF Next

LEMMA InitStore == Init => SInv
<1> SUFFICES ASSUME Init PROVE SInv
  OBVIOUS
<1>1. IInv
  BY InitCoherent
<1>2. LoadFirst /\ StoreHasObject /\ StoredInCustodyOnce
  BY DEF Init, LoadFirst, StoreHasObject, StoredInCustodyOnce
<1> QED
  BY <1>1, <1>2 DEF SInv

\* With suppress_duplicates_ off, whatever copies of a bundle arrive and whenever
\* the daemon stops: once load_bundles is done, each record has its object, whose
\* end removes it, and no record that says custody belongs to a bundle that was
\* dropped.
THEOREM StoreKeepsNoOrphan ==
    ASSUME ~SuppressDuplicates
    PROVE  Spec => []StoreHasObject
<1>1. SInv => StoreHasObject
  BY DEF SInv
<1>2. SInv /\ [Next]_vars => SInv'
  BY NextStore
<1> QED
  BY <1>1, <1>2, InitStore, PTL DEF Spec

\* And the node is custodian of one copy only, in memory and in the store, so
\* that handle_custody_signal, which releases the first match, releases it.
THEOREM CustodyOfOneCopy ==
    ASSUME ~SuppressDuplicates
    PROVE  Spec => []OneCustodyPerIdentity
<1>1. SInv => OneCustodyPerIdentity
  BY DEF SInv, IInv, CustodyCoherent, StoredInCustodyOnce, OneCustodyPerIdentity
<1>2. SInv /\ [Next]_vars => SInv'
  BY NextStore
<1> QED
  BY <1>1, <1>2, InitStore, PTL DEF Spec

-----------------------------------------------------------------------------
(* What the daemon has not looked at yet.                                  *)

\* The bundle does not exist, or its received event is in the queue.
Fresh(b) == b \notin all \/ \E e \in Queued("received") : e.b = b

Unlogged(b) ==
    \A l \in Links : fwd[b][l] = "none" /\ ctimer[b][l] = "none" /\ <<b, l>> \notin blocks

Unlisted(b) ==
    \A l \in Links : /\ b \notin ToSet(queue[l]) /\ b \notin inflight[l]
                     /\ b \notin ToSet(deferred[l])
                     /\ b \notin ToSet(sending[l]) /\ b \notin ToSet(cmds[l])

\* No list of the daemon, no call and no event that a handler posts is about b.
Unnamed(b) ==
    /\ b \notin pending \cup custody \cup expTimer
    /\ \A c \in ToSet(calls) : c.b # b
    /\ \A e \in ToSet(eventq) : e.b = b => e.type \in {"received", "custodysignal"}

Untouched(b) == Unlogged(b) /\ Unlisted(b) /\ Unnamed(b)

FreshUntouched == \A b \in Bundles : Fresh(b) => Untouched(b)

LEMMA InitFresh == Init => FreshUntouched
BY ElementsOfEmpty
DEF Init, FreshUntouched, Untouched, Unlogged, Unlisted, Unnamed

\* The handler that takes a received event takes the only one about its bundle,
\* and the others are about bundles that have been received.
LEMMA HandledOther ==
    ASSUME IInv, TypeOK', HandleEvent, FreshUntouched, NEW b \in Bundles, Fresh(b)'
    PROVE  /\ Untouched(b)
           /\ Ev.b = b => HandleCustodySignal
           /\ \A e \in ToSet(eventq') : \/ e \in ToSet(eventq)
                                        \/ e.b = NoBundle
                                        \/ e.b = Ev.b /\ Ev.type = "received"
<1>1. /\ eventq \in Seq(Event) /\ eventq # <<>> /\ Ev = Head(eventq) /\ Tail(eventq) \in Seq(Event)
      /\ ToSet(eventq) = {Ev} \cup ToSet(Tail(eventq)) /\ UNCHANGED all
  <2>1. UNCHANGED all
    BY DEF HandleEvent, DiscardDuplicate, ReceiveExpired, ReceiveBundle, HandleTransmitted,
           HandleSendCancelled, HandleExpired, HandleDeleteRequest, HandleDeletion,
           HandleCancelSend, HandleCustodySignal, HandleCustodyTimeout, HandleContactUp,
           HandleContactDown, HandleClosed, HandleOpen, bundleVars
  <2> QED
    BY <2>1, HandlerEvents, ElementsOfTail DEF IInv, TypeOK, DaemonTypes
<1>2. PICK t \in Seq(Event) : t = Tail(eventq)
  BY <1>1
<1>3. \A e \in ToSet(eventq') : \/ e \in ToSet(t)
                                \/ e.b = NoBundle /\ e.type = "contactdown"
                                \/ /\ e.b = Ev.b /\ Ev.type = "received"
                                   /\ e.type \in {"expired", "deleterequest"}
  <2>1. \/ Done
        \/ /\ Ev.type = "received"
           /\ \/ DoneAfter(BundleEvent("expired", Ev.b, NoLink))
              \/ DoneAfter(BundleEvent("deleterequest", Ev.b, NoLink))
        \/ DoneAfter(ContactEvent("contactdown", Ev.l, Ev.c, Ev.why))
    BY DEF HandleEvent, DiscardDuplicate, ReceiveExpired, ReceiveBundle, HandleTransmitted,
           HandleSendCancelled, HandleExpired, HandleDeleteRequest, HandleDeletion,
           HandleCancelSend, HandleCustodySignal, HandleCustodyTimeout, HandleContactUp,
           HandleContactDown, HandleClosed, HandleOpen, Handle, Ev
  <2>2. ASSUME NEW x, DoneAfter(x) PROVE \A e \in ToSet(eventq') : e \in ToSet(t) \/ e = x
    <3> DEFINE s == <<x>>
    <3>1. eventq' = s \o t
      BY <1>2, <2>2 DEF DoneAfter
    <3>2. \A i \in 1..Len(eventq') : eventq'[i] = IF i = 1 THEN x ELSE t[i - 1]
      BY <3>1
    <3>3. eventq' \in Seq(Event) /\ Len(eventq') = Len(t) + 1 /\ Len(t) \in Nat
      BY <3>1 DEF TypeOK, DaemonTypes
    <3> HIDE DEF s
    <3>4. ASSUME NEW i \in 1..Len(eventq') PROVE eventq'[i] \in ToSet(t) \/ eventq'[i] = x
      <4>1. i = 1 \/ i - 1 \in 1..Len(t)
        BY <3>3
      <4> QED
        BY <3>2, <4>1, ElementsOf
    <3> QED
      BY <3>3, <3>4, ElementsOf
  <2>3. CASE Done
    BY <1>2, <2>3 DEF Done
  <2>4. ASSUME NEW x, DoneAfter(x),
               \/ x = ContactEvent("contactdown", Ev.l, Ev.c, Ev.why)
               \/ /\ Ev.type = "received"
                  /\ \/ x = BundleEvent("expired", Ev.b, NoLink)
                     \/ x = BundleEvent("deleterequest", Ev.b, NoLink)
        PROVE  \A e \in ToSet(eventq') : \/ e \in ToSet(t)
                                         \/ e.b = NoBundle /\ e.type = "contactdown"
                                         \/ /\ e.b = Ev.b /\ Ev.type = "received"
                                            /\ e.type \in {"expired", "deleterequest"}
    <3>1. \/ x.b = NoBundle /\ x.type = "contactdown"
          \/ /\ x.b = Ev.b /\ Ev.type = "received"
             /\ x.type \in {"expired", "deleterequest"}
      <4>1. CASE x = ContactEvent("contactdown", Ev.l, Ev.c, Ev.why)
        BY <4>1 DEF ContactEvent
      <4>2. CASE x = BundleEvent("expired", Ev.b, NoLink) /\ Ev.type = "received"
        BY <4>2 DEF BundleEvent
      <4>3. CASE x = BundleEvent("deleterequest", Ev.b, NoLink) /\ Ev.type = "received"
        BY <4>3 DEF BundleEvent
      <4> QED
        BY <2>4, <4>1, <4>2, <4>3
    <3> QED
      BY <2>2, <2>4, <3>1
  <2> QED
    BY <2>1, <2>3, <2>4
<1>4. ASSUME Ev.type = "received"
      PROVE  Ev.b \in all /\ \A e \in ToSet(t) : e.type = "received" => e.b # Ev.b
  <2>1. Ev.b \in all \ pending /\ ReceivedFresh(t, all, pending \cup {Ev.b})
    BY <1>1, <1>2, <1>4, TailKeeps DEF IInv
  <2> QED
    BY <2>1, ElementsOf DEF ReceivedFresh
<1>5. Fresh(b)
  BY <1>1, <1>2, <1>3 DEF Fresh, Queued
<1>6. Ev.type = "received" => Ev.b # b
  BY <1>1, <1>3, <1>4 DEF Fresh, Queued
<1>7. Untouched(b)
  BY <1>5 DEF FreshUntouched
<1>8. ASSUME Ev.b = b PROVE HandleCustodySignal
  <2>1. Ev.type = "custodysignal"
    BY <1>1, <1>6, <1>7, <1>8 DEF Untouched, Unnamed
  <2> QED
    BY <2>1
    DEF HandleEvent, DiscardDuplicate, ReceiveExpired, ReceiveBundle, HandleTransmitted,
        HandleSendCancelled, HandleExpired, HandleDeleteRequest, HandleDeletion,
        HandleCancelSend, HandleCustodyTimeout, HandleContactUp, HandleContactDown,
        HandleClosed, HandleOpen, Handle, Ev
<1> QED
  BY <1>1, <1>2, <1>3, <1>7, <1>8

\* release_custody of another bundle.
LEMMA ReleaseOther ==
    ASSUME TypeOK, NEW d \in Bundles, NEW b \in Bundles, b # d, ReleaseCustody(d)
    PROVE  ctimer'[b] = ctimer[b]
BY DEF ReleaseCustody, TypeOK, BundleTypes

LEMMA HandlersUntouched ==
    ASSUME IInv, TypeOK', HandleEvent, FreshUntouched, NEW b \in Bundles, Fresh(b)'
    PROVE  Untouched(b)'
<1>1. /\ Untouched(b) /\ TypeOK
      /\ Ev.b = b => HandleCustodySignal
      /\ \A e \in ToSet(eventq') : \/ e \in ToSet(eventq)
                                   \/ e.b = NoBundle
                                   \/ e.b = Ev.b /\ Ev.type = "received"
  BY HandledOther DEF IInv
<1>2. /\ Unlogged(b) /\ Unlisted(b) /\ Unnamed(b)
  BY <1>1 DEF Untouched
<1>3. CASE HandleCustodySignal
  <2>1. /\ UNCHANGED <<fwd, blocks, queue, inflight, deferred, sending, cmds, pending, expTimer>>
        /\ \/ \E d \in custody : ReleaseCustody(d) /\ calls' = <<DoCall("trydelete", d, NoLink)>>
           \/ UNCHANGED <<custody, ctimer, calls>>
    BY <1>3 DEF HandleCustodySignal, routeVars, linkVars, connVars
  <2>2. Unlisted(b)'
    BY <1>2, <2>1 DEF Unlisted
  <2>3. \A e \in ToSet(eventq') : e.b = b => e.type \in {"received", "custodysignal"}
    <3>1. Ev.type = "custodysignal"
      BY <1>3 DEF HandleCustodySignal, Handle, Ev
    <3> QED
      BY <1>1, <1>2, <3>1, BundlesAssumption DEF Unnamed
  <2>4. CASE UNCHANGED <<custody, ctimer, calls>>
    BY <1>2, <2>1, <2>2, <2>3, <2>4 DEF Untouched, Unlogged, Unnamed
  <2>5. ASSUME NEW d \in custody, ReleaseCustody(d), calls' = <<DoCall("trydelete", d, NoLink)>>
        PROVE  Untouched(b)'
    <3>1. d \in Bundles /\ d # b
      BY <1>1, <1>2, <2>5 DEF Unnamed, TypeOK, BundleTypes
    <3>2. custody' = custody \ {d} /\ ctimer'[b] = ctimer[b]
      BY <1>1, <2>5, <3>1, ReleaseOther DEF ReleaseCustody
    <3>3. \A c \in ToSet(calls') : c.b # b
      BY <2>5, <3>1, ElementsOfOne DEF DoCall
    <3> QED
      BY <1>2, <2>1, <2>2, <2>3, <3>2, <3>3 DEF Untouched, Unlogged, Unnamed
  <2> QED
    BY <2>1, <2>4, <2>5
<1>4. CASE ~HandleCustodySignal
  <2>1. PICK d, l : d = Ev.b /\ l = Ev.l
    OBVIOUS
  <2>2. d # b
    BY <1>1, <1>4, <2>1
  <2>3. \A c \in ToSet(calls') : c.b # b
    BY <1>1, <1>2, <2>1, <2>2, HandlerPushes, BundlesAssumption DEF Unnamed
  <2>4. \A e \in ToSet(eventq') : e.b = b => e.type \in {"received", "custodysignal"}
    BY <1>1, <1>2, <2>1, <2>2, BundlesAssumption DEF Unnamed
  <2>5. b \notin pending' \cup custody' \cup expTimer'
    BY <1>2, <1>4, <2>1, <2>2
    DEF Unnamed, HandleEvent, DiscardDuplicate, ReceiveExpired, ReceiveBundle, HandleTransmitted,
        HandleSendCancelled, HandleExpired, HandleDeleteRequest, HandleDeletion, DeleteBundle,
        ReleaseCustody, HandleCancelSend, HandleCustodyTimeout, HandleContactUp,
        HandleContactDown, HandleClosed, HandleOpen, bundleVars
  <2>6. fwd'[b] = fwd[b] /\ \A m \in Links : <<b, m>> \in blocks' => <<b, m>> \in blocks
    <3>1. \/ UNCHANGED fwd
          \/ \E s : fwd' = [fwd EXCEPT ![d][l] = s]
      BY <1>4, <2>1
      DEF HandleEvent, DiscardDuplicate, ReceiveExpired, ReceiveBundle, Reception,
          HandleTransmitted, HandleSendCancelled, LogCancelled, HandleExpired,
          HandleDeleteRequest, HandleDeletion, HandleCancelSend, HandleCustodyTimeout,
          LogTimeout, HandleContactUp, HandleContactDown, HandleClosed, HandleOpen, routeVars
    <3>2. UNCHANGED blocks \/ \E p : blocks' = blocks \ {p}
      BY <1>4
      DEF HandleEvent, DiscardDuplicate, ReceiveExpired, ReceiveBundle, HandleTransmitted,
          HandleSendCancelled, LogCancelled, HandleExpired, HandleDeleteRequest, HandleDeletion,
          HandleCancelSend, HandleCustodyTimeout, HandleContactUp, HandleContactDown,
          HandleClosed, HandleOpen, routeVars
    <3> QED
      BY <1>1, <2>2, <3>1, <3>2 DEF TypeOK, RouteTypes
  <2>7. ctimer'[b] = ctimer[b]
    <3>1. \/ UNCHANGED ctimer
          \/ \E s : ctimer' = [ctimer EXCEPT ![d][l] = s]
          \/ d \in Bundles /\ ReleaseCustody(d)
      BY <1>1, <1>4, <2>1, HandledEvent, EventShape
      DEF HandleEvent, DiscardDuplicate, ReceiveExpired, ReceiveBundle, HandleTransmitted,
          HandleSendCancelled, HandleExpired, HandleDeleteRequest, HandleDeletion, DeleteBundle,
          HandleCancelSend, HandleCustodyTimeout, HandleContactUp, HandleContactDown,
          HandleClosed, HandleOpen, bundleVars
    <3> QED
      BY <1>1, <2>2, <3>1, ReleaseOther DEF TypeOK, BundleTypes
  <2>8. Unlisted(b)'
    <3>1. UNCHANGED <<sending, cmds>>
      BY <1>4
      DEF HandleEvent, DiscardDuplicate, ReceiveExpired, ReceiveBundle, HandleTransmitted,
          HandleSendCancelled, HandleExpired, HandleDeleteRequest, HandleDeletion,
          HandleCancelSend, HandleCustodyTimeout, HandleContactUp, HandleContactDown,
          HandleClosed, HandleOpen, connVars
    <3>2. \/ UNCHANGED <<queue, inflight>> \/ OffLists(d, l)
      BY <1>4, <2>1
      DEF HandleEvent, DiscardDuplicate, ReceiveExpired, ReceiveBundle, HandleTransmitted,
          HandleSendCancelled, HandleExpired, HandleDeleteRequest, HandleDeletion,
          HandleCancelSend, HandleCustodyTimeout, HandleContactUp, HandleContactDown,
          HandleClosed, HandleOpen, linkVars
    <3>3. UNCHANGED deferred \/ \E A : RemoveFromDeferred(d, A)
      BY <1>4, <2>1
      DEF HandleEvent, DiscardDuplicate, ReceiveExpired, ReceiveBundle, HandleTransmitted,
          HandleSendCancelled, HandleExpired, HandleDeleteRequest, HandleDeletion, DeleteBundle,
          HandleCancelSend, HandleCustodyTimeout, HandleContactUp, HandleContactDown,
          HandleClosed, HandleOpen, linkVars
    <3>4. ASSUME NEW m \in Links
          PROVE  /\ ToSet(queue'[m]) \subseteq ToSet(queue[m]) /\ inflight'[m] \subseteq inflight[m]
                 /\ ToSet(deferred'[m]) \subseteq ToSet(deferred[m])
      <4>1. /\ queue'[m] \in {queue[m], RemoveFirst(queue[m], d)}
            /\ inflight'[m] \subseteq inflight[m]
        BY <1>1, <3>2 DEF OffLists, TypeOK, LinkTypes
      <4>2. deferred'[m] \in {deferred[m], RemoveFirst(deferred[m], d)}
        BY <3>3 DEF RemoveFromDeferred
      <4> QED
        BY <1>1, <4>1, <4>2, ListTypes, ElementsOfRemoveFirst
    <3> QED
      BY <1>2, <3>1, <3>4 DEF Unlisted
  <2> QED
    BY <1>2, <2>3, <2>4, <2>5, <2>6, <2>7, <2>8 DEF Untouched, Unlogged, Unnamed
<1> QED
  BY <1>3, <1>4

\* Where the rest of a handler adds to the events: about the call's bundle.
LEMMA StepPosts ==
    ASSUME TypeOK, TypeOK', Continue, ~LoadBundle, ~LoadExpired
    PROVE  \A e \in ToSet(eventq') :
              e \in ToSet(eventq) \/ (e.type = "sendcancelled" /\ e.b = Now.b)
<1>1. eventq \in Seq(Event) /\ eventq' \in Seq(Event)
  BY DEF TypeOK, DaemonTypes
<1>2. CASE CancelBundle
  <2>1. Now.b \in Bundles /\ Now.l \in Links
    BY <1>2, SteppedCall, CallShape DEF CancelBundle
  <2>2. PICK x : x = BundleEvent("sendcancelled", Now.b, Now.l)
    OBVIOUS
  <2>3. x \in Event
    BY <2>1, <2>2, EventTypes
  <2>4. x.type = "sendcancelled" /\ x.b = Now.b
    BY <2>2 DEF BundleEvent
  <2>5. UNCHANGED eventq \/ eventq' = Append(eventq, x)
    BY <1>2, <2>2 DEF CancelBundle, Post
  <2>6. ToSet(Append(eventq, x)) = ToSet(eventq) \cup {x}
    BY <1>1, <2>3, ElementsOfAppend
  <2> QED
    BY <2>4, <2>5, <2>6
<1>3. CASE ~CancelBundle
  <2>1. UNCHANGED eventq
    BY <1>3 DEF Continue, RouteBundle, ForwardBundle, CheckNextHop, DrainDeferred, TryToDelete,
       Requeue, CloseContact, LoadDone, daemonVars
  <2> QED
    BY <2>1
<1> QED
  BY <1>2, <1>3

LEMMA SteppedNow ==
    ASSUME TypeOK, Continue PROVE Now \in ToSet(calls) /\ Now \in Call
<1>1. calls \in Seq(Call) /\ calls # <<>>
  BY DEF Continue, RouteBundle, ForwardBundle, CheckNextHop, DrainDeferred, CancelBundle,
         TryToDelete, Requeue, CloseContact, LoadBundle, LoadExpired, LoadDone, Step, Idle,
         TypeOK, DaemonTypes
<1> QED
  BY <1>1, ElementsOfTail DEF Now

\* Adding blocks and an entry for one bundle, on one link.
LEMMA QueueBundleOther ==
    ASSUME TypeOK, NEW d, NEW m, QueueBundle(d, m), NEW b \in Bundles, b # d, NEW l \in Links
    PROVE  /\ fwd'[b][l] = fwd[b][l]
           /\ <<b, l>> \in blocks' => <<b, l>> \in blocks
           /\ queue'[l] = queue[l] \/ queue'[l] = Append(queue[l], d)
BY DEF QueueBundle, TypeOK, RouteTypes, LinkTypes

LEMMA StepsUnlogged ==
    ASSUME TypeOK, Continue, NEW b \in Bundles, Unlogged(b), Now.b # b
    PROVE  Unlogged(b)'
<1>1. CASE ForwardBundle \/ DrainDeferred
  <2>1. UNCHANGED ctimer /\ (QueueBundle(Now.b, Now.l) \/ UNCHANGED <<fwd, blocks>>)
    BY <1>1 DEF ForwardBundle, DrainDeferred, bundleVars
  <2> QED
    BY <2>1, QueueBundleOther DEF Unlogged
<1>2. CASE TryToDelete
  <2>1. /\ UNCHANGED <<fwd, blocks>>
        /\ UNCHANGED ctimer \/ ReleaseCustody(Now.b)
    BY <1>2 DEF TryToDelete, DeleteBundle, routeVars
  <2>2. Now.b \in Bundles
    BY <1>2, SteppedCall, CallShape DEF TryToDelete
  <2> QED
    BY <2>1, <2>2, ReleaseOther DEF Unlogged
<1>3. CASE ~ForwardBundle /\ ~DrainDeferred /\ ~TryToDelete
  <2>1. UNCHANGED <<fwd, ctimer, blocks>>
    BY <1>3 DEF Continue, RouteBundle, CheckNextHop, CancelBundle, Requeue, CloseContact,
       LoadBundle, LoadExpired, LoadDone, routeVars, bundleVars
  <2> QED
    BY <2>1 DEF Unlogged
<1> QED
  BY <1>1, <1>2, <1>3

LEMMA StepsUnlisted ==
    ASSUME TypeOK, TypeOK', Continue, NEW b \in Bundles, Unlisted(b), Now.b # b
    PROVE  Unlisted(b)'
<1>1. PICK d, m : d = Now.b /\ m = Now.l
  OBVIOUS
<1>2. \A l \in Links : /\ queue[l] \in Seq(Bundles) /\ deferred[l] \in Seq(Bundles)
                       /\ sending[l] \in Seq(Bundles) /\ cmds[l] \in Seq(Bundles)
  BY ListTypes
<1>3. d # b
  BY <1>1
<1>4. CASE ForwardBundle \/ DrainDeferred \/ CancelBundle
  <2>1. d \in Bundles /\ m \in Links
    BY <1>1, <1>4, SteppedCall, CallShape DEF ForwardBundle, DrainDeferred, CancelBundle
  <2>2. ASSUME NEW l \in Links
        PROVE  queue'[l] \in {queue[l], Append(queue[l], d), RemoveFirst(queue[l], d)}
    <3>1. \/ UNCHANGED queue \/ QueueBundle(d, m)
          \/ queue' = [queue EXCEPT ![m] = RemoveFirst(@, d)]
      BY <1>1, <1>4 DEF ForwardBundle, DrainDeferred, CancelBundle
    <3>2. QueueBundle(d, m) => queue'[l] \in {queue[l], Append(queue[l], d)}
      BY <1>3, QueueBundleOther
    <3> QED
      BY <3>1, <3>2 DEF TypeOK, LinkTypes
  <2>3. ASSUME NEW l \in Links
        PROVE  deferred'[l] \in {deferred[l], Append(deferred[l], d), RemoveFirst(deferred[l], d)}
    <3>1. \/ UNCHANGED deferred
          \/ deferred' = [deferred EXCEPT ![m] = Append(@, d)]
          \/ deferred' = [deferred EXCEPT ![m] = RemoveFirst(@, d)]
      BY <1>1, <1>4 DEF ForwardBundle, DrainDeferred, CancelBundle
    <3> QED
      BY <3>1 DEF TypeOK, LinkTypes
  <2>4. ASSUME NEW l \in Links PROVE cmds'[l] \in {cmds[l], Append(cmds[l], d)}
    <3>1. UNCHANGED cmds \/ cmds' = [cmds EXCEPT ![m] = Append(@, d)]
      BY <1>1, <1>4 DEF ForwardBundle, DrainDeferred, CancelBundle, connVars
    <3> QED
      BY <3>1 DEF TypeOK, ConnTypes
  <2>5. UNCHANGED <<inflight, sending>>
    BY <1>4 DEF ForwardBundle, DrainDeferred, CancelBundle, connVars
  <2>6. ASSUME NEW s \in Seq(Bundles), NEW t \in {s, Append(s, d), RemoveFirst(s, d)},
               b \in ToSet(t)
        PROVE  b \in ToSet(s)
    <3>1. /\ ToSet(Append(s, d)) = ToSet(s) \cup {d}
          /\ ToSet(RemoveFirst(s, d)) \subseteq ToSet(s)
      BY <2>1, ElementsOfAppend, ElementsOfRemoveFirst
    <3>2. CASE t = s \/ t = RemoveFirst(s, d)
      BY <2>6, <3>1, <3>2
    <3>3. CASE t = Append(s, d)
      BY <1>3, <2>6, <3>1, <3>3
    <3> QED
      BY <2>6, <3>2, <3>3
  <2>7. ASSUME NEW l \in Links
        PROVE  /\ b \in ToSet(queue'[l]) => b \in ToSet(queue[l])
               /\ b \in ToSet(deferred'[l]) => b \in ToSet(deferred[l])
               /\ b \in ToSet(cmds'[l]) => b \in ToSet(cmds[l])
    <3>1. /\ queue'[l] \in {queue[l], Append(queue[l], d), RemoveFirst(queue[l], d)}
          /\ deferred'[l] \in {deferred[l], Append(deferred[l], d), RemoveFirst(deferred[l], d)}
          /\ cmds'[l] \in {cmds[l], Append(cmds[l], d), RemoveFirst(cmds[l], d)}
          /\ queue[l] \in Seq(Bundles) /\ deferred[l] \in Seq(Bundles)
          /\ cmds[l] \in Seq(Bundles)
      BY <1>2, <2>2, <2>3, <2>4
    <3> QED
      BY <2>6, <3>1
  <2> QED
    BY <2>5, <2>7 DEF Unlisted
<1>5. CASE Requeue
  <2>1. PICK x : x = Head(sending[m])
    OBVIOUS
  <2>2. /\ sending' = [sending EXCEPT ![m] = Tail(@)] /\ sending[m] # <<>>
        /\ inflight' = [inflight EXCEPT ![m] = @ \ {x}]
        /\ UNCHANGED queue \/ queue' = [queue EXCEPT ![m] = Append(@, x)]
        /\ UNCHANGED <<deferred, cmds>>
    BY <1>1, <1>5, <2>1 DEF Requeue, Restore
  <2>3. m \in Links
    BY <1>1, <1>5, SteppedCall, CallShape DEF Requeue
  <2>4. x \in Bundles /\ x # b /\ ToSet(Tail(sending[m])) \subseteq ToSet(sending[m])
    BY <1>2, <2>1, <2>2, <2>3, ElementsOfTail DEF Unlisted
  <2>5. ASSUME NEW l \in Links
        PROVE  /\ b \in ToSet(queue'[l]) => b \in ToSet(queue[l])
               /\ b \in ToSet(sending'[l]) => b \in ToSet(sending[l])
               /\ inflight'[l] \subseteq inflight[l]
    <3>1. /\ queue'[l] \in {queue[l], Append(queue[l], x)}
          /\ inflight'[l] \subseteq inflight[l]
      BY <2>2 DEF TypeOK, LinkTypes
    <3>2. sending'[l] = IF l = m THEN Tail(sending[l]) ELSE sending[l]
      BY <2>2 DEF TypeOK, ConnTypes
    <3>3. ToSet(Append(queue[l], x)) = ToSet(queue[l]) \cup {x}
      BY <1>2, <2>4, ElementsOfAppend
    <3> QED
      BY <2>4, <3>1, <3>2, <3>3
  <2> QED
    BY <2>2, <2>5 DEF Unlisted
<1>6. CASE TryToDelete
  <2>1. /\ UNCHANGED <<queue, inflight, sending, cmds>>
        /\ UNCHANGED deferred \/ \E A : RemoveFromDeferred(d, A)
    BY <1>1, <1>6 DEF TryToDelete, DeleteBundle, connVars
  <2>2. ASSUME NEW l \in Links PROVE ToSet(deferred'[l]) \subseteq ToSet(deferred[l])
    <3>1. deferred'[l] \in {deferred[l], RemoveFirst(deferred[l], d)}
      BY <2>1 DEF RemoveFromDeferred
    <3> QED
      BY <1>2, <3>1, ElementsOfRemoveFirst
  <2> QED
    BY <2>1, <2>2 DEF Unlisted
<1>7. CASE CloseContact
  <2>1. /\ UNCHANGED <<queue, inflight, deferred, sending>>
        /\ cmds' = [cmds EXCEPT ![m] = <<>>]
    BY <1>1, <1>7 DEF CloseContact, linkVars
  <2>2. \A l \in Links : cmds'[l] \in {cmds[l], <<>>}
    BY <2>1 DEF TypeOK, ConnTypes
  <2> QED
    BY <2>1, <2>2, ElementsOfEmpty DEF Unlisted
<1>8. CASE RouteBundle \/ CheckNextHop \/ LoadBundle \/ LoadExpired \/ LoadDone
  <2>1. UNCHANGED <<queue, inflight, deferred, sending, cmds>>
    BY <1>8 DEF RouteBundle, CheckNextHop, LoadBundle, LoadExpired, LoadDone, linkVars, connVars
  <2> QED
    BY <2>1 DEF Unlisted
<1> QED
  BY <1>4, <1>5, <1>6, <1>7, <1>8 DEF Continue

\* A stored bundle is loaded: it exists, and nothing receives it.
LEMMA LoadsUntouched ==
    ASSUME IInv, TypeOK', LoadBundle \/ LoadExpired, FreshUntouched, NEW b \in Bundles, Fresh(b)'
    PROVE  Untouched(b)'
<1>1. /\ eventq \in Seq(Event) /\ calls \in Seq(Call) /\ calls # <<>>
      /\ TypeOK /\ Continue
  BY DEF IInv, TypeOK, DaemonTypes, LoadBundle, LoadExpired, Idle, Continue
<1>2. PICK x \in Bundles \ all :
         /\ all' = all \cup {x}
         /\ pending' \subseteq pending \cup {x} /\ custody' \subseteq custody \cup {x}
         /\ expTimer' \subseteq expTimer \cup {x}
         /\ \/ UNCHANGED eventq
            \/ eventq' = <<BundleEvent("expired", x, NoLink)>> \o eventq
            \/ eventq' = <<BundleEvent("deleterequest", x, NoLink)>> \o eventq
         /\ UNCHANGED calls \/ calls' = calls \o RouteCalls(x)
  BY DEF LoadBundle, LoadExpired
<1>3. UNCHANGED <<ctimer, fwd, blocks, queue, inflight, deferred, sending, cmds>>
  BY DEF LoadBundle, LoadExpired, routeVars, linkVars, connVars
<1>4. \A e \in ToSet(eventq') : e \in ToSet(eventq) \/ (e.type # "received" /\ e.b = x)
  <2>1. ASSUME NEW t \in {"expired", "deleterequest"},
               eventq' = <<BundleEvent(t, x, NoLink)>> \o eventq
        PROVE  \A e \in ToSet(eventq') : e \in ToSet(eventq) \/ (e.type # "received" /\ e.b = x)
    <3>1. PICK y : y = BundleEvent(t, x, NoLink)
      OBVIOUS
    <3>2. y \in Event
      BY <3>1, EventTypes
    <3>3. y.type # "received" /\ y.b = x
      BY <2>1, <3>1 DEF BundleEvent
    <3> QED
      BY <1>1, <2>1, <3>1, <3>2, <3>3, ElementsOfPrepend
  <2> QED
    BY <1>2, <2>1
<1>5. ASSUME NEW e \in Queued("received") PROVE e.b \in all
  BY <1>1, <1>5, ElementsOf DEF IInv, ReceivedFresh, Queued
<1>6. b # x /\ Fresh(b)
  BY <1>2, <1>4, <1>5 DEF Fresh, Queued
<1>7. Untouched(b)
  BY <1>6 DEF FreshUntouched
<1>8. \A c \in ToSet(calls') : c \in ToSet(calls) \/ c.b = x
  <2>1. RouteCalls(x) \in Seq(Call) /\ \A c \in ToSet(RouteCalls(x)) : c.b = x
    BY RouteCallsType, CallsOfRoutes
  <2>2. ToSet(calls \o RouteCalls(x)) = ToSet(calls) \cup ToSet(RouteCalls(x))
    BY <1>1, <2>1, ElementsOfConcat
  <2> QED
    BY <1>2, <2>1, <2>2
<1> QED
  BY <1>2, <1>3, <1>4, <1>6, <1>7, <1>8 DEF Untouched, Unlogged, Unlisted, Unnamed

LEMMA ContinueUntouched ==
    ASSUME IInv, TypeOK', Continue, FreshUntouched, NEW b \in Bundles, Fresh(b)'
    PROVE  Untouched(b)'
<1>1. CASE LoadBundle \/ LoadExpired
  BY <1>1, LoadsUntouched
<1>2. CASE ~LoadBundle /\ ~LoadExpired
  <2>1. TypeOK /\ UNCHANGED all
    BY <1>2 DEF IInv, Continue, RouteBundle, ForwardBundle, CheckNextHop, DrainDeferred,
       CancelBundle, TryToDelete, Requeue, CloseContact, LoadDone, bundleVars
  <2>2. \A e \in ToSet(eventq') :
           e \in ToSet(eventq) \/ (e.type = "sendcancelled" /\ e.b = Now.b)
    BY <1>2, <2>1, StepPosts
  <2>3. Fresh(b)
    BY <2>1, <2>2 DEF Fresh, Queued
  <2>4. /\ Unlogged(b) /\ Unlisted(b) /\ Unnamed(b)
    BY <2>3 DEF FreshUntouched, Untouched
  <2>5. Now.b # b
    BY <2>1, <2>4, SteppedNow DEF Unnamed
  <2>6. Unlogged(b)' /\ Unlisted(b)'
    BY <2>1, <2>4, <2>5, StepsUnlogged, StepsUnlisted
  <2>7. \A e \in ToSet(eventq') : e.b = b => e.type \in {"received", "custodysignal"}
    BY <2>2, <2>4, <2>5 DEF Unnamed
  <2>8. \A c \in ToSet(calls') : c.b # b
    <3>1. CASE LoadDone
      BY <2>1, <2>4, <3>1, ElementsOfTail
      DEF LoadDone, Unnamed, Idle, TypeOK, DaemonTypes
    <3>2. CASE ~LoadDone
      <4>1. ASSUME NEW c \in ToSet(calls'), c.b = b PROVE FALSE
        <5>1. \/ c \in ToSet(calls)
              \/ c = DoCall("forward", Now.b, Now.l)
              \/ c.b = NoBundle \/ \E d \in ToSet(calls) : c.b = d.b
              \/ \E l \in Links : c.b \in ToSet(deferred[l])
          BY <1>2, <2>1, <3>2, StepPushes
        <5>2. DoCall("forward", Now.b, Now.l).b = Now.b
          BY DEF DoCall
        <5> QED
          BY <2>4, <2>5, <4>1, <5>1, <5>2, BundlesAssumption DEF Unnamed, Unlisted
      <4> QED
        BY <4>1
    <3> QED
      BY <3>1, <3>2
  <2>9. pending' \subseteq pending /\ custody' \subseteq custody /\ expTimer' \subseteq expTimer
    BY <1>2 DEF Continue, RouteBundle, ForwardBundle, CheckNextHop, DrainDeferred,
       CancelBundle, TryToDelete, DeleteBundle, ReleaseCustody, Requeue, CloseContact, LoadDone,
       bundleVars
  <2> QED
    BY <2>4, <2>6, <2>7, <2>8, <2>9 DEF Untouched, Unnamed
<1> QED
  BY <1>1, <1>2

\* Steps that add events which name other bundles only.
LEMMA FreshBefore ==
    ASSUME NEW b \in Bundles, FreshUntouched, all \subseteq all',
           \A e \in ToSet(eventq') : e \in ToSet(eventq) \/ e.type # "received" \/ e.b # b
    PROVE  Fresh(b)' => Unlogged(b) /\ Unlisted(b) /\ Unnamed(b)
BY DEF Fresh, Queued, FreshUntouched, Untouched

LEMMA TimersUntouched ==
    ASSUME IInv, TypeOK', Timers, FreshUntouched, NEW b \in Bundles, Fresh(b)'
    PROVE  Untouched(b)'
<1>1. TypeOK /\ eventq \in Seq(Event) /\ eventq' \in Seq(Event)
  BY DEF IInv, TypeOK, DaemonTypes
<1>2. UNCHANGED <<all, pending, custody, fwd, blocks, inflight, deferred, sending, cmds, calls>>
  BY DEF Timers, ExpirationTimer, CustodyTimer, CancelledTimer, RerouteTimer, bundleVars,
         routeVars, linkVars, connVars, daemonVars
<1>3. /\ Unlogged(b) /\ Unlisted(b) /\ Unnamed(b)
  <2>1. \A e \in ToSet(eventq') : e \in ToSet(eventq) \/ e.type # "received"
    <3> DEFINE T == {"expired", "custodytimeout", "sendcancelled"}
    <3>1. Grown(eventq, eventq', T) /\ "received" \notin T
      BY <1>1, TimerEvents
    <3> HIDE DEF T
    <3> QED
      BY <1>1, <3>1, GrownQueue
  <2> QED
    BY <1>2, <2>1, FreshBefore
<1>4. ASSUME /\ \A e \in ToSet(eventq') : e \in ToSet(eventq) \/ e.b # b,
             ctimer'[b] = ctimer[b], expTimer' \subseteq expTimer,
             \A l \in Links : ToSet(queue'[l]) \subseteq ToSet(queue[l])
      PROVE  Untouched(b)'
  BY <1>2, <1>3, <1>4 DEF Untouched, Unlogged, Unlisted, Unnamed
<1>5. ASSUME NEW d \in Bundles, ExpirationTimer(d) PROVE Untouched(b)'
  <2>1. PICK x : x = BundleEvent("expired", d, NoLink)
    OBVIOUS
  <2>2. x \in Event
    BY <2>1, EventTypes
  <2>3. x.b = d /\ d # b
    BY <1>3, <1>5, <2>1 DEF BundleEvent, ExpirationTimer, Unnamed
  <2>4. /\ eventq' = <<x>> \o eventq /\ UNCHANGED <<ctimer, queue>> /\ expTimer' = expTimer \ {d}
    BY <1>5, <2>1 DEF ExpirationTimer, linkVars
  <2>5. ToSet(<<x>> \o eventq) = ToSet(eventq) \cup {x}
    BY <1>1, <2>2, ElementsOfPrepend
  <2> QED
    BY <1>4, <2>3, <2>4, <2>5
<1>6. ASSUME NEW d \in Bundles, NEW l \in Links, CustodyTimer(d, l) PROVE Untouched(b)'
  <2>1. PICK x : x = BundleEvent("custodytimeout", d, l)
    OBVIOUS
  <2>2. x \in Event
    BY <2>1, EventTypes
  <2>3. x.b = d /\ d # b
    BY <1>3, <1>6, <2>1 DEF BundleEvent, CustodyTimer, Unlogged
  <2>4. /\ eventq' = Append(eventq, x) /\ UNCHANGED <<expTimer, queue>>
        /\ ctimer' = [ctimer EXCEPT ![d][l] = "fired"]
    BY <1>6, <2>1 DEF CustodyTimer, Post, linkVars
  <2>5. ctimer'[b] = ctimer[b]
    BY <1>1, <2>3, <2>4 DEF TypeOK, BundleTypes
  <2>6. ToSet(Append(eventq, x)) = ToSet(eventq) \cup {x}
    BY <1>1, <2>2, ElementsOfAppend
  <2> QED
    BY <1>4, <2>3, <2>4, <2>5, <2>6
<1>7. ASSUME NEW d \in Bundles, NEW l \in Links, CancelledTimer(d, l) PROVE Untouched(b)'
  <2>1. d # b
    BY <1>3, <1>7 DEF CancelledTimer, Unlogged
  <2>2. ctimer' = [ctimer EXCEPT ![d][l] = "none"] /\ UNCHANGED <<expTimer, queue, eventq>>
    BY <1>7 DEF CancelledTimer, linkVars, daemonVars
  <2>3. ctimer'[b] = ctimer[b]
    BY <1>1, <2>1, <2>2 DEF TypeOK, BundleTypes
  <2> QED
    BY <1>4, <2>2, <2>3
<1>8. ASSUME NEW l \in Links, RerouteTimer(l) PROVE Untouched(b)'
  <2> DEFINE s == [i \in 1..Len(queue[l]) |-> BundleEvent("sendcancelled", queue[l][i], l)]
  <2>1. /\ queue[l] \in Seq(Bundles) /\ Len(queue[l]) \in Nat
        /\ \A i \in 1..Len(queue[l]) : queue[l][i] \in Bundles /\ queue[l][i] # b
    BY <1>1, <1>3, ListTypes, ElementsOf DEF Unlisted
  <2>2. \A i \in 1..Len(queue[l]) : BundleEvent("sendcancelled", queue[l][i], l) \in Event
    BY <2>1, EventTypes
  <2>3. s \in Seq(Event) /\ Len(s) = Len(queue[l])
    BY <2>1, <2>2
  <2>4. \A i \in 1..Len(s) : s[i].b # b
    BY <2>1, <2>3 DEF BundleEvent
  <2>5. /\ UNCHANGED <<ctimer, expTimer>>
        /\ \/ UNCHANGED <<eventq, queue>>
           \/ eventq' = eventq \o s /\ queue' = [queue EXCEPT ![l] = <<>>]
    BY <1>8 DEF RerouteTimer, bundleVars
  <2> HIDE DEF s
  <2>6. ToSet(eventq \o s) = ToSet(eventq) \cup ToSet(s) /\ \A e \in ToSet(s) : e.b # b
    BY <1>1, <2>3, <2>4, ElementsOfConcat, ElementsOf
  <2>7. \A m \in Links : queue'[m] = queue[m] \/ queue'[m] = <<>>
    BY <1>1, <2>5 DEF TypeOK, LinkTypes
  <2> QED
    BY <1>4, <2>5, <2>6, <2>7, ElementsOfEmpty
<1> QED
  BY <1>5, <1>6, <1>7, <1>8 DEF Timers

LEMMA ConnectionsUntouched ==
    ASSUME IInv, TypeOK', NEW l \in Links, Connection(l), FreshUntouched,
           NEW b \in Bundles, Fresh(b)'
    PROVE  Untouched(b)'
<1>1. /\ TypeOK /\ eventq \in Seq(Event) /\ queue[l] \in Seq(Bundles)
      /\ sending[l] \in Seq(Bundles) /\ cmds[l] \in Seq(Bundles)
  BY ListTypes DEF IInv, TypeOK, DaemonTypes
<1>2. UNCHANGED <<all, pending, custody, expTimer, ctimer, fwd, blocks, deferred, calls>>
  BY DEF Connection, ConnectionUp, AcceptConnection, StartNextBundle, SendSegment, AckBundle,
         CancelCommand, BreakContact, BreakCommand, bundleVars, routeVars, linkVars, daemonVars
<1>3. /\ Unlogged(b) /\ Unlisted(b) /\ Unnamed(b)
  <2>1. \A e \in ToSet(eventq') : e \in ToSet(eventq) \/ e.type # "received"
    <3> DEFINE T == {"transmitted", "sendcancelled", "contactup", "closed"}
    <3>1. Grown(eventq, eventq', T) /\ "received" \notin T
      BY <1>1, ConnectionEvents
    <3> HIDE DEF T
    <3> QED
      BY <1>1, <3>1, GrownQueue
  <2> QED
    BY <1>2, <2>1, FreshBefore
<1>4. ASSUME NEW x \in Event, x.b # b, UNCHANGED eventq \/ eventq' = Append(eventq, x),
             \A m \in Links : /\ b \in ToSet(queue'[m]) => b \in ToSet(queue[m])
                              /\ b \in inflight'[m] => b \in inflight[m]
                              /\ b \in ToSet(sending'[m]) => b \in ToSet(sending[m])
                              /\ b \in ToSet(cmds'[m]) => b \in ToSet(cmds[m])
      PROVE  Untouched(b)'
  <2>1. ToSet(Append(eventq, x)) = ToSet(eventq) \cup {x}
    BY <1>1, <1>4, ElementsOfAppend
  <2> QED
    BY <1>2, <1>3, <1>4, <2>1 DEF Untouched, Unlogged, Unlisted, Unnamed
<1>5. PICK y : y \in Event /\ y.b = NoBundle
  <2>1. PICK y : y = ContactEvent("open", l, 0, "")
    OBVIOUS
  <2>2. 0 \in 0..MaxContacts
    BY ParamsAssumption
  <2>3. y \in Event
    BY <2>1, <2>2, EventTypes
  <2>4. y.b = NoBundle
    BY <2>1 DEF ContactEvent
  <2> QED
    BY <2>3, <2>4
<1>6. NoBundle # b
  BY BundlesAssumption
<1>7. CASE ConnectionUp(l) \/ AcceptConnection(l) \/ BreakContact(l, "broken")
           \/ BreakContact(l, "idle")
  <2>1. UNCHANGED <<queue, inflight, sending, cmds>>
    BY <1>7 DEF ConnectionUp, AcceptConnection, BreakContact, linkVars
  <2>2. PICK t \in {"contactup", "closed"}, w \in {"", "broken", "idle", "user"} :
           \E c \in 0..MaxContacts : Post(ContactEvent(t, l, c, w))
    <3>1. contact[l] \in 0..MaxContacts /\ \A c \in 1..MaxContacts : c \in 0..MaxContacts
      BY <1>1, ParamsAssumption DEF TypeOK, LinkTypes
    <3>2. AcceptConnection(l) => NextContact(l) \in 0..MaxContacts
      BY <3>1, NextContactIsNew DEF AcceptConnection
    <3> QED
      BY <1>7, <3>1, <3>2 DEF ConnectionUp, AcceptConnection, BreakContact
  <2>3. PICK c \in 0..MaxContacts : Post(ContactEvent(t, l, c, w))
    BY <2>2
  <2>4. PICK x : x = ContactEvent(t, l, c, w)
    OBVIOUS
  <2>5. x \in Event
    BY <2>4, EventTypes
  <2>6. x.b = NoBundle
    BY <2>4 DEF ContactEvent
  <2> QED
    BY <1>4, <1>6, <2>1, <2>3, <2>4, <2>5, <2>6 DEF Post
<1>8. CASE StartNextBundle(l)
  <2>1. PICK d : d = Head(queue[l])
    OBVIOUS
  <2>2. /\ queue[l] # <<>> /\ UNCHANGED <<cmds, eventq>>
        /\ sending' = [sending EXCEPT ![l] = Append(@, d)]
        /\ inflight' = [inflight EXCEPT ![l] = @ \cup {d}]
        /\ queue' = [queue EXCEPT ![l] = Tail(@)]
    BY <1>8, <2>1 DEF StartNextBundle, MoveToInflight, daemonVars
  <2>3. d \in Bundles /\ d # b /\ ToSet(Tail(queue[l])) \subseteq ToSet(queue[l])
    BY <1>1, <1>3, <2>1, <2>2, ElementsOfTail DEF Unlisted
  <2>4. ToSet(Append(sending[l], d)) = ToSet(sending[l]) \cup {d}
    BY <1>1, <2>3, ElementsOfAppend
  <2>5. ASSUME NEW m \in Links
        PROVE  /\ queue'[m] = IF m = l THEN Tail(queue[l]) ELSE queue[m]
               /\ inflight'[m] \subseteq inflight[m] \cup {d}
               /\ sending'[m] = IF m = l THEN Append(sending[l], d) ELSE sending[m]
    BY <1>1, <2>2 DEF TypeOK, LinkTypes, ConnTypes
  <2> QED
    BY <1>4, <1>5, <1>6, <2>2, <2>3, <2>4, <2>5
<1>9. CASE AckBundle(l)
  <2>1. PICK d, x : d = Head(sending[l]) /\ x = BundleEvent("transmitted", d, l)
    OBVIOUS
  <2>2. /\ sending[l] # <<>> /\ UNCHANGED <<queue, inflight, cmds>>
        /\ sending' = [sending EXCEPT ![l] = Tail(@)] /\ eventq' = Append(eventq, x)
    BY <1>9, <2>1 DEF AckBundle, Post, linkVars
  <2>3. d \in Bundles /\ d # b /\ ToSet(Tail(sending[l])) \subseteq ToSet(sending[l])
    BY <1>1, <1>3, <2>1, <2>2, ElementsOfTail DEF Unlisted
  <2>4. x \in Event
    BY <2>1, <2>3, EventTypes
  <2>5. x.b = d
    BY <2>1 DEF BundleEvent
  <2>6. \A m \in Links : sending'[m] = IF m = l THEN Tail(sending[l]) ELSE sending[m]
    BY <1>1, <2>2 DEF TypeOK, ConnTypes
  <2> QED
    BY <1>4, <2>2, <2>3, <2>4, <2>5, <2>6
<1>10. CASE CancelCommand(l)
  <2>1. PICK d, x : d = Head(cmds[l]) /\ x = BundleEvent("sendcancelled", d, l)
    OBVIOUS
  <2>2. /\ cmds[l] # <<>> /\ UNCHANGED <<queue, inflight>>
        /\ cmds' = [cmds EXCEPT ![l] = Tail(@)]
        /\ \/ UNCHANGED <<sending, eventq>>
           \/ /\ sending' = [sending EXCEPT ![l] = RemoveFirst(@, d)]
              /\ eventq' = Append(eventq, x)
    BY <1>10, <2>1 DEF CancelCommand, Post, linkVars
  <2>3. d \in Bundles /\ d # b /\ ToSet(Tail(cmds[l])) \subseteq ToSet(cmds[l])
    BY <1>1, <1>3, <2>1, <2>2, ElementsOfTail DEF Unlisted
  <2>4. x \in Event
    BY <2>1, <2>3, EventTypes
  <2>5. x.b = d
    BY <2>1 DEF BundleEvent
  <2>6. ToSet(RemoveFirst(sending[l], d)) \subseteq ToSet(sending[l])
    BY <1>1, ElementsOfRemoveFirst
  <2>7. \A m \in Links : /\ cmds'[m] = IF m = l THEN Tail(cmds[l]) ELSE cmds[m]
                         /\ \/ sending'[m] = sending[m]
                            \/ m = l /\ sending'[m] = RemoveFirst(sending[l], d)
    BY <1>1, <2>2 DEF TypeOK, ConnTypes
  <2> QED
    BY <1>4, <2>2, <2>3, <2>4, <2>5, <2>6, <2>7
<1>11. CASE SendSegment(l) \/ BreakCommand(l)
  <2>1. UNCHANGED <<queue, inflight, sending, cmds, eventq>>
    BY <1>11 DEF SendSegment, BreakCommand, linkVars, daemonVars
  <2> QED
    BY <1>4, <1>5, <1>6, <2>1
<1> QED
  BY <1>7, <1>8, <1>9, <1>10, <1>11 DEF Connection

LEMMA EnvironmentUntouched ==
    ASSUME IInv, TypeOK', Environment, ~Crash, FreshUntouched, NEW b \in Bundles, Fresh(b)'
    PROVE  Untouched(b)'
<1>1. TypeOK /\ eventq \in Seq(Event) /\ all \subseteq arrived
  BY DEF IInv, TypeOK, DaemonTypes, ArrivedFirst
<1>2. UNCHANGED <<pending, custody, expTimer, ctimer, fwd, blocks, queue, inflight, deferred,
                  sending, cmds, calls>>
  BY DEF Environment, Arrive, CancelRequest, CancelSend, CustodySignal, CloseRequest,
         OpenRequest, bundleVars, routeVars, linkVars, connVars
<1>3. ASSUME NEW x \in Event, eventq' = Append(eventq, x) \/ eventq' = <<x>> \o eventq,
             all \subseteq all',
             \/ x.type = "received" /\ (x.b = b => b \notin all)
             \/ x.type = "custodysignal"
             \/ x.type # "received" /\ x.b \in pending \cup {NoBundle}
      PROVE  Untouched(b)'
  <2>1. ToSet(eventq') = ToSet(eventq) \cup {x}
    <3>1. /\ ToSet(Append(eventq, x)) = ToSet(eventq) \cup {x}
          /\ ToSet(<<x>> \o eventq) = ToSet(eventq) \cup {x}
      BY <1>1, <1>3, ElementsOfAppend, ElementsOfPrepend
    <3> QED
      BY <1>3, <3>1
  <2>2. Fresh(b)
    BY <1>3, <2>1 DEF Fresh, Queued
  <2>3. /\ Unlogged(b) /\ Unlisted(b) /\ Unnamed(b)
    BY <2>2 DEF FreshUntouched, Untouched
  <2>4. x.b = b => x.type \in {"received", "custodysignal"}
    BY <1>3, <2>3, BundlesAssumption DEF Unnamed
  <2> QED
    BY <1>2, <2>1, <2>3, <2>4 DEF Untouched, Unlogged, Unlisted, Unnamed
<1>4. ASSUME NEW d \in Bundles, NEW l \in Links \cup {NoLink}, Arrive(d, l) PROVE Untouched(b)'
  <2>1. PICK x : x = BundleEvent("received", d, l)
    OBVIOUS
  <2>2. x \in Event
    BY <2>1, EventTypes
  <2>3. x.type = "received" /\ x.b = d
    BY <2>1 DEF BundleEvent
  <2>4. eventq' = Append(eventq, x) /\ all' = all \cup {d} /\ d \notin all
    BY <1>1, <1>4, <2>1 DEF Arrive, Post
  <2> QED
    BY <1>3, <2>2, <2>3, <2>4
<1>5. ASSUME NEW d \in Bundles, CancelRequest(d) PROVE Untouched(b)'
  <2>1. PICK x : x = BundleEvent("deleterequest", d, NoLink)
    OBVIOUS
  <2>2. x \in Event
    BY <2>1, EventTypes
  <2>3. x.type = "deleterequest" /\ x.b = d
    BY <2>1 DEF BundleEvent
  <2>4. eventq' = Append(eventq, x) /\ all' = all /\ d \in pending
    BY <1>5, <2>1 DEF CancelRequest, Post, bundleVars
  <2> QED
    BY <1>3, <2>2, <2>3, <2>4
<1>6. ASSUME NEW d \in Bundles, NEW l \in Links, CancelSend(d, l) PROVE Untouched(b)'
  <2>1. PICK x : x = BundleEvent("cancelsend", d, l)
    OBVIOUS
  <2>2. x \in Event
    BY <2>1, EventTypes
  <2>3. x.type = "cancelsend" /\ x.b = d
    BY <2>1 DEF BundleEvent
  <2>4. eventq' = <<x>> \o eventq /\ all' = all /\ d \in pending
    BY <1>6, <2>1 DEF CancelSend, bundleVars
  <2> QED
    BY <1>3, <2>2, <2>3, <2>4
<1>7. ASSUME NEW d \in Bundles, CustodySignal(d) PROVE Untouched(b)'
  <2>1. PICK x : x = BundleEvent("custodysignal", d, NoLink)
    OBVIOUS
  <2>2. x \in Event
    BY <2>1, EventTypes
  <2>3. x.type = "custodysignal"
    BY <2>1 DEF BundleEvent
  <2>4. eventq' = Append(eventq, x) /\ all' = all
    BY <1>7, <2>1 DEF CustodySignal, Post, bundleVars
  <2> QED
    BY <1>3, <2>2, <2>3, <2>4
<1>8. ASSUME NEW l \in Links, CloseRequest(l) \/ OpenRequest(l) PROVE Untouched(b)'
  <2>1. contact[l] \in 0..MaxContacts /\ 0 \in 0..MaxContacts
    BY <1>1, ParamsAssumption DEF TypeOK, LinkTypes
  <2>2. PICK x : \/ x = ContactEvent("closed", l, contact[l], "user") /\ CloseRequest(l)
                 \/ x = ContactEvent("open", l, 0, "") /\ OpenRequest(l)
    BY <1>8
  <2>3. x \in Event
    <3>1. /\ ContactEvent("closed", l, contact[l], "user") \in Event
          /\ ContactEvent("open", l, 0, "") \in Event
      BY <2>1, EventTypes
    <3> QED
      BY <2>2, <3>1
  <2>4. x.type # "received" /\ x.b = NoBundle
    <3>1. CASE x = ContactEvent("closed", l, contact[l], "user")
      BY <3>1 DEF ContactEvent
    <3>2. CASE x = ContactEvent("open", l, 0, "")
      BY <3>2 DEF ContactEvent
    <3> QED
      BY <2>2, <3>1, <3>2
  <2>5. eventq' = Append(eventq, x) /\ all' = all
    BY <2>2 DEF CloseRequest, OpenRequest, Post, bundleVars
  <2> QED
    BY <1>3, <2>3, <2>4, <2>5
<1> QED
  BY <1>4, <1>5, <1>6, <1>7, <1>8 DEF Environment

LEMMA FreeUntouched ==
    ASSUME IInv, NEW d \in Bundles, Free(d), FreshUntouched, NEW b \in Bundles, Fresh(b)'
    PROVE  Untouched(b)'
<1>1. /\ UNCHANGED <<pending, custody, expTimer, ctimer, queue, inflight, deferred, sending, cmds,
                     calls, eventq>>
      /\ calls = <<>> /\ ~Referenced(d) /\ all' = all \ {d}
      /\ blocks' = {p \in blocks : p[1] # d}
      /\ fwd' = [fwd EXCEPT ![d] = [l \in Links |-> "none"]]
      /\ fwd \in [Bundles -> [Links -> FwdStates]]
  BY DEF Free, linkVars, connVars, daemonVars, Idle, IInv, TypeOK, RouteTypes
<1>2. CASE b = d
  <2>1. Unlogged(b)'
    BY <1>1, <1>2 DEF Referenced, Unlogged
  <2>2. Unlisted(b)'
    BY <1>1, <1>2 DEF Referenced, Unlisted
  <2>3. Unnamed(b)'
    BY <1>1, <1>2, ElementsOfEmpty DEF Referenced, Unnamed
  <2> QED
    BY <2>1, <2>2, <2>3 DEF Untouched
<1>3. CASE b # d
  <2>1. Fresh(b)
    BY <1>1, <1>3 DEF Fresh, Queued
  <2>2. fwd'[b] = fwd[b] /\ blocks' \subseteq blocks
    BY <1>1, <1>3
  <2> QED
    BY <1>1, <2>1, <2>2 DEF FreshUntouched, Untouched, Unlogged, Unlisted, Unnamed
<1> QED
  BY <1>2, <1>3

LEMMA CrashUntouched == Crash => FreshUntouched'
<1> SUFFICES ASSUME Crash PROVE FreshUntouched'
  OBVIOUS
<1>1. PICK x : x = DoCall("load", NoBundle, NoLink)
  OBVIOUS
<1>2. x.b = NoBundle
  BY <1>1 DEF DoCall
<1>3. ToSet(calls') = {x}
  BY <1>1, ElementsOfOne DEF Crash
<1> QED
  BY <1>2, <1>3, ElementsOfEmpty, BundlesAssumption
  DEF Crash, FreshUntouched, Untouched, Unlogged, Unlisted, Unnamed

LEMMA NextFresh == ASSUME IInv, IInv', FreshUntouched, [Next]_vars PROVE FreshUntouched'
<1>1. TypeOK'
  BY DEF IInv
<1>2. CASE Crash
  BY <1>2, CrashUntouched
<1>3. CASE UNCHANGED vars
  BY <1>3
  DEF FreshUntouched, Fresh, Untouched, Unlogged, Unlisted, Unnamed, Queued, vars, bundleVars,
      routeVars, linkVars, connVars, daemonVars
<1>4. ASSUME NEW b \in Bundles, Fresh(b)', ~Crash, Next PROVE Untouched(b)'
  <2>1. CASE HandleEvent
    BY <1>1, <1>4, <2>1, HandlersUntouched
  <2>2. CASE Continue
    BY <1>1, <1>4, <2>2, ContinueUntouched
  <2>3. ASSUME NEW d \in Bundles, Free(d) PROVE Untouched(b)'
    BY <1>4, <2>3, FreeUntouched
  <2>4. CASE Timers
    BY <1>1, <1>4, <2>4, TimersUntouched
  <2>5. ASSUME NEW l \in Links, Connection(l) PROVE Untouched(b)'
    BY <1>1, <1>4, <2>5, ConnectionsUntouched
  <2>6. CASE Environment
    BY <1>1, <1>4, <2>6, EnvironmentUntouched
  <2> QED
    BY <1>4, <2>1, <2>2, <2>3, <2>4, <2>5, <2>6 DEF Next
<1>5. CASE Next /\ ~Crash
  BY <1>4, <1>5 DEF FreshUntouched
<1> QED
  BY <1>2, <1>3, <1>5

-----------------------------------------------------------------------------
(* The forwarding log.                                                     *)

\* Only what is not logged as transmitted has blocks, or is about to get them.
LogCoherent ==
    /\ \A b \in Bundles, l \in Links : <<b, l>> \in blocks => fwd[b][l] # "transmitted"
    /\ \A c \in ToSet(calls) : c.op = "forward" => fwd[c.b][c.l] # "transmitted"

LEMMA InitLog == Init => LogCoherent
BY ElementsOfEmpty DEF Init, LogCoherent

\* What a step may make of an entry of the log.
LogChange(b, l) ==
    \/ fwd'[b][l] = fwd[b][l]
    \/ fwd[b][l] # "transmitted" /\ fwd'[b][l] \in {"received", "cancelled", "queued"}
    \/ /\ HandleTransmitted /\ b = Ev.b /\ l = Ev.l /\ fwd'[b][l] = "transmitted"
       /\ <<b, l>> \in blocks /\ blocks' = blocks \ {<<b, l>>}
    \/ HandleCustodyTimeout /\ fwd'[b][l] = "custodytimeout"
    \/ b \notin all' /\ fwd'[b][l] = "none"

LEMMA HandlersChange ==
    ASSUME IInv, FreshUntouched, LogCoherent, HandleEvent, NEW b \in Bundles, NEW l \in Links
    PROVE  LogChange(b, l)
<1>1. PICK d, m : d = Ev.b /\ m = Ev.l
  OBVIOUS
<1>2. fwd \in [Bundles -> [Links -> FwdStates]]
  BY DEF IInv, TypeOK, RouteTypes
<1>3. \/ UNCHANGED fwd
      \/ Handle("received") /\ Reception(d, m)
      \/ /\ HandleTransmitted /\ <<d, m>> \in blocks /\ blocks' = blocks \ {<<d, m>>}
         /\ fwd' = [fwd EXCEPT ![d][m] = "transmitted"]
      \/ <<d, m>> \in blocks /\ fwd' = [fwd EXCEPT ![d][m] = "cancelled"]
      \/ HandleCustodyTimeout /\ fwd' = [fwd EXCEPT ![d][m] = "custodytimeout"]
  BY <1>1
  DEF HandleEvent, DiscardDuplicate, ReceiveExpired, ReceiveBundle, HandleTransmitted,
      HandleSendCancelled, LogCancelled, HandleExpired, HandleDeleteRequest, HandleDeletion,
      HandleCancelSend, HandleCustodySignal, HandleCustodyTimeout, LogTimeout, HandleContactUp,
      HandleContactDown, HandleClosed, HandleOpen, routeVars
<1>4. CASE Handle("received") /\ Reception(d, m)
  <2>1. Fresh(d)
    <3>1. Ev \in ToSet(eventq) /\ Ev.type = "received"
      BY <1>4, ElementsOfTail DEF Handle, Ev, IInv, TypeOK, DaemonTypes
    <3> QED
      BY <1>1, <3>1 DEF Fresh, Queued
  <2>2. d = b => fwd[b][l] = "none"
    BY <2>1 DEF FreshUntouched, Untouched, Unlogged
  <2>3. UNCHANGED fwd \/ fwd' = [fwd EXCEPT ![d][m] = "received"]
    BY <1>4 DEF Reception
  <2> QED
    BY <1>2, <2>2, <2>3 DEF LogChange
<1>5. CASE /\ HandleTransmitted /\ <<d, m>> \in blocks /\ blocks' = blocks \ {<<d, m>>}
           /\ fwd' = [fwd EXCEPT ![d][m] = "transmitted"]
  <2>1. fwd'[b][l] = IF b = d /\ l = m THEN "transmitted" ELSE fwd[b][l]
    BY <1>2, <1>5
  <2> QED
    BY <1>1, <1>5, <2>1 DEF LogChange
<1>6. CASE <<d, m>> \in blocks /\ fwd' = [fwd EXCEPT ![d][m] = "cancelled"]
  <2>1. fwd'[b][l] = IF b = d /\ l = m THEN "cancelled" ELSE fwd[b][l]
    BY <1>2, <1>6
  <2> QED
    BY <1>6, <2>1 DEF LogChange, LogCoherent
<1>7. CASE HandleCustodyTimeout /\ fwd' = [fwd EXCEPT ![d][m] = "custodytimeout"]
  <2>1. fwd'[b][l] = IF b = d /\ l = m THEN "custodytimeout" ELSE fwd[b][l]
    BY <1>2, <1>7
  <2> QED
    BY <1>7, <2>1 DEF LogChange
<1> QED
  BY <1>3, <1>4, <1>5, <1>6, <1>7 DEF LogChange

\* queue_bundle is called for what is not logged as transmitted.
LEMMA QueuedByStep ==
    ASSUME IInv, LogCoherent, Continue
    PROVE  \/ UNCHANGED <<fwd, blocks>>
           \/ \E d \in Bundles, m \in Links : QueueBundle(d, m) /\ fwd[d][m] # "transmitted"
<1>1. TypeOK
  BY DEF IInv
<1>2. CASE ForwardBundle
  <2>1. Now \in ToSet(calls) /\ Now.op = "forward" /\ Now.b \in Bundles /\ Now.l \in Links
    BY <1>1, <1>2, SteppedNow, SteppedCall, CallShape DEF ForwardBundle
  <2>2. UNCHANGED <<fwd, blocks>> \/ QueueBundle(Now.b, Now.l)
    BY <1>2 DEF ForwardBundle
  <2> QED
    BY <2>1, <2>2 DEF LogCoherent
<1>3. CASE DrainDeferred
  <2>1. Now.b \in Bundles /\ Now.l \in Links
    BY <1>1, <1>3, SteppedCall, CallShape DEF DrainDeferred
  <2>2. \/ UNCHANGED <<fwd, blocks>>
        \/ QueueBundle(Now.b, Now.l) /\ ShouldFwd(Now.b, Now.l)
    BY <1>3 DEF DrainDeferred
  <2> QED
    BY <2>1, <2>2 DEF ShouldFwd, Waiting
<1>4. CASE ~ForwardBundle /\ ~DrainDeferred
  BY <1>4
  DEF Continue, RouteBundle, CheckNextHop, CancelBundle, TryToDelete, Requeue, CloseContact,
      LoadBundle, LoadExpired, LoadDone, routeVars
<1> QED
  BY <1>2, <1>3, <1>4

LEMMA NextChanges ==
    ASSUME IInv, FreshUntouched, LogCoherent, [Next]_vars, NEW b \in Bundles, NEW l \in Links
    PROVE  LogChange(b, l)
<1>1. fwd \in [Bundles -> [Links -> FwdStates]]
  BY DEF IInv, TypeOK, RouteTypes
<1>2. CASE HandleEvent
  BY <1>2, HandlersChange
<1>3. CASE Continue
  <2>1. ASSUME NEW d \in Bundles, NEW m \in Links, QueueBundle(d, m), fwd[d][m] # "transmitted"
        PROVE  LogChange(b, l)
    <3>1. \/ UNCHANGED fwd
          \/ fwd' = [fwd EXCEPT ![d][m] = "queued"]
      BY <2>1 DEF QueueBundle
    <3>2. \/ fwd'[b][l] = fwd[b][l]
          \/ b = d /\ l = m /\ fwd'[b][l] = "queued"
      BY <1>1, <3>1
    <3> QED
      BY <2>1, <3>2 DEF LogChange
  <2> QED
    BY <1>3, <2>1, QueuedByStep DEF LogChange
<1>4. ASSUME NEW d \in Bundles, Free(d) PROVE LogChange(b, l)
  <2>1. fwd' = [fwd EXCEPT ![d] = [m \in Links |-> "none"]] /\ all' = all \ {d}
    BY <1>4 DEF Free
  <2> QED
    BY <1>1, <2>1 DEF LogChange
<1>5. CASE Crash
  BY <1>5 DEF Crash, LogChange
<1>6. CASE Timers \/ (Environment /\ ~Crash) \/ UNCHANGED vars \/ \E m \in Links : Connection(m)
  <2>1. UNCHANGED fwd
    BY <1>6
    DEF Timers, ExpirationTimer, CustodyTimer, CancelledTimer, RerouteTimer, Environment, Arrive,
        CancelRequest, CancelSend, CustodySignal, CloseRequest, OpenRequest, Connection,
        ConnectionUp, AcceptConnection, StartNextBundle, SendSegment, AckBundle, CancelCommand,
        BreakContact, BreakCommand, routeVars, vars
  <2> QED
    BY <2>1 DEF LogChange
<1> QED
  BY <1>2, <1>3, <1>4, <1>5, <1>6 DEF Next

\* Blocks are added for what is not logged as transmitted.
LEMMA NewBlocks ==
    ASSUME IInv, LogCoherent, [Next]_vars, NEW b \in Bundles, NEW l \in Links,
           <<b, l>> \in blocks'
    PROVE  fwd[b][l] # "transmitted"
<1>1. CASE Continue
  <2>1. ASSUME NEW d \in Bundles, NEW m \in Links, QueueBundle(d, m), fwd[d][m] # "transmitted"
        PROVE  fwd[b][l] # "transmitted"
    BY <2>1 DEF QueueBundle, LogCoherent
  <2> QED
    BY <1>1, <2>1, QueuedByStep DEF LogCoherent
<1>2. CASE ~Continue
  <2>1. blocks' \subseteq blocks
    <3>1. CASE HandleEvent
      BY <3>1
      DEF HandleEvent, DiscardDuplicate, ReceiveExpired, ReceiveBundle, HandleTransmitted,
          HandleSendCancelled, LogCancelled, HandleExpired, HandleDeleteRequest, HandleDeletion,
          HandleCancelSend, HandleCustodySignal, HandleCustodyTimeout, HandleContactUp,
          HandleContactDown, HandleClosed, HandleOpen, routeVars
    <3>2. CASE \E d \in Bundles : Free(d)
      BY <3>2 DEF Free
    <3>3. CASE Timers \/ Environment \/ UNCHANGED vars \/ \E m \in Links : Connection(m)
      BY <3>3
      DEF Timers, ExpirationTimer, CustodyTimer, CancelledTimer, RerouteTimer, Environment,
          Arrive, CancelRequest, CancelSend, CustodySignal, CloseRequest, OpenRequest, Crash,
          Connection, ConnectionUp, AcceptConnection, StartNextBundle, SendSegment, AckBundle,
          CancelCommand, BreakContact, BreakCommand, routeVars, vars
    <3> QED
      BY <1>2, <3>1, <3>2, <3>3 DEF Next
  <2> QED
    BY <2>1 DEF LogCoherent
<1> QED
  BY <1>1, <1>2

\* So are the calls to fwd_to_nexthop made.
LEMMA NewForwards ==
    ASSUME IInv, TypeOK', LogCoherent, [Next]_vars, NEW c \in ToSet(calls'), c.op = "forward"
    PROVE  /\ c.b \in Bundles /\ c.l \in Links
           /\ fwd[c.b][c.l] # "transmitted" /\ ~HandleTransmitted
<1>1. c \in Call /\ TypeOK /\ calls \in Seq(Call)
  BY ElementsOf DEF TypeOK, DaemonTypes, IInv
<1>2. c.b \in Bundles /\ c.l \in Links
  BY <1>1, CallShape
<1>3. ~HandleEvent
  BY <1>1, HandlerPushes
<1>4. \/ c \in ToSet(calls)
      \/ ShouldFwdRoute(c.b, c.l)
  <2>1. CASE LoadBundle \/ LoadExpired
    <3>1. UNCHANGED calls \/ \E b \in Bundles : calls' = calls \o RouteCalls(b)
      BY <2>1 DEF LoadBundle, LoadExpired
    <3>2. ASSUME NEW b \in Bundles, calls' = calls \o RouteCalls(b) PROVE c \in ToSet(calls)
      <4>1. ToSet(calls \o RouteCalls(b)) = ToSet(calls) \cup ToSet(RouteCalls(b))
        BY <1>1, RouteCallsType, ElementsOfConcat
      <4> QED
        BY <3>2, <4>1, CallsOfRoutes
    <3> QED
      BY <3>1, <3>2
  <2>2. CASE LoadDone
    BY <1>1, <2>2, ElementsOfTail DEF LoadDone, Idle
  <2>3. CASE Continue /\ ~LoadBundle /\ ~LoadExpired /\ ~LoadDone
    <3>1. \/ c \in ToSet(calls)
          \/ c = DoCall("forward", Now.b, Now.l) /\ ShouldFwdRoute(Now.b, Now.l)
      BY <1>1, <2>3, StepPushes
    <3>2. c = DoCall("forward", Now.b, Now.l) => c.b = Now.b /\ c.l = Now.l
      BY DEF DoCall
    <3> QED
      BY <3>1, <3>2
  <2>4. CASE Crash
    <3>1. DoCall("load", NoBundle, NoLink).op = "load"
      BY DEF DoCall
    <3> QED
      BY <2>4, <3>1, ElementsOfOne DEF Crash
  <2>5. CASE Timers \/ (Environment /\ ~Crash) \/ UNCHANGED vars
             \/ (\E m \in Links : Connection(m)) \/ \E d \in Bundles : Free(d)
    <3>1. UNCHANGED calls
      BY <2>5
      DEF Timers, ExpirationTimer, CustodyTimer, CancelledTimer, RerouteTimer, Environment,
          Arrive, CancelRequest, CancelSend, CustodySignal, CloseRequest, OpenRequest,
          Connection, ConnectionUp, AcceptConnection, StartNextBundle, SendSegment, AckBundle,
          CancelCommand, BreakContact, BreakCommand, Free, daemonVars, vars
    <3> QED
      BY <3>1
  <2> QED
    BY <1>3, <2>1, <2>2, <2>3, <2>4, <2>5 DEF Next
<1>5. ShouldFwdRoute(c.b, c.l) => fwd[c.b][c.l] # "transmitted"
  BY <1>2 DEF ShouldFwdRoute, ShouldFwd, Waiting
<1> QED
  BY <1>2, <1>3, <1>4, <1>5 DEF LogCoherent, HandleEvent

LEMMA NextLog ==
    ASSUME IInv, IInv', FreshUntouched, LogCoherent, [Next]_vars PROVE LogCoherent'
<1>1. TypeOK'
  BY DEF IInv
<1>2. ASSUME NEW b \in Bundles, NEW l \in Links, <<b, l>> \in blocks'
      PROVE  fwd'[b][l] # "transmitted"
  BY <1>2, NewBlocks, NextChanges DEF LogChange
<1>3. ASSUME NEW c \in ToSet(calls'), c.op = "forward" PROVE fwd'[c.b][c.l] # "transmitted"
  BY <1>1, <1>3, NewForwards, NextChanges DEF LogChange
<1> QED
  BY <1>2, <1>3 DEF LogCoherent

\* An acknowledged transmission stays in the forwarding log until the bundle is
\* freed or its custody timer expires: a late cancellation, a second copy of the
\* event, or routing the bundle again cannot take it back.
THEOREM TransmittedIsKept == Spec => TransmittedSticks
<1> DEFINE Inv == IInv /\ FreshUntouched /\ LogCoherent
<1>1. Init => Inv
  BY InitCoherent, InitFresh, InitLog
<1>2. Inv /\ [Next]_vars => Inv'
  BY NextCoherent, NextFresh, NextLog
<1>3. Inv /\ [Next]_vars =>
        [\A b \in Bundles, l \in Links :
           fwd[b][l] = "transmitted" /\ fwd'[b][l] # "transmitted" =>
             fwd'[b][l] = "custodytimeout" \/ b \notin all']_vars
  BY NextChanges DEF LogChange
<1> QED
  BY <1>1, <1>2, <1>3, PTL DEF Spec, TransmittedSticks

-----------------------------------------------------------------------------
(* Custody timers of what has been transmitted.                            *)

Retried(b, l) ==
    \/ ctimer[b][l] = "pending"
    \/ ctimer[b][l] = "fired" /\ BundleEvent("custodytimeout", b, l) \in ToSet(eventq)

\* A bundle enters custody with nothing in the log.
LEMMA NewInCustody ==
    ASSUME IInv, FreshUntouched, LogCoherent, [Next]_vars, NEW b \in local', b \notin local,
           b \in Bundles, NEW l \in Links
    PROVE  fwd'[b][l] # "transmitted"
<1>1. \/ ReceiveBundle /\ b = Ev.b
      \/ (LoadBundle \/ LoadExpired) /\ b \notin all
  <2>1. CASE HandleEvent
    <3>1. CASE ReceiveBundle
      BY <3>1 DEF ReceiveBundle
    <3>2. CASE ~ReceiveBundle
      BY <2>1, <3>2
      DEF HandleEvent, DiscardDuplicate, ReceiveExpired, HandleTransmitted,
          HandleSendCancelled, HandleExpired, HandleDeleteRequest, HandleDeletion, DeleteBundle,
          ReleaseCustody, HandleCancelSend, HandleCustodySignal, HandleCustodyTimeout,
          HandleContactUp, HandleContactDown, HandleClosed, HandleOpen, bundleVars
    <3> QED
      BY <3>1, <3>2
  <2>2. CASE LoadBundle \/ LoadExpired
    <3>1. PICK d \in Bundles \ all : local' = local \cup {d} \/ UNCHANGED local
      BY <2>2 DEF LoadBundle, LoadExpired
    <3> QED
      BY <2>2, <3>1
  <2>3. CASE Continue /\ ~LoadBundle /\ ~LoadExpired
    BY <2>3
    DEF Continue, RouteBundle, ForwardBundle, CheckNextHop, DrainDeferred, CancelBundle,
        TryToDelete, DeleteBundle, ReleaseCustody, Requeue, CloseContact, LoadDone, bundleVars
  <2>4. CASE Timers \/ (\E d \in Bundles : Free(d)) \/ UNCHANGED vars \/ Environment
             \/ \E m \in Links : Connection(m)
    BY <2>4
    DEF Free, Timers, ExpirationTimer, CustodyTimer, CancelledTimer, RerouteTimer, Connection,
        ConnectionUp, AcceptConnection, StartNextBundle, SendSegment, AckBundle, CancelCommand,
        BreakContact, BreakCommand, Environment, Arrive, CancelRequest, CancelSend,
        CustodySignal, CloseRequest, OpenRequest, Crash, bundleVars, vars
  <2> QED
    BY <2>1, <2>2, <2>3, <2>4 DEF Next
<1>2. Fresh(b) /\ ~HandleTransmitted
  <2>1. CASE ReceiveBundle /\ b = Ev.b
    <3>1. Ev \in ToSet(eventq) /\ Ev.type = "received"
      BY <2>1, ElementsOfTail DEF ReceiveBundle, Handle, Ev, IInv, TypeOK, DaemonTypes
    <3> QED
      BY <2>1, <3>1 DEF Fresh, Queued, HandleTransmitted, Handle, Ev
  <2>2. CASE (LoadBundle \/ LoadExpired) /\ b \notin all
    BY <2>2 DEF Fresh, LoadBundle, LoadExpired, HandleTransmitted, Handle
  <2> QED
    BY <1>1, <2>1, <2>2
<1>3. fwd[b][l] = "none"
  BY <1>2 DEF FreshUntouched, Untouched, Unlogged
<1> QED
  BY <1>2, <1>3, NextChanges DEF LogChange

\* release_custody cancels the timers of a bundle that is not in custody then.
LEMMA ReleasedTimers ==
    ASSUME TypeOK, NEW d \in Bundles, ReleaseCustody(d), NEW b \in local', NEW l \in Links
    PROVE  ctimer'[b][l] = ctimer[b][l]
BY ReleaseOther DEF ReleaseCustody, TypeOK, BundleTypes

\* What a step may make of the timer of a bundle that stays in custody.
LEMMA TimerChange ==
    ASSUME IInv, [Next]_vars, NEW b \in Bundles, b \in local, b \in local', NEW l \in Links
    PROVE  \/ ctimer'[b][l] = ctimer[b][l]
           \/ ctimer'[b][l] = "pending"
           \/ CustodyTimer(b, l)
           \/ ctimer[b][l] = "fired" /\ fwd'[b][l] # "transmitted"
           \/ ctimer[b][l] = "cancelled"
<1>1. TypeOK /\ ctimer \in [Bundles -> [Links -> TimerStates]]
      /\ fwd \in [Bundles -> [Links -> FwdStates]]
  BY DEF IInv, TypeOK, BundleTypes, RouteTypes
<1>2. CASE HandleEvent
  <2>1. PICK d, m : d = Ev.b /\ m = Ev.l
    OBVIOUS
  <2>2. \/ UNCHANGED ctimer
        \/ ctimer' = [ctimer EXCEPT ![d][m] = "pending"]
        \/ \E x \in Bundles : ReleaseCustody(x)
        \/ HandleCustodyTimeout
    <3>1. \A x \in custody : x \in Bundles
      BY <1>1 DEF TypeOK, BundleTypes
    <3>2. HandleExpired \/ HandleDeleteRequest => d \in Bundles
      BY <1>1, <2>1, HandledEvent, EventShape
      DEF HandleExpired, HandleDeleteRequest, HandleDeletion
    <3> QED
      BY <1>2, <2>1, <3>1, <3>2
      DEF HandleEvent, DiscardDuplicate, ReceiveExpired, ReceiveBundle, HandleTransmitted,
          HandleSendCancelled, HandleExpired, HandleDeleteRequest, HandleDeletion, DeleteBundle,
          HandleCancelSend, HandleCustodySignal, HandleContactUp, HandleContactDown,
          HandleClosed, HandleOpen, bundleVars
  <2>3. CASE ctimer' = [ctimer EXCEPT ![d][m] = "pending"]
    BY <1>1, <2>3
  <2>4. CASE HandleCustodyTimeout
    <3>1. \/ UNCHANGED ctimer
          \/ /\ ctimer[d][m] = "fired" /\ ctimer' = [ctimer EXCEPT ![d][m] = "none"]
             /\ fwd' = IF fwd[d][m] = "none" THEN fwd
                       ELSE [fwd EXCEPT ![d][m] = "custodytimeout"]
      BY <2>1, <2>4 DEF HandleCustodyTimeout, LogTimeout
    <3>2. CASE d = b /\ m = l
      BY <1>1, <3>1, <3>2
    <3>3. CASE ~(d = b /\ m = l)
      BY <1>1, <3>1, <3>3
    <3> QED
      BY <3>2, <3>3
  <2> QED
    BY <1>1, <2>2, <2>3, <2>4, ReleasedTimers
<1>3. CASE Continue
  <2>1. UNCHANGED ctimer \/ \E x \in Bundles : ReleaseCustody(x)
    <3>1. TryToDelete => Now.b \in Bundles
      BY <1>1, SteppedCall, CallShape DEF TryToDelete
    <3> QED
      BY <1>3, <3>1
      DEF Continue, RouteBundle, ForwardBundle, CheckNextHop, DrainDeferred, CancelBundle,
          TryToDelete, DeleteBundle, Requeue, CloseContact, LoadBundle, LoadExpired, LoadDone,
          bundleVars
  <2> QED
    BY <1>1, <2>1, ReleasedTimers
<1>4. CASE Timers
  <2>1. \/ UNCHANGED ctimer
        \/ \E d \in Bundles, m \in Links :
              /\ ctimer[d][m] = "cancelled" /\ ctimer' = [ctimer EXCEPT ![d][m] = "none"]
        \/ \E d \in Bundles, m \in Links :
              CustodyTimer(d, m) /\ ctimer' = [ctimer EXCEPT ![d][m] = "fired"]
    BY <1>4 DEF Timers, ExpirationTimer, CustodyTimer, CancelledTimer, RerouteTimer, bundleVars
  <2>2. ASSUME NEW d \in Bundles, NEW m \in Links, NEW t,
               ctimer' = [ctimer EXCEPT ![d][m] = t]
        PROVE  ctimer'[b][l] = ctimer[b][l] \/ (d = b /\ m = l)
    BY <1>1, <2>2
  <2> QED
    BY <2>1, <2>2
<1>5. CASE Environment \/ UNCHANGED vars \/ (\E m \in Links : Connection(m))
           \/ \E d \in Bundles : Free(d)
  <2>1. UNCHANGED ctimer \/ Crash
    BY <1>5
    DEF Environment, Arrive, CancelRequest, CancelSend, CustodySignal, CloseRequest, OpenRequest,
        Connection, ConnectionUp, AcceptConnection, StartNextBundle, SendSegment, AckBundle,
        CancelCommand, BreakContact, BreakCommand, Free, bundleVars, vars
  <2> QED
    BY <2>1 DEF Crash
<1> QED
  BY <1>2, <1>3, <1>4, <1>5 DEF Next

LEMMA NextRetries ==
    ASSUME IInv, IInv', FreshUntouched, LogCoherent, CustodyRetried, [Next]_vars
    PROVE  CustodyRetried'
<1>1. TypeOK /\ TypeOK' /\ local \subseteq Bundles
  BY DEF IInv, TypeOK, BundleTypes
<1> SUFFICES ASSUME NEW b \in local', NEW l \in Links, fwd'[b][l] = "transmitted"
             PROVE  Retried(b, l)'
  BY DEF CustodyRetried, Retried
<1>2. b \in Bundles
  BY <1>1 DEF TypeOK, BundleTypes
<1>3. b \in local /\ LogChange(b, l) /\ ~Crash
  BY <1>2, NewInCustody, NextChanges DEF Crash
<1>4. CASE HandleTransmitted /\ b = Ev.b /\ l = Ev.l /\ <<b, l>> \in blocks
  <2>1. ctimer' = [ctimer EXCEPT ![b][l] = "pending"]
    BY <1>3, <1>4 DEF HandleTransmitted
  <2> QED
    BY <1>1, <1>2, <2>1 DEF Retried, TypeOK, BundleTypes
<1>5. CASE fwd[b][l] = "transmitted"
  <2>1. PICK x : x = BundleEvent("custodytimeout", b, l)
    OBVIOUS
  <2>2. x.type = "custodytimeout" /\ x.b = b /\ x.l = l
    BY <2>1 DEF BundleEvent
  <2>3. \/ ctimer[b][l] = "pending"
        \/ ctimer[b][l] = "fired" /\ x \in ToSet(eventq)
    BY <1>3, <1>5, <2>1 DEF CustodyRetried
  <2>4. CASE CustodyTimer(b, l)
    <3>1. x \in Event /\ eventq \in Seq(Event)
      BY <1>1, <1>2, <2>1, EventTypes DEF TypeOK, DaemonTypes
    <3>2. eventq' = Append(eventq, x) /\ ctimer' = [ctimer EXCEPT ![b][l] = "fired"]
      BY <2>1, <2>4 DEF CustodyTimer, Post
    <3>3. x \in ToSet(eventq')
      BY <3>1, <3>2, ElementsOfAppend
    <3>4. ctimer'[b][l] = "fired"
      BY <1>1, <1>2, <3>2 DEF TypeOK, BundleTypes
    <3> QED
      BY <2>1, <3>3, <3>4 DEF Retried
  <2>5. CASE ctimer'[b][l] = ctimer[b][l] /\ x \in ToSet(eventq) /\ ctimer[b][l] = "fired"
    <3>1. ASSUME HandleEvent PROVE x \in ToSet(eventq')
      <4>1. ASSUME x = Ev PROVE FALSE
        <5>1. HandleCustodyTimeout
          BY <2>2, <3>1, <4>1
          DEF HandleEvent, DiscardDuplicate, ReceiveExpired, ReceiveBundle, HandleTransmitted,
              HandleSendCancelled, HandleExpired, HandleDeleteRequest, HandleDeletion,
              HandleCancelSend, HandleCustodySignal, HandleContactUp, HandleContactDown,
              HandleClosed, HandleOpen, Handle, Ev
        <5>2. ctimer' = [ctimer EXCEPT ![b][l] = "none"]
          BY <2>2, <2>5, <4>1, <5>1 DEF HandleCustodyTimeout
        <5> QED
          BY <1>1, <1>2, <2>5, <5>2 DEF TypeOK, BundleTypes
      <4> QED
        BY <1>1, <2>5, <3>1, <4>1, HandlerKeeps
    <3>2. ASSUME ~HandleEvent PROVE x \in ToSet(eventq')
      <4>1. QueueStays
        BY <1>1, <1>3, <3>2, EventsKept DEF Next
      <4> QED
        BY <2>5, <4>1 DEF QueueStays
    <3> QED
      BY <2>1, <2>5, <3>1, <3>2 DEF Retried
  <2> QED
    BY <1>2, <1>3, <2>3, <2>4, <2>5, TimerChange DEF Retried
<1> QED
  BY <1>3, <1>4, <1>5 DEF LogChange

\* A custodian that has sent a bundle has its custody timer running, or the
\* timeout in the event queue: no order of acknowledgements, timeouts and custody
\* signals leaves a transmitted bundle in custody that nobody will send again.
THEOREM CustodyIsRetried == Spec => []CustodyRetried
<1> DEFINE Inv == IInv /\ FreshUntouched /\ LogCoherent /\ CustodyRetried
<1>1. Init => Inv
  <2>1. Init => CustodyRetried
    BY DEF Init, CustodyRetried
  <2> QED
    BY <2>1, InitCoherent, InitFresh, InitLog
<1>2. Inv /\ [Next]_vars => Inv'
  BY NextCoherent, NextFresh, NextLog, NextRetries
<1> QED
  BY <1>1, <1>2, PTL DEF Spec

-----------------------------------------------------------------------------
(* The reverse path, while no restart empties the reception cache.         *)

Seen(b) == rcache[Key[b]] # Unseen
NotBack(b, l) == rcache[Key[b]] \notin {Unseen, Remote[l]}

\* The router has chosen the link for the bundle, or is about to.
Marked(b, l) ==
    <<b, l>> \in blocks \/ fwd[b][l] \in Waiting \/ b \in ToSet(deferred[l])

\* Only route_bundle checks the reverse path: whatever it leads to was checked, and
\* nothing is routed before the previous hop of its identity is in the cache.
ReverseChecked ==
    /\ NoLoad(calls)
    /\ \A b \in Bundles, l \in Links : /\ Marked(b, l) => NotBack(b, l)
                                       /\ ctimer[b][l] \in Running => Seen(b)
    /\ \A b \in expTimer : Seen(b)
    /\ \A e \in ToSet(eventq) : e.type = "custodytimeout" => Seen(e.b)
    /\ \A c \in ToSet(calls) : /\ c.op \in {"forward", "drain"} => NotBack(c.b, c.l)
                               /\ c.op = "route" => Seen(c.b)

LEMMA InitReverse == Init => ReverseChecked
BY NoLoadSeq, ElementsOfEmpty DEF Init, ReverseChecked, Marked, Waiting, Running

LEMMA ReverseStep ==
    ASSUME TypeOK', ReverseChecked, NoLoad(calls'),
           \A b \in Bundles : Seen(b) => rcache'[Key[b]] = rcache[Key[b]],
           \A b \in Bundles, l \in Links :
              /\ Marked(b, l)' => Marked(b, l) \/ NotBack(b, l)
              /\ ctimer'[b][l] \in Running => ctimer[b][l] \in Running \/ Seen(b),
           \A b \in expTimer' : b \in expTimer \/ Seen(b)',
           \A e \in ToSet(eventq') :
              e.type = "custodytimeout" => e \in ToSet(eventq) \/ Seen(e.b),
           \A c \in ToSet(calls') :
              \/ c \in ToSet(calls)
              \/ /\ c.op \in {"forward", "drain"} => NotBack(c.b, c.l)
                 /\ c.op = "route" => Seen(c.b)'
    PROVE  ReverseChecked'
<1>1. \A b \in Bundles : /\ Seen(b) => Seen(b)'
                         /\ \A l : NotBack(b, l) => NotBack(b, l)'
  BY DEF Seen, NotBack
<1>2. \A b \in Bundles, l \in Links : /\ Marked(b, l)' => NotBack(b, l)'
                                      /\ ctimer'[b][l] \in Running => Seen(b)'
  BY <1>1 DEF ReverseChecked
<1>3. \A b \in expTimer' : Seen(b)'
  BY <1>1 DEF ReverseChecked, TypeOK, BundleTypes
<1>4. ASSUME NEW e \in ToSet(eventq'), e.type = "custodytimeout" PROVE Seen(e.b)'
  <2>1. e \in Event
    BY <1>4, ElementsOf DEF TypeOK, DaemonTypes
  <2> QED
    BY <1>1, <1>4, <2>1, EventShape DEF ReverseChecked
<1>5. ASSUME NEW c \in ToSet(calls')
      PROVE  /\ c.op \in {"forward", "drain"} => NotBack(c.b, c.l)'
             /\ c.op = "route" => Seen(c.b)'
  <2>1. c \in Call
    BY <1>5, ElementsOf DEF TypeOK, DaemonTypes
  <2> QED
    BY <1>1, <1>5, <2>1, CallShape DEF ReverseChecked
<1> QED
  BY <1>2, <1>3, <1>4, <1>5 DEF ReverseChecked

\* A bundle that is received has its identity in the reception cache.
LEMMA ReceivedIsSeen ==
    ASSUME TypeOK, ReceiveBundle, NEW d, d = Ev.b PROVE d \in Bundles /\ Seen(d)'
<1>1. d \in Bundles /\ Key[d] \in Keys
  BY HandledEvent, EventShape, BundlesAssumption DEF ReceiveBundle
<1>2. PICK k : k = Key[d]
  OBVIOUS
<1>3. \/ rcache[k] # Unseen /\ UNCHANGED rcache
      \/ rcache' = [rcache EXCEPT ![k] = NullEid]
      \/ Ev.l # NoLink /\ rcache' = [rcache EXCEPT ![k] = Remote[Ev.l]]
  BY <1>2 DEF ReceiveBundle
<1>4. Ev.l # NoLink => Remote[Ev.l] \in Nodes
  BY HandledEvent, EventShape, LinksAssumption DEF ReceiveBundle
<1>5. rcache'[k] # Unseen
  BY <1>1, <1>2, <1>3, <1>4, LinksAssumption DEF TypeOK, RouteTypes, Unseen, NullEid
<1> QED
  BY <1>1, <1>2, <1>5 DEF Seen

\* What a handler leaves to route.
LEMMA HandlerRoutes ==
    ASSUME TypeOK, TypeOK', ReverseChecked, HandleEvent, NEW c \in ToSet(calls'), c.op = "route"
    PROVE  Seen(c.b)'
<1>0. PICK b : b = Ev.b
  OBVIOUS
<1>1. /\ calls = <<>> /\ Ev \in ToSet(eventq)
  BY HandlerEvents, HandlerKeeps
<1>2. CASE ReceiveBundle
  <2>1. PICK x : x = DoCall("trydelete", b, NoLink)
    OBVIOUS
  <2>2. b \in Bundles /\ Seen(b)'
    BY <1>0, <1>2, ReceivedIsSeen
  <2>4. x \in Call /\ x.op = "trydelete"
    BY <2>1, <2>2, CallTypes DEF DoCall
  <2>5. calls' = <<x>> \/ calls' = RouteCalls(b) \o <<x>>
    <3>1. \/ calls' = <<DoCall("trydelete", Ev.b, NoLink)>>
          \/ calls' = RouteCalls(Ev.b) \o <<DoCall("trydelete", Ev.b, NoLink)>>
      BY <1>2 DEF ReceiveBundle
    <3> QED
      BY <1>0, <2>1, <3>1
  <2>6. ToSet(RouteCalls(b) \o <<x>>) = ToSet(RouteCalls(b)) \cup ToSet(<<x>>)
    <3>1. RouteCalls(b) \in Seq(Call)
      BY <2>2, RouteCallsType
    <3>2. <<x>> \in Seq(Call)
      BY <2>4
    <3> QED
      BY <3>1, <3>2, ElementsOfConcat
  <2>7. c \in ToSet(RouteCalls(b)) \/ c = x
    BY <2>5, <2>6, ElementsOfOne
  <2>8. c.b = b
    BY <2>2, <2>4, <2>7, CallsOfRoutes
  <2> QED
    BY <2>2, <2>8 DEF Seen
<1>3. CASE HandleSendCancelled \/ HandleCustodyTimeout
  <2>1. Ev.b \in Bundles
    BY <1>3, HandledEvent, EventShape DEF HandleSendCancelled, HandleCustodyTimeout
  <2>2. Ev.b \in expTimer \/ Ev.type = "custodytimeout"
    BY <1>3, ElementsOfEmpty
    DEF HandleSendCancelled, RouteAgain, HandleCustodyTimeout, Handle, Ev
  <2>3. Seen(Ev.b)
    BY <1>1, <2>2 DEF ReverseChecked
  <2>4. c \in ToSet(RouteCalls(Ev.b)) /\ UNCHANGED rcache
    BY <1>3, ElementsOfEmpty DEF HandleSendCancelled, RouteAgain, HandleCustodyTimeout
  <2> QED
    BY <2>1, <2>3, <2>4, CallsOfRoutes DEF Seen
<1>4. CASE ~ReceiveBundle /\ ~HandleSendCancelled /\ ~HandleCustodyTimeout
  <2>1. CASE HandleTransmitted
    <3>1. PICK x, y : /\ x = DoCall("check", NoBundle, Ev.l)
                      /\ y = DoCall("trydelete", Ev.b, NoLink)
      OBVIOUS
    <3>2. x.op # "route" /\ y.op # "route"
      BY <3>1 DEF DoCall
    <3>3. calls' = <<x, y>>
      BY <2>1, <3>1 DEF HandleTransmitted
    <3>4. \E i \in 1..Len(calls') : calls'[i] = c
      BY ElementsOf DEF TypeOK, DaemonTypes
    <3> QED
      BY <3>2, <3>3, <3>4
  <2>2. CASE HandleExpired \/ HandleDeleteRequest
    <3>1. calls' = CancelCalls(Ev.b) /\ Ev.b \in Bundles
      BY <2>2, HandledEvent, EventShape DEF HandleExpired, HandleDeleteRequest, HandleDeletion
    <3> QED
      BY <3>1, CallsOfRoutes
  <2>3. CASE ~HandleTransmitted /\ ~HandleExpired /\ ~HandleDeleteRequest
    <3>1. UNCHANGED calls \/ \E op, d, l : op # "route" /\ calls' = <<DoCall(op, d, l)>>
      BY <1>4, <2>3
      DEF HandleEvent, DiscardDuplicate, ReceiveExpired, HandleCancelSend, HandleCustodySignal,
          HandleContactUp, HandleContactDown, HandleClosed, HandleOpen
    <3>2. \A op, d, l : DoCall(op, d, l).op = op
      BY DEF DoCall
    <3> QED
      BY <1>1, <3>1, <3>2, ElementsOfOne, ElementsOfEmpty
  <2> QED
    BY <2>1, <2>2, <2>3
<1> QED
  BY <1>2, <1>3, <1>4

LEMMA HandlersReverse ==
    ASSUME TypeOK, TypeOK', ReverseChecked, HandleEvent PROVE ReverseChecked'
<1>1. PICK d, m : d = Ev.b /\ m = Ev.l
  OBVIOUS
<1>2. NoLoad(calls')
  BY HandlerCalls
<1>3. ASSUME NEW b \in Bundles, Seen(b) PROVE rcache'[Key[b]] = rcache[Key[b]]
  <2>1. \/ UNCHANGED rcache
        \/ rcache[Key[d]] = Unseen /\ \E n : rcache' = [rcache EXCEPT ![Key[d]] = n]
    BY <1>1
    DEF HandleEvent, DiscardDuplicate, ReceiveExpired, ReceiveBundle, HandleTransmitted,
        HandleSendCancelled, HandleExpired, HandleDeleteRequest, HandleDeletion,
        HandleCancelSend, HandleCustodySignal, HandleCustodyTimeout, HandleContactUp,
        HandleContactDown, HandleClosed, HandleOpen, routeVars
  <2>2. Key[b] \in Keys
    BY BundlesAssumption
  <2>3. rcache[Key[b]] # Unseen
    BY <1>3 DEF Seen
  <2> QED
    BY <2>1, <2>2, <2>3 DEF TypeOK, RouteTypes
<1>4. ASSUME NEW b \in Bundles, NEW l \in Links, Marked(b, l)' PROVE Marked(b, l)
  <2>1. blocks' \subseteq blocks
    BY DEF HandleEvent, DiscardDuplicate, ReceiveExpired, ReceiveBundle, HandleTransmitted,
           HandleSendCancelled, LogCancelled, HandleExpired, HandleDeleteRequest, HandleDeletion,
           HandleCancelSend, HandleCustodySignal, HandleCustodyTimeout, HandleContactUp,
           HandleContactDown, HandleClosed, HandleOpen, routeVars
  <2>2. ToSet(deferred'[l]) \subseteq ToSet(deferred[l])
    <3>1. UNCHANGED deferred \/ \E A : RemoveFromDeferred(d, A)
      BY <1>1
      DEF HandleEvent, DiscardDuplicate, ReceiveExpired, ReceiveBundle, HandleTransmitted,
          HandleSendCancelled, HandleExpired, HandleDeleteRequest, HandleDeletion, DeleteBundle,
          HandleCancelSend, HandleCustodySignal, HandleCustodyTimeout, HandleContactUp,
          HandleContactDown, HandleClosed, HandleOpen, linkVars
    <3>2. deferred'[l] \in {deferred[l], RemoveFirst(deferred[l], d)}
      BY <3>1 DEF RemoveFromDeferred
    <3> QED
      BY <3>2, ListTypes, ElementsOfRemoveFirst
  <2>3. ASSUME fwd'[b][l] \in Waiting PROVE fwd[b][l] \in Waiting \/ <<b, l>> \in blocks
    <3>1. \/ UNCHANGED fwd
          \/ <<d, m>> \in blocks /\ fwd' = [fwd EXCEPT ![d][m] = "transmitted"]
          \/ \E s : s \notin Waiting /\ fwd' = [fwd EXCEPT ![d][m] = s]
      BY <1>1
      DEF HandleEvent, DiscardDuplicate, ReceiveExpired, ReceiveBundle, Reception,
          HandleTransmitted, HandleSendCancelled, LogCancelled, HandleExpired,
          HandleDeleteRequest, HandleDeletion, HandleCancelSend, HandleCustodySignal,
          HandleCustodyTimeout, LogTimeout, HandleContactUp, HandleContactDown, HandleClosed,
          HandleOpen, routeVars, Waiting
    <3>2. CASE b = d /\ l = m
      BY <2>3, <3>1, <3>2 DEF TypeOK, RouteTypes
    <3>3. ASSUME b # d \/ l # m PROVE fwd'[b][l] = fwd[b][l]
      BY <3>1, <3>3 DEF TypeOK, RouteTypes
    <3> QED
      BY <2>3, <3>2, <3>3
  <2> QED
    BY <1>4, <2>1, <2>2, <2>3 DEF Marked
<1>5. ASSUME NEW b \in Bundles, NEW l \in Links, ctimer'[b][l] \in Running
      PROVE  ctimer[b][l] \in Running \/ Seen(b)
  <2>1. \/ UNCHANGED ctimer
        \/ <<d, m>> \in blocks /\ ctimer' = [ctimer EXCEPT ![d][m] = "pending"]
        \/ ctimer' = [ctimer EXCEPT ![d][m] = "none"]
        \/ \E x : ReleaseCustody(x)
    BY <1>1
    DEF HandleEvent, DiscardDuplicate, ReceiveExpired, ReceiveBundle, HandleTransmitted,
        HandleSendCancelled, HandleExpired, HandleDeleteRequest, HandleDeletion, DeleteBundle,
        HandleCancelSend, HandleCustodySignal, HandleCustodyTimeout, HandleContactUp,
        HandleContactDown, HandleClosed, HandleOpen, bundleVars
  <2>2. ASSUME NEW x, ReleaseCustody(x) PROVE ctimer[b][l] \in Running
    BY <1>5, <2>2 DEF ReleaseCustody, TypeOK, BundleTypes, Running
  <2>3. <<b, l>> \in blocks => Seen(b)
    BY DEF ReverseChecked, Marked, NotBack, Seen
  <2>4. ASSUME UNCHANGED ctimer PROVE ctimer[b][l] \in Running
    BY <1>5, <2>4
  <2>5. ASSUME <<d, m>> \in blocks, ctimer' = [ctimer EXCEPT ![d][m] = "pending"]
        PROVE  ctimer[b][l] \in Running \/ <<b, l>> \in blocks
    BY <1>5, <2>5 DEF TypeOK, BundleTypes
  <2>6. ASSUME ctimer' = [ctimer EXCEPT ![d][m] = "none"] PROVE ctimer[b][l] \in Running
    BY <1>5, <2>6 DEF TypeOK, BundleTypes, Running
  <2> QED
    BY <2>1, <2>2, <2>3, <2>4, <2>5, <2>6
<1>6. ASSUME NEW b \in expTimer' PROVE b \in expTimer \/ Seen(b)'
  <2>1. b \in expTimer \/ (ReceiveBundle /\ b = d)
    BY <1>1
    DEF HandleEvent, DiscardDuplicate, ReceiveExpired, ReceiveBundle, HandleTransmitted,
        HandleSendCancelled, HandleExpired, HandleDeleteRequest, HandleDeletion, DeleteBundle,
        HandleCancelSend, HandleCustodySignal, HandleCustodyTimeout, HandleContactUp,
        HandleContactDown, HandleClosed, HandleOpen, bundleVars
  <2> QED
    BY <1>1, <2>1, ReceivedIsSeen
<1>7. ASSUME NEW e \in ToSet(eventq'), e.type = "custodytimeout" PROVE e \in ToSet(eventq)
  <2> DEFINE T == {"expired", "deleterequest", "contactdown"}
  <2>1. /\ eventq # <<>> /\ eventq \in Seq(Event) /\ Tail(eventq) \in Seq(Event)
        /\ Grown(Tail(eventq), eventq', T) /\ "custodytimeout" \notin T
    BY HandlerEvents DEF TypeOK, DaemonTypes
  <2> HIDE DEF T
  <2>2. e \in ToSet(Tail(eventq)) \/ e.type \in T
    BY <1>7, <2>1, GrownQueue
  <2> QED
    BY <1>7, <2>1, <2>2, ElementsOfTail
<1>8. ASSUME NEW c \in ToSet(calls')
      PROVE  /\ c.op \in {"forward", "drain"} => NotBack(c.b, c.l)
             /\ c.op = "route" => Seen(c.b)'
  BY <1>8, HandlerPushes, HandlerRoutes
<1> QED
  BY <1>2, <1>3, <1>4, <1>5, <1>6, <1>7, <1>8, ReverseStep

LEMMA ContinueReverse ==
    ASSUME TypeOK, TypeOK', ReverseChecked, Continue PROVE ReverseChecked'
<1>1. PICK d, m : d = Now.b /\ m = Now.l
  OBVIOUS
<1>2. calls \in Seq(Call) /\ Now \in ToSet(calls)
  BY SteppedNow DEF TypeOK, DaemonTypes
<1>3. ~LoadBundle /\ ~LoadExpired /\ ~LoadDone
  BY <1>2 DEF ReverseChecked, NoLoad, LoadBundle, LoadExpired, LoadDone, Now
<1>4. NoLoad(calls')
  <2>1. LoadFirst
    BY <1>2, NoLoadSeq DEF LoadFirst, ReverseChecked
  <2> QED
    BY <1>3, <2>1, StepCalls DEF Continue
<1>5. UNCHANGED rcache
  BY <1>3
  DEF Continue, RouteBundle, ForwardBundle, CheckNextHop, DrainDeferred, CancelBundle,
      TryToDelete, Requeue, CloseContact, routeVars
<1>6. ForwardBundle \/ DrainDeferred => NotBack(d, m)
  BY <1>1, <1>2 DEF ReverseChecked, ForwardBundle, DrainDeferred, Step, Now
<1>7. ASSUME NEW b \in Bundles, NEW l \in Links, Marked(b, l)'
      PROVE  Marked(b, l) \/ NotBack(b, l)
  <2>1. \/ UNCHANGED <<blocks, fwd>>
        \/ QueueBundle(d, m) /\ (ForwardBundle \/ DrainDeferred)
    BY <1>1, <1>3
    DEF Continue, RouteBundle, ForwardBundle, CheckNextHop, DrainDeferred, CancelBundle,
        TryToDelete, Requeue, CloseContact, routeVars
  <2>2. ASSUME QueueBundle(d, m), b # d \/ l # m
        PROVE  /\ <<b, l>> \in blocks' => <<b, l>> \in blocks
               /\ fwd'[b][l] = fwd[b][l]
    BY <2>2 DEF QueueBundle, TypeOK, RouteTypes
  <2>3. <<b, l>> \in blocks' \/ fwd'[b][l] \in Waiting =>
          <<b, l>> \in blocks \/ fwd[b][l] \in Waiting \/ NotBack(b, l)
    BY <1>6, <2>1, <2>2
  <2>4. \/ UNCHANGED deferred
        \/ ForwardBundle /\ deferred' = [deferred EXCEPT ![m] = Append(@, d)]
        \/ DrainDeferred /\ deferred' = [deferred EXCEPT ![m] = RemoveFirst(@, d)]
        \/ \E A : RemoveFromDeferred(d, A)
    BY <1>1, <1>3
    DEF Continue, RouteBundle, ForwardBundle, CheckNextHop, DrainDeferred, CancelBundle,
        TryToDelete, DeleteBundle, Requeue, CloseContact, linkVars
  <2>5. deferred[l] \in Seq(Bundles)
    BY ListTypes
  <2>6. \/ deferred'[l] = deferred[l]
        \/ ForwardBundle /\ l = m /\ deferred'[l] = Append(deferred[l], d)
        \/ deferred'[l] = RemoveFirst(deferred[l], d)
    BY <2>4 DEF TypeOK, LinkTypes, RemoveFromDeferred
  <2>7. ForwardBundle => d \in Bundles
    BY <1>1, SteppedCall, CallShape DEF ForwardBundle
  <2>8. d \in Bundles => ToSet(Append(deferred[l], d)) = ToSet(deferred[l]) \cup {d}
    BY <2>5, ElementsOfAppend
  <2>9. ToSet(RemoveFirst(deferred[l], d)) \subseteq ToSet(deferred[l])
    BY <2>5, ElementsOfRemoveFirst
  <2>10. b \in ToSet(deferred'[l]) => b \in ToSet(deferred[l]) \/ NotBack(b, l)
    BY <1>6, <2>6, <2>7, <2>8, <2>9
  <2> QED
    BY <1>7, <2>3, <2>10 DEF Marked
<1>8. expTimer' \subseteq expTimer
  BY <1>3
  DEF Continue, RouteBundle, ForwardBundle, CheckNextHop, DrainDeferred, CancelBundle,
      TryToDelete, DeleteBundle, Requeue, CloseContact, bundleVars
<1>9. ASSUME NEW b \in Bundles, NEW l \in Links, ctimer'[b][l] \in Running
      PROVE  ctimer[b][l] \in Running
  <2>1. UNCHANGED ctimer \/ ReleaseCustody(d)
    BY <1>1, <1>3
    DEF Continue, RouteBundle, ForwardBundle, CheckNextHop, DrainDeferred, CancelBundle,
        TryToDelete, DeleteBundle, Requeue, CloseContact, bundleVars
  <2> QED
    BY <1>9, <2>1 DEF ReleaseCustody, TypeOK, BundleTypes, Running
<1>10. ASSUME NEW e \in ToSet(eventq'), e.type = "custodytimeout" PROVE e \in ToSet(eventq)
  <2> DEFINE T == {"sendcancelled", "expired", "deleterequest"}
  <2>1. eventq \in Seq(Event) /\ Grown(eventq, eventq', T) /\ "custodytimeout" \notin T
    BY ContinueEvents DEF TypeOK, DaemonTypes
  <2> HIDE DEF T
  <2> QED
    BY <1>10, <2>1, GrownQueue
<1>11. ASSUME NEW c \in ToSet(calls')
       PROVE  \/ c \in ToSet(calls)
              \/ /\ c.op \in {"forward", "drain"} => NotBack(c.b, c.l)
                 /\ c.op = "route" => Seen(c.b)'
  <2>1. CASE /\ RouteBundle
             /\ c = DoCall("forward", Now.b, Now.l) /\ ShouldFwdRoute(Now.b, Now.l)
    <3>1. c.op = "forward" /\ c.b = d /\ c.l = m
      BY <1>1, <2>1 DEF DoCall
    <3>2. Now.op = "route"
      BY <2>1 DEF RouteBundle, Step, Now
    <3>3. NotBack(d, m)
      BY <1>1, <1>2, <2>1, <3>2 DEF ReverseChecked, ShouldFwdRoute, Seen, NotBack
    <3> QED
      BY <3>1, <3>3
  <2>2. CASE c.op = "drain" /\ c.l \in Links /\ c.b \in ToSet(deferred[c.l])
    <3>1. c.b \in Bundles
      BY <2>2, ListTypes, ElementsOf
    <3> QED
      BY <2>2, <3>1 DEF ReverseChecked, Marked
  <2> QED
    BY <1>3, <2>1, <2>2, StepPushes
<1> QED
  BY <1>4, <1>5, <1>7, <1>8, <1>9, <1>10, <1>11, ReverseStep

LEMMA OthersReverse ==
    ASSUME TypeOK, TypeOK', ReverseChecked,
           \/ Timers \/ (Environment /\ ~Crash) \/ UNCHANGED vars
           \/ \E l \in Links : Connection(l)
           \/ \E b \in Bundles : Free(b)
    PROVE  ReverseChecked'
<1>1. /\ UNCHANGED <<rcache, deferred, calls>>
      /\ expTimer' \subseteq expTimer /\ blocks' \subseteq blocks
      /\ \/ UNCHANGED fwd
         \/ \E d : fwd' = [fwd EXCEPT ![d] = [m \in Links |-> "none"]]
  BY DEF Timers, ExpirationTimer, CustodyTimer, CancelledTimer, RerouteTimer, Environment,
         Arrive, CancelRequest, CancelSend, CustodySignal, CloseRequest, OpenRequest,
         Connection, ConnectionUp, AcceptConnection, StartNextBundle, SendSegment, AckBundle,
         CancelCommand, BreakContact, BreakCommand, Free, bundleVars, routeVars, linkVars,
         daemonVars, vars
<1>2. ASSUME NEW b \in Bundles, NEW l \in Links, Marked(b, l)' PROVE Marked(b, l)
  <2>1. fwd'[b][l] \in Waiting => fwd[b][l] \in Waiting
    BY <1>1 DEF TypeOK, RouteTypes, Waiting
  <2> QED
    BY <1>1, <1>2, <2>1 DEF Marked
<1>3. ASSUME NEW b \in Bundles, NEW l \in Links, ctimer'[b][l] \in Running
      PROVE  ctimer[b][l] \in Running
  <2>1. \/ UNCHANGED ctimer
        \/ \E d \in Bundles, m \in Links : CustodyTimer(d, m) \/ CancelledTimer(d, m)
    BY DEF Timers, ExpirationTimer, RerouteTimer, Environment,
         Arrive, CancelRequest, CancelSend, CustodySignal, CloseRequest, OpenRequest,
         Connection, ConnectionUp, AcceptConnection, StartNextBundle, SendSegment, AckBundle,
         CancelCommand, BreakContact, BreakCommand, Free, bundleVars, vars
  <2>2. ASSUME NEW d \in Bundles, NEW m \in Links, CustodyTimer(d, m) \/ CancelledTimer(d, m)
        PROVE  ctimer[b][l] \in Running
    BY <1>3, <2>2 DEF CustodyTimer, CancelledTimer, TypeOK, BundleTypes, Running
  <2> QED
    BY <1>3, <2>1, <2>2
<1>4. ASSUME NEW e \in ToSet(eventq'), e.type = "custodytimeout"
      PROVE  e \in ToSet(eventq) \/ Seen(e.b)
  <2>1. eventq \in Seq(Event)
    BY DEF TypeOK, DaemonTypes
  <2>2. ASSUME NEW T, Grown(eventq, eventq', T), "custodytimeout" \notin T
        PROVE  e \in ToSet(eventq)
    BY <1>4, <2>1, <2>2, GrownQueue
  <2>3. ASSUME NEW d \in Bundles, NEW m \in Links, CustodyTimer(d, m)
        PROVE  e \in ToSet(eventq) \/ Seen(e.b)
    <3>1. PICK x : x = BundleEvent("custodytimeout", d, m)
      OBVIOUS
    <3>2. x \in Event
      BY <3>1, EventTypes
    <3>3. x.b = d
      BY <3>1 DEF BundleEvent
    <3>4. eventq' = Append(eventq, x)
      BY <2>3, <3>1 DEF CustodyTimer, Post
    <3>5. e \in ToSet(eventq) \/ e = x
      BY <2>1, <3>2, <3>4, ElementsOfAppend
    <3>6. ctimer[d][m] \in Running
      BY <2>3 DEF CustodyTimer, Running
    <3> QED
      BY <3>3, <3>5, <3>6 DEF ReverseChecked
  <2>4. CASE Timers /\ ~\E d \in Bundles, m \in Links : CustodyTimer(d, m)
    <3> DEFINE T == {"expired", "sendcancelled"}
    <3>1. Grown(eventq, eventq', T) /\ "custodytimeout" \notin T
      BY <2>4, TimerEvents
    <3> HIDE DEF T
    <3> QED
      BY <2>2, <3>1
  <2>5. CASE Environment /\ ~Crash
    <3> DEFINE T == {"received", "deleterequest", "custodysignal", "cancelsend", "closed",
                     "open"}
    <3>1. Grown(eventq, eventq', T) /\ "custodytimeout" \notin T
      BY <2>5, EnvironmentEvents
    <3> HIDE DEF T
    <3> QED
      BY <2>2, <3>1
  <2>6. CASE \E l \in Links : Connection(l)
    <3> DEFINE T == {"transmitted", "sendcancelled", "contactup", "closed"}
    <3>1. Grown(eventq, eventq', T) /\ "custodytimeout" \notin T
      BY <2>6, ConnectionEvents
    <3> HIDE DEF T
    <3> QED
      BY <2>2, <3>1
  <2>7. CASE UNCHANGED vars \/ \E b \in Bundles : Free(b)
    BY <1>4, <2>7 DEF vars, daemonVars, Free
  <2> QED
    BY <2>3, <2>4, <2>5, <2>6, <2>7
<1>5. NoLoad(calls')
  BY <1>1 DEF ReverseChecked
<1> QED
  BY <1>1, <1>2, <1>3, <1>4, <1>5, ReverseStep

LEMMA NextReverse ==
    ASSUME "crash" \notin Stimuli, TypeOK, TypeOK', ReverseChecked, [Next]_vars
    PROVE  ReverseChecked'
<1>1. ~Crash
  BY DEF Crash
<1> QED
  BY <1>1, HandlersReverse, ContinueReverse, OthersReverse DEF Next

\* No bundle goes back to the node it came from, however often it is routed and
\* whatever duplicates arrive: the cache that the router checks is never emptied
\* or overwritten while the process lives.
THEOREM RoutesLeadOn ==
    ASSUME "crash" \notin Stimuli
    PROVE  Spec => []NotSentBack
<1>1. Init => TypeOK /\ ReverseChecked
  BY InitType, InitReverse
<1>2. TypeOK /\ ReverseChecked /\ [Next]_vars => (TypeOK /\ ReverseChecked)'
  BY NextType, NextReverse
<1>3. TypeOK /\ ReverseChecked => NotSentBack
  BY DEF ReverseChecked, Marked, NotBack, NotSentBack
<1> QED
  BY <1>1, <1>2, <1>3, PTL DEF Spec

-----------------------------------------------------------------------------
(***************************************************************************)
(* The lists of a link and of its connection agree, a link that is open    *)
(* has a contact, and what the forwarding log says of a bundle is what the *)
(* lists and the event queue say.                                          *)
(*                                                                         *)
(* The daemon and the connection threads share these lists without a lock  *)
(* that covers them together, so each theorem rests on an invariant that   *)
(* also counts what is under way between them: the events in the queue and *)
(* the rest of the handler on the stack.                                   *)
(***************************************************************************)


-----------------------------------------------------------------------------
(* The lists of a link.                                                    *)

\* A bundle is on the link queue once, or on the in-flight list, but not on
\* both; what the connection carries is in flight, and so is what has been
\* acknowledged, until the daemon handles the event.
ListsOf(l) ==
    /\ IsInjective(queue[l]) /\ IsInjective(sending[l])
    /\ ToSet(queue[l]) \cap inflight[l] = {}
    /\ ToSet(sending[l]) \subseteq inflight[l]
    /\ \A e \in Queued("transmitted") :
          e.l = l => e.b \in inflight[l] \ ToSet(sending[l])

ListsCoherent == (\A l \in Links : ListsOf(l)) /\ TransmittedOnce(eventq)

LEMMA InitLists == Init => ListsCoherent
BY ElementsOfEmpty, InjectiveEmpty DEF Init, ListsCoherent, ListsOf, TransmittedOnce, Queued

\* The lists of one link change, and nothing else.
LEMMA ListsOnLink ==
    ASSUME ListsCoherent, NEW l \in Links, ListsOf(l)',
           \A m \in Links \ {l} : /\ queue'[m] = queue[m] /\ sending'[m] = sending[m]
                                  /\ inflight'[m] = inflight[m],
           \A e \in Queued("transmitted")' : e.l # l => e \in Queued("transmitted"),
           TransmittedOnce(eventq')
    PROVE  ListsCoherent'
<1>1. ASSUME NEW m \in Links, m # l PROVE ListsOf(m)'
  BY <1>1 DEF ListsCoherent, ListsOf
<1> QED
  BY <1>1 DEF ListsCoherent

LEMMA ListsUntouched ==
    ASSUME ListsCoherent, UNCHANGED <<queue, sending, inflight>>, OnceKept
    PROVE  ListsCoherent'
BY DEF ListsCoherent, ListsOf, OnceKept

\* Two events about a transmission are the same if their bundle and link are.
LEMMA SameEvent ==
    ASSUME NEW e \in Event,
           e.type \in {"transmitted", "sendcancelled", "cancelsend", "custodytimeout"}
    PROVE  e = BundleEvent(e.type, e.b, e.l) /\ e.b \in Bundles /\ e.l \in Links
<1>1. e \in [type : {"transmitted", "sendcancelled", "cancelsend", "custodytimeout"},
            b : Bundles, l : Links, c : {0}, why : {""}]
  BY DEF Event
<1> QED
  BY <1>1 DEF BundleEvent

LEMMA HandleTransmittedLists ==
    ASSUME TypeOK, TypeOK', ListsCoherent, HandleTransmitted PROVE ListsCoherent'
<1>0. /\ Ev.b \in Bundles /\ Ev.l \in Links /\ Ev \in Event /\ Ev.type = "transmitted"
      /\ Ev \in ToSet(eventq)
  <2>1. eventq \in Seq(Event) /\ eventq # <<>> /\ Ev = Head(eventq)
    BY DEF HandleTransmitted, Handle, Ev, TypeOK, DaemonTypes
  <2> QED
    BY <2>1, HandledEvent, EventShape, ElementsOfTail DEF HandleTransmitted
<1>1. PICK b \in Bundles, l \in Links : /\ b = Ev.b /\ l = Ev.l /\ Ev \in Event
                                        /\ Ev.type = "transmitted" /\ Ev \in ToSet(eventq)
  BY <1>0
<1>2. /\ TransmittedOnce(eventq')
      /\ Queued("transmitted")' \subseteq Queued("transmitted") \ {Ev}
  BY HandledOnce DEF ListsCoherent, HandleEvent
<1>3. UNCHANGED sending
  BY DEF HandleTransmitted, connVars
<1>4. CASE <<b, l>> \in blocks
  <2>1. /\ inflight' = [inflight EXCEPT ![l] = @ \ {b}]
        /\ queue' = [queue EXCEPT ![l] = RemoveFirst(@, b)]
    BY <1>1, <1>4 DEF HandleTransmitted, OffLists
  <2>2. /\ inflight'[l] = inflight[l] \ {b} /\ queue'[l] = RemoveFirst(queue[l], b)
        /\ \A m \in Links \ {l} : inflight'[m] = inflight[m] /\ queue'[m] = queue[m]
    BY <1>1, <2>1 DEF TypeOK, LinkTypes
  <2>3. ListsOf(l) /\ b \notin ToSet(sending[l])
    BY <1>1 DEF ListsCoherent, ListsOf, Queued
  <2>4. IsInjective(queue'[l]) /\ ToSet(queue'[l]) = ToSet(queue[l]) \ {b}
    BY <1>1, <2>2, <2>3, ListTypes, InjectiveRemoveFirst DEF ListsOf
  <2>5. ASSUME NEW e \in Queued("transmitted")', e.l = l
        PROVE  e.b \in inflight[l] \ ToSet(sending[l]) /\ e.b # b
    <3>1. e \in Queued("transmitted") /\ e # Ev
      BY <1>2, <2>5
    <3>2. e \in Event
      BY <3>1 DEF Queued, TypeOK, DaemonTypes, ToSet
    <3> QED
      BY <1>1, <2>3, <2>5, <3>1, <3>2, SameEvent DEF ListsOf, Queued
  <2>6. ListsOf(l)'
    BY <1>3, <2>2, <2>3, <2>4, <2>5 DEF ListsOf
  <2> QED
    BY <1>1, <1>2, <1>3, <2>2, <2>6, ListsOnLink
<1>5. CASE <<b, l>> \notin blocks
  <2>1. UNCHANGED <<queue, inflight>>
    BY <1>1, <1>5 DEF HandleTransmitted
  <2> QED
    BY <1>2, <1>3, <2>1, ListsUntouched DEF OnceKept
<1> QED
  BY <1>4, <1>5

\* QueueBundle does not queue a bundle that is queued or in flight.
LEMMA QueueBundleLists ==
    ASSUME TypeOK, ListsCoherent, NEW b \in Bundles, NEW l \in Links, QueueBundle(b, l),
           UNCHANGED <<inflight, sending, eventq>>
    PROVE  ListsCoherent'
<1>1. /\ TransmittedOnce(eventq') /\ Queued("transmitted")' = Queued("transmitted")
      /\ ListsOf(l)
  BY DEF ListsCoherent, Queued
<1>2. CASE UNCHANGED queue
  BY <1>1, <1>2, ListsUntouched DEF OnceKept
<1>3. CASE queue' = [queue EXCEPT ![l] = Append(@, b)] /\ b \notin inflight[l]
           /\ ~Contains(queue[l], b)
  <2>1. /\ queue'[l] = Append(queue[l], b) /\ b \notin ToSet(queue[l])
        /\ \A m \in Links \ {l} : queue'[m] = queue[m]
    BY <1>3, ListTypes, ElementsOf DEF TypeOK, LinkTypes
  <2>2. IsInjective(queue'[l]) /\ ToSet(queue'[l]) = ToSet(queue[l]) \cup {b}
    BY <1>1, <2>1, ListTypes, InjectiveAppend, ElementsOfAppend DEF ListsOf
  <2>3. ListsOf(l)'
    BY <1>1, <1>3, <2>2 DEF ListsOf
  <2> QED
    BY <1>1, <2>1, <2>3, ListsOnLink
<1> QED
  BY <1>2, <1>3 DEF QueueBundle

\* A bundle is taken off the link queue.
LEMMA DequeuedLists ==
    ASSUME TypeOK, ListsCoherent, OnceKept, NEW b, NEW l \in Links,
           queue' = [queue EXCEPT ![l] = RemoveFirst(@, b)], UNCHANGED <<inflight, sending>>
    PROVE  ListsCoherent'
<1>1. ListsOf(l) /\ queue[l] \in Seq(Bundles)
  BY ListTypes DEF ListsCoherent
<1>2. /\ queue'[l] = RemoveFirst(queue[l], b)
      /\ \A m \in Links \ {l} : queue'[m] = queue[m]
  BY DEF TypeOK, LinkTypes
<1>3. IsInjective(queue'[l]) /\ ToSet(queue'[l]) \subseteq ToSet(queue[l])
  BY <1>1, <1>2, InjectiveRemoveFirst DEF ListsOf
<1>4. ListsOf(l)'
  BY <1>1, <1>3 DEF ListsOf, OnceKept
<1> QED
  BY <1>2, <1>4, ListsOnLink DEF OnceKept

\* The link queue is emptied.
LEMMA EmptiedLists ==
    ASSUME TypeOK, ListsCoherent, OnceKept, NEW l \in Links,
           queue' = [queue EXCEPT ![l] = <<>>], UNCHANGED <<inflight, sending>>
    PROVE  ListsCoherent'
<1>1. ListsOf(l)
  BY DEF ListsCoherent
<1>2. queue'[l] = <<>> /\ \A m \in Links \ {l} : queue'[m] = queue[m]
  BY DEF TypeOK, LinkTypes
<1>3. ListsOf(l)'
  BY <1>1, <1>2, InjectiveEmpty, ElementsOfEmpty DEF ListsOf, OnceKept
<1> QED
  BY <1>2, <1>3, ListsOnLink DEF OnceKept

\* What the connection carried and was not acknowledged is still in flight, and
\* not on the link queue: it goes back.
LEMMA RequeueMoves ==
    ASSUME TypeOK, ListsCoherent, Requeue
    PROVE  \E l \in Links, b \in Bundles :
              /\ l = Now.l /\ phase[l] = "broken" /\ sending[l] # <<>>
              /\ b = Head(sending[l]) /\ b \in inflight[l] /\ b \notin ToSet(queue[l])
              /\ queue'[l] = Append(queue[l], b) /\ sending'[l] = Tail(sending[l])
              /\ inflight'[l] = inflight[l] \ {b}
              /\ \A m \in Links \ {l} : /\ queue'[m] = queue[m] /\ sending'[m] = sending[m]
                                        /\ inflight'[m] = inflight[m]
<1>1. PICK l \in Links : l = Now.l
  BY SteppedCall, CallShape DEF Requeue
<1>2. /\ queue[l] \in Seq(Bundles) /\ sending[l] \in Seq(Bundles) /\ sending[l] # <<>>
      /\ ListsOf(l) /\ phase[l] = "broken"
  BY <1>1, ListTypes DEF ListsCoherent, Requeue
<1>3. PICK b \in Bundles : b = Head(sending[l]) /\ b \in ToSet(sending[l])
  BY <1>2, ElementsOfTail
<1>4. /\ sending' = [sending EXCEPT ![l] = Tail(@)]
      /\ inflight' = [inflight EXCEPT ![l] = @ \ {b}]
      /\ Restore(b, l)
  BY <1>1, <1>3 DEF Requeue
<1>5. b \in inflight[l] /\ b \notin ToSet(queue[l])
  BY <1>2, <1>3 DEF ListsOf
<1>6. queue' = [queue EXCEPT ![l] = Append(@, b)]
  BY <1>2, <1>4, <1>5, ElementsOf DEF Restore
<1>7. /\ queue'[l] = Append(queue[l], b) /\ inflight'[l] = inflight[l] \ {b}
      /\ sending'[l] = Tail(sending[l])
      /\ \A m \in Links \ {l} : /\ queue'[m] = queue[m] /\ sending'[m] = sending[m]
                                /\ inflight'[m] = inflight[m]
  BY <1>4, <1>6 DEF TypeOK, LinkTypes, ConnTypes
<1> QED
  BY <1>1, <1>2, <1>3, <1>5, <1>7

LEMMA RequeueLists ==
    ASSUME TypeOK, ListsCoherent, OnceKept, Requeue PROVE ListsCoherent'
<1>1. PICK l \in Links, b \in Bundles :
         /\ l = Now.l /\ phase[l] = "broken" /\ sending[l] # <<>>
         /\ b = Head(sending[l]) /\ b \in inflight[l] /\ b \notin ToSet(queue[l])
         /\ queue'[l] = Append(queue[l], b) /\ sending'[l] = Tail(sending[l])
         /\ inflight'[l] = inflight[l] \ {b}
         /\ \A m \in Links \ {l} : /\ queue'[m] = queue[m] /\ sending'[m] = sending[m]
                                   /\ inflight'[m] = inflight[m]
  BY RequeueMoves
<1>2. queue[l] \in Seq(Bundles) /\ sending[l] \in Seq(Bundles) /\ ListsOf(l)
  BY ListTypes DEF ListsCoherent
<1>3. /\ IsInjective(queue'[l]) /\ ToSet(queue'[l]) = ToSet(queue[l]) \cup {b}
      /\ IsInjective(sending'[l]) /\ ToSet(sending'[l]) = ToSet(sending[l]) \ {b}
  BY <1>1, <1>2, InjectiveAppend, ElementsOfAppend, InjectiveTail DEF ListsOf
<1>4. b \in ToSet(sending[l])
  BY <1>1, <1>2, ElementsOfTail
<1>5. ListsOf(l)'
  BY <1>1, <1>2, <1>3, <1>4 DEF ListsOf, OnceKept
<1> QED
  BY <1>1, <1>5, ListsOnLink DEF OnceKept

LEMMA StartNextBundleLists ==
    ASSUME TypeOK, ListsCoherent, OnceKept, NEW l \in Links, StartNextBundle(l)
    PROVE  ListsCoherent'
<1>1. /\ queue[l] \in Seq(Bundles) /\ sending[l] \in Seq(Bundles) /\ queue[l] # <<>>
      /\ ListsOf(l)
  BY ListTypes DEF ListsCoherent, StartNextBundle
<1>2. PICK b \in Bundles : b = Head(queue[l]) /\ b \in ToSet(queue[l])
  BY <1>1, ElementsOfTail
<1>3. b \notin inflight[l] /\ b \notin ToSet(sending[l])
  BY <1>1, <1>2 DEF ListsOf
<1>4. /\ queue'[l] = Tail(queue[l]) /\ inflight'[l] = inflight[l] \cup {b}
      /\ sending'[l] = Append(sending[l], b)
      /\ \A m \in Links \ {l} : /\ queue'[m] = queue[m] /\ sending'[m] = sending[m]
                                /\ inflight'[m] = inflight[m]
  BY <1>2 DEF StartNextBundle, MoveToInflight, TypeOK, LinkTypes, ConnTypes
<1>5. /\ IsInjective(queue'[l]) /\ ToSet(queue'[l]) = ToSet(queue[l]) \ {b}
      /\ IsInjective(sending'[l]) /\ ToSet(sending'[l]) = ToSet(sending[l]) \cup {b}
  BY <1>1, <1>2, <1>3, <1>4, InjectiveAppend, ElementsOfAppend, InjectiveTail DEF ListsOf
<1>6. ListsOf(l)'
  BY <1>1, <1>2, <1>3, <1>4, <1>5 DEF ListsOf, OnceKept
<1> QED
  BY <1>4, <1>6, ListsOnLink DEF OnceKept

LEMMA CancelCommandLists ==
    ASSUME TypeOK, ListsCoherent, OnceKept, NEW l \in Links, CancelCommand(l)
    PROVE  ListsCoherent'
<1>1. sending[l] \in Seq(Bundles) /\ ListsOf(l)
  BY ListTypes DEF ListsCoherent
<1>2. UNCHANGED <<queue, inflight>>
  BY DEF CancelCommand, linkVars
<1>3. CASE UNCHANGED sending
  BY <1>2, <1>3, ListsUntouched
<1>4. CASE sending' = [sending EXCEPT ![l] = RemoveFirst(@, current[l])]
  <2>1. /\ sending'[l] = RemoveFirst(sending[l], current[l])
        /\ \A m \in Links \ {l} : sending'[m] = sending[m]
    BY <1>4 DEF TypeOK, ConnTypes
  <2>2. IsInjective(sending'[l]) /\ ToSet(sending'[l]) \subseteq ToSet(sending[l])
    BY <1>1, <2>1, InjectiveRemoveFirst DEF ListsOf
  <2>3. ListsOf(l)'
    BY <1>1, <1>2, <2>2 DEF ListsOf, OnceKept
  <2> QED
    BY <1>2, <2>1, <2>3, ListsOnLink DEF OnceKept
<1> QED
  BY <1>3, <1>4 DEF CancelCommand

LEMMA OnceAppend ==
    ASSUME NEW q \in Seq(Event), NEW e \in Event, e \notin ToSet(q), TransmittedOnce(q)
    PROVE  TransmittedOnce(Append(q, e))
<1>1. /\ Len(q) \in Nat /\ Len(Append(q, e)) = Len(q) + 1
      /\ \A i \in 1..Len(q) : Append(q, e)[i] = q[i] /\ q[i] # e
      /\ Append(q, e)[Len(q) + 1] = e
  BY ElementsOf
<1>2. ASSUME NEW i \in 1..(Len(q) + 1), NEW j \in 1..(Len(q) + 1),
             Append(q, e)[i].type = "transmitted", Append(q, e)[i] = Append(q, e)[j]
      PROVE  i = j
  <2>1. CASE i = Len(q) + 1 \/ j = Len(q) + 1
    BY <1>1, <1>2, <2>1
  <2>2. CASE i \in 1..Len(q) /\ j \in 1..Len(q)
    BY <1>1, <1>2, <2>2 DEF TransmittedOnce
  <2> QED
    BY <1>1, <2>1, <2>2
<1> QED
  BY <1>1, <1>2 DEF TransmittedOnce

\* The acknowledged bundle leaves the connection and stays in flight.
LEMMA AckBundleLists ==
    ASSUME TypeOK, ListsCoherent, NEW l \in Links, AckBundle(l)
    PROVE  ListsCoherent'
<1>1. sending[l] \in Seq(Bundles) /\ sending[l] # <<>> /\ ListsOf(l)
  BY ListTypes DEF ListsCoherent, AckBundle
<1>2. PICK b \in Bundles : b = Head(sending[l]) /\ b \in ToSet(sending[l])
  BY <1>1, ElementsOfTail
<1>3. PICK e : e = BundleEvent("transmitted", b, l)
  OBVIOUS
<1>4. e \in Event /\ e.b = b /\ e.l = l /\ e.type = "transmitted"
  BY <1>3, EventTypes DEF BundleEvent
<1>5. /\ eventq' = Append(eventq, e) /\ eventq \in Seq(Event) /\ TransmittedOnce(eventq)
      /\ UNCHANGED <<queue, inflight>>
  BY <1>2, <1>3 DEF AckBundle, Post, linkVars, TypeOK, DaemonTypes, ListsCoherent
<1>6. e \notin ToSet(eventq)
  BY <1>1, <1>2, <1>4 DEF ListsOf, Queued
<1>7. TransmittedOnce(eventq') /\ Queued("transmitted")' = Queued("transmitted") \cup {e}
  BY <1>4, <1>5, <1>6, OnceAppend, ElementsOfAppend DEF Queued
<1>8. /\ sending'[l] = Tail(sending[l])
      /\ \A m \in Links \ {l} : sending'[m] = sending[m]
  BY DEF AckBundle, TypeOK, ConnTypes
<1>9. IsInjective(sending'[l]) /\ ToSet(sending'[l]) = ToSet(sending[l]) \ {b}
  BY <1>1, <1>2, <1>8, InjectiveTail DEF ListsOf
<1>10. ListsOf(l)'
  BY <1>1, <1>2, <1>4, <1>5, <1>7, <1>9 DEF ListsOf
<1> QED
  BY <1>4, <1>5, <1>7, <1>8, <1>10, ListsOnLink

LEMMA ContinueLists ==
    ASSUME TypeOK, TypeOK', ListsCoherent, Continue PROVE ListsCoherent'
<1>1. OnceKept
  BY TransmittedEvents DEF ListsCoherent
<1>2. CASE RouteBundle \/ CheckNextHop \/ TryToDelete \/ CloseContact \/ LoadBundle
           \/ LoadExpired \/ LoadDone
  <2>1. UNCHANGED <<queue, sending, inflight>>
    BY <1>2 DEF RouteBundle, CheckNextHop, TryToDelete, CloseContact, LoadBundle, LoadExpired,
                LoadDone, linkVars, connVars
  <2> QED
    BY <1>1, <2>1, ListsUntouched
<1>3. CASE ForwardBundle
  <2>1. Now.b \in Bundles /\ Now.l \in Links
    BY <1>3, SteppedCall, CallShape DEF ForwardBundle
  <2>2. UNCHANGED <<inflight, sending, eventq>>
    BY <1>3 DEF ForwardBundle
  <2>3. QueueBundle(Now.b, Now.l) \/ UNCHANGED queue
    BY <1>3 DEF ForwardBundle
  <2> QED
    BY <1>1, <2>1, <2>2, <2>3, QueueBundleLists, ListsUntouched
<1>4. CASE DrainDeferred
  <2>1. Now.b \in Bundles /\ Now.l \in Links
    BY <1>4, SteppedCall, CallShape DEF DrainDeferred
  <2>2. UNCHANGED <<inflight, sending, eventq>>
    BY <1>4 DEF DrainDeferred, connVars
  <2>3. QueueBundle(Now.b, Now.l) \/ UNCHANGED queue
    BY <1>4 DEF DrainDeferred
  <2> QED
    BY <1>1, <2>1, <2>2, <2>3, QueueBundleLists, ListsUntouched
<1>5. CASE CancelBundle
  <2>1. Now.l \in Links /\ UNCHANGED <<inflight, sending>>
    BY <1>5, SteppedCall, CallShape DEF CancelBundle
  <2>2. queue' = [queue EXCEPT ![Now.l] = RemoveFirst(@, Now.b)] \/ UNCHANGED queue
    BY <1>5 DEF CancelBundle
  <2> QED
    BY <1>1, <2>1, <2>2, DequeuedLists, ListsUntouched
<1>6. CASE Requeue
  BY <1>1, <1>6, RequeueLists
<1> QED
  BY <1>2, <1>3, <1>4, <1>5, <1>6 DEF Continue

LEMMA NextLists ==
    ASSUME TypeOK, TypeOK', ListsCoherent, [Next]_vars PROVE ListsCoherent'
<1>1. CASE HandleEvent
  <2>1. OnceKept
    BY <1>1, TransmittedEvents DEF ListsCoherent
  <2>2. HandleTransmitted \/ UNCHANGED <<queue, sending, inflight>>
    BY <1>1 DEF HandleEvent, DiscardDuplicate, ReceiveExpired, ReceiveBundle,
       HandleSendCancelled, HandleExpired, HandleDeleteRequest, HandleDeletion,
       HandleCancelSend, HandleCustodySignal, HandleCustodyTimeout, HandleContactUp,
       HandleContactDown, HandleClosed, HandleOpen, linkVars, connVars
  <2> QED
    BY <2>1, <2>2, HandleTransmittedLists, ListsUntouched
<1>2. CASE Continue
  BY <1>2, ContinueLists
<1>3. CASE Timers
  <2>1. OnceKept
    BY <1>3, TransmittedEvents DEF ListsCoherent
  <2>2. /\ UNCHANGED <<inflight, sending>>
        /\ UNCHANGED queue \/ \E l \in Links : queue' = [queue EXCEPT ![l] = <<>>]
    BY <1>3 DEF Timers, ExpirationTimer, CustodyTimer, CancelledTimer, RerouteTimer, linkVars,
                connVars
  <2> QED
    BY <2>1, <2>2, EmptiedLists, ListsUntouched
<1>4. ASSUME NEW l \in Links, Connection(l) PROVE ListsCoherent'
  <2>1. CASE ~AckBundle(l)
    <3>1. OnceKept
      BY <1>4, <2>1, TransmittedEvents DEF ListsCoherent
    <3>2. \/ StartNextBundle(l) \/ CancelCommand(l)
          \/ UNCHANGED <<queue, sending, inflight>>
      BY <1>4, <2>1 DEF Connection, ConnectionUp, AcceptConnection, SendSegment, BreakContact,
                        BreakCommand, linkVars
    <3> QED
      BY <3>1, <3>2, StartNextBundleLists, CancelCommandLists, ListsUntouched
  <2> QED
    BY <2>1, AckBundleLists
<1>5. CASE Environment
  <2>1. OnceKept
    BY <1>5, TransmittedEvents DEF ListsCoherent
  <2>2. CASE Crash
    BY <2>1, <2>2, ElementsOfEmpty, InjectiveEmpty
    DEF Crash, ListsCoherent, ListsOf, OnceKept, Queued
  <2>3. CASE ~Crash
    <3>1. UNCHANGED <<queue, sending, inflight>>
      BY <1>5, <2>3 DEF Environment, Arrive, CancelRequest, CancelSend, CustodySignal,
                        CloseRequest, OpenRequest, linkVars, connVars
    <3> QED
      BY <2>1, <3>1, ListsUntouched
  <2> QED
    BY <2>2, <2>3
<1>6. CASE UNCHANGED vars \/ \E b \in Bundles : Free(b)
  <2>1. OnceKept
    BY <1>6, TransmittedEvents DEF ListsCoherent
  <2>2. UNCHANGED <<queue, sending, inflight>>
    BY <1>6 DEF Free, vars, linkVars, connVars
  <2> QED
    BY <2>1, <2>2, ListsUntouched
<1> QED
  BY <1>1, <1>2, <1>3, <1>4, <1>5, <1>6 DEF Next

-----------------------------------------------------------------------------
(* The forwarding log and the lists.                                       *)

\* The bundle is on the link queue or with the connection, or what became of
\* it is in the event queue.
Carried(b, l) ==
    \/ b \in ToSet(queue[l])
    \/ b \in ToSet(sending[l])
    \/ \E e \in ToSet(eventq) :
          e.type \in {"transmitted", "sendcancelled"} /\ e.b = b /\ e.l = l

\* Every bundle that the log calls queued, pending or not, is under way.
AllUnderWay ==
    \A b \in Bundles, l \in Links :
        fwd[b][l] = "queued" => <<b, l>> \in blocks /\ Carried(b, l)

LEMMA UnderWayUntouched ==
    ASSUME AllUnderWay, UNCHANGED <<fwd, blocks, queue, sending>>,
           QueueStays
    PROVE  AllUnderWay'
BY DEF AllUnderWay, Carried, QueueStays

LEMMA HandlersUnderWay ==
    ASSUME TypeOK, TypeOK', AllUnderWay, HandleEvent PROVE AllUnderWay'
<1>1. ToSet(eventq) \ {Ev} \subseteq ToSet(eventq') /\ UNCHANGED sending
  <2>1. UNCHANGED sending
    BY DEF HandleEvent, DiscardDuplicate, ReceiveExpired, ReceiveBundle, HandleTransmitted,
           HandleSendCancelled, HandleExpired, HandleDeleteRequest, HandleDeletion,
           HandleCancelSend, HandleCustodySignal, HandleCustodyTimeout, HandleContactUp,
           HandleContactDown, HandleClosed, HandleOpen, connVars
  <2> QED
    BY <2>1, HandlerKeeps
<1>2. fwd \in [Bundles -> [Links -> FwdStates]]
  BY DEF TypeOK, RouteTypes
<1>3. SUFFICES ASSUME NEW b \in Bundles, NEW l \in Links, fwd'[b][l] = "queued"
               PROVE  <<b, l>> \in blocks' /\ Carried(b, l)'
  BY DEF AllUnderWay
<1>4. CASE HandleTransmitted
  <2>1. Ev.b \in Bundles /\ Ev.l \in Links
    BY <1>4, HandledEvent, EventShape DEF HandleTransmitted
  <2>2. CASE <<Ev.b, Ev.l>> \in blocks
    <3>1. /\ fwd' = [fwd EXCEPT ![Ev.b][Ev.l] = "transmitted"]
          /\ blocks' = blocks \ {<<Ev.b, Ev.l>>}
          /\ queue' = [queue EXCEPT ![Ev.l] = RemoveFirst(@, Ev.b)]
      BY <1>4, <2>2 DEF HandleTransmitted, OffLists
    <3>2. <<b, l>> # <<Ev.b, Ev.l>> /\ fwd[b][l] = "queued"
      <4>1. fwd'[Ev.b][Ev.l] = "transmitted"
        BY <1>2, <2>1, <3>1
      <4>2. b # Ev.b \/ l # Ev.l
        BY <1>3, <4>1
      <4> QED
        BY <1>2, <1>3, <2>1, <3>1, <4>2
    <3>3. <<b, l>> \in blocks' /\ Carried(b, l)
      BY <3>1, <3>2 DEF AllUnderWay
    <3>4. b \in ToSet(queue[l]) => b \in ToSet(queue'[l])
      <4>1. CASE l # Ev.l
        BY <2>1, <3>1, <4>1 DEF TypeOK, LinkTypes
      <4>2. CASE l = Ev.l
        <5>1. queue'[l] = RemoveFirst(queue[l], Ev.b) /\ b # Ev.b
          BY <3>1, <3>2, <4>2 DEF TypeOK, LinkTypes
        <5> QED
          BY <5>1, ListTypes, ElementsOfRemoveFirst
      <4> QED
        BY <4>1, <4>2
    <3> QED
      BY <1>1, <3>2, <3>3, <3>4 DEF Carried
  <2>3. CASE <<Ev.b, Ev.l>> \notin blocks
    <3>1. UNCHANGED <<queue, fwd, blocks>>
      BY <1>4, <2>3 DEF HandleTransmitted
    <3>2. <<b, l>> \in blocks /\ Carried(b, l)
      BY <1>3, <3>1 DEF AllUnderWay
    <3>3. b # Ev.b \/ l # Ev.l
      BY <2>3, <3>2
    <3> QED
      BY <1>1, <3>1, <3>2, <3>3 DEF Carried
  <2> QED
    BY <2>2, <2>3
<1>5. CASE HandleSendCancelled
  <2>1. Ev.b \in Bundles /\ Ev.l \in Links /\ UNCHANGED queue
    BY <1>5, HandledEvent, EventShape DEF HandleSendCancelled, linkVars
  <2>2. CASE <<Ev.b, Ev.l>> \in blocks
    <3>1. /\ fwd' = [fwd EXCEPT ![Ev.b][Ev.l] = "cancelled"]
          /\ blocks' = blocks \ {<<Ev.b, Ev.l>>}
      BY <1>5, <2>2 DEF HandleSendCancelled, LogCancelled
    <3>2. (b # Ev.b \/ l # Ev.l) /\ fwd[b][l] = "queued"
      <4>1. fwd'[Ev.b][Ev.l] = "cancelled"
        BY <1>2, <2>1, <3>1
      <4>2. b # Ev.b \/ l # Ev.l
        BY <1>3, <4>1
      <4> QED
        BY <1>2, <1>3, <2>1, <3>1, <4>2
    <3>3. <<b, l>> \in blocks' /\ Carried(b, l)
      BY <3>1, <3>2 DEF AllUnderWay
    <3> QED
      BY <1>1, <2>1, <3>2, <3>3 DEF Carried
  <2>3. CASE <<Ev.b, Ev.l>> \notin blocks
    <3>1. UNCHANGED <<fwd, blocks>>
      BY <1>5, <2>3 DEF HandleSendCancelled, LogCancelled
    <3>2. <<b, l>> \in blocks /\ Carried(b, l)
      BY <1>3, <3>1 DEF AllUnderWay
    <3>3. b # Ev.b \/ l # Ev.l
      BY <2>3, <3>2
    <3> QED
      BY <1>1, <2>1, <3>1, <3>2, <3>3 DEF Carried
  <2> QED
    BY <2>2, <2>3
<1>6. CASE ~HandleTransmitted /\ ~HandleSendCancelled
  <2>1. /\ UNCHANGED <<queue, blocks>>
        /\ Ev.type \notin {"transmitted", "sendcancelled"}
        /\ UNCHANGED fwd \/ Reception(Ev.b, Ev.l) \/ LogTimeout(Ev.b, Ev.l)
    BY <1>6 DEF HandleEvent, DiscardDuplicate, ReceiveExpired, ReceiveBundle, HandleExpired,
         HandleDeleteRequest, HandleDeletion, HandleCancelSend, HandleCustodySignal,
         HandleCustodyTimeout, HandleContactUp, HandleContactDown, HandleClosed, HandleOpen,
         linkVars, routeVars, Handle, Ev
  <2>2. fwd[b][l] = "queued"
    BY <1>2, <1>3, <2>1 DEF Reception, LogTimeout
  <2>3. <<b, l>> \in blocks /\ Carried(b, l)
    BY <2>2 DEF AllUnderWay
  <2> QED
    BY <1>1, <2>1, <2>3 DEF Carried
<1> QED
  BY <1>4, <1>5, <1>6

LEMMA QueueBundleUnderWay ==
    ASSUME TypeOK, AllUnderWay, NEW b \in Bundles, NEW l \in Links, QueueBundle(b, l),
           UNCHANGED <<sending, eventq>>
    PROVE  AllUnderWay'
<1>1. /\ fwd \in [Bundles -> [Links -> FwdStates]] /\ queue \in [Links -> Seq(Bundles)]
  BY DEF TypeOK, RouteTypes, LinkTypes
<1>2. CASE UNCHANGED <<fwd, queue>> /\ blocks \subseteq blocks'
  BY <1>2 DEF AllUnderWay, Carried
<1>3. CASE /\ blocks' = blocks \cup {<<b, l>>}
           /\ fwd' = [fwd EXCEPT ![b][l] = "queued"]
           /\ queue' = [queue EXCEPT ![l] = Append(@, b)]
  <2>1. ToSet(queue'[l]) = ToSet(queue[l]) \cup {b}
    BY <1>1, <1>3, ElementsOfAppend
  <2>2. SUFFICES ASSUME NEW d \in Bundles, NEW m \in Links, fwd'[d][m] = "queued"
                 PROVE  <<d, m>> \in blocks' /\ Carried(d, m)'
    BY DEF AllUnderWay
  <2>3. CASE d = b /\ m = l
    BY <1>3, <2>1, <2>3 DEF Carried
  <2>4. CASE d # b \/ m # l
    <3>1. fwd[d][m] = "queued"
      BY <1>1, <1>3, <2>2, <2>4
    <3>2. <<d, m>> \in blocks /\ Carried(d, m)
      BY <3>1 DEF AllUnderWay
    <3>3. ToSet(queue[m]) \subseteq ToSet(queue'[m])
      BY <1>1, <1>3, <2>1
    <3> QED
      BY <1>3, <3>2, <3>3 DEF Carried
  <2> QED
    BY <2>3, <2>4
<1> QED
  BY <1>2, <1>3 DEF QueueBundle

\* A bundle leaves the lists with the event that says so.
LEMMA CarriedAway ==
    ASSUME AllUnderWay, UNCHANGED <<fwd, blocks>>, QueueStays,
           NEW l \in Links,
           \A m \in Links \ {l} : queue'[m] = queue[m] /\ sending'[m] = sending[m],
           \A b \in Bundles : b \in ToSet(queue[l]) \cup ToSet(sending[l]) => Carried(b, l)'
    PROVE  AllUnderWay'
<1>1. SUFFICES ASSUME NEW b \in Bundles, NEW m \in Links, fwd[b][m] = "queued"
               PROVE  <<b, m>> \in blocks' /\ Carried(b, m)'
  BY DEF AllUnderWay
<1>2. <<b, m>> \in blocks /\ Carried(b, m)
  BY <1>1 DEF AllUnderWay
<1>3. CASE m = l
  BY <1>2, <1>3 DEF Carried, QueueStays
<1>4. CASE m # l
  BY <1>2, <1>4 DEF Carried, QueueStays
<1> QED
  BY <1>2, <1>3, <1>4

LEMMA ContinueUnderWay ==
    ASSUME TypeOK, TypeOK', ListsCoherent, AllUnderWay, Continue PROVE AllUnderWay'
<1>1. QueueStays
  BY EventsKept
<1>2. CASE RouteBundle \/ CheckNextHop \/ TryToDelete \/ CloseContact \/ LoadBundle
           \/ LoadExpired \/ LoadDone
  <2>1. UNCHANGED <<fwd, blocks, queue, sending>>
    BY <1>2 DEF RouteBundle, CheckNextHop, TryToDelete, CloseContact, LoadBundle, LoadExpired,
                LoadDone, linkVars, connVars, routeVars
  <2> QED
    BY <1>1, <2>1, UnderWayUntouched
<1>3. CASE ForwardBundle
  <2>1. Now.b \in Bundles /\ Now.l \in Links /\ UNCHANGED <<sending, eventq>>
    BY <1>3, SteppedCall, CallShape DEF ForwardBundle
  <2>2. QueueBundle(Now.b, Now.l) \/ UNCHANGED <<fwd, blocks, queue>>
    BY <1>3 DEF ForwardBundle
  <2> QED
    BY <1>1, <2>1, <2>2, QueueBundleUnderWay, UnderWayUntouched
<1>4. CASE DrainDeferred
  <2>1. Now.b \in Bundles /\ Now.l \in Links /\ UNCHANGED <<sending, eventq>>
    BY <1>4, SteppedCall, CallShape DEF DrainDeferred, connVars
  <2>2. QueueBundle(Now.b, Now.l) \/ UNCHANGED <<fwd, blocks, queue>>
    BY <1>4 DEF DrainDeferred
  <2> QED
    BY <1>1, <2>1, <2>2, QueueBundleUnderWay, UnderWayUntouched
<1>5. CASE CancelBundle
  <2>1. PICK l \in Links, d \in Bundles : l = Now.l /\ d = Now.b
    BY <1>5, SteppedCall, CallShape DEF CancelBundle
  <2>2. UNCHANGED <<fwd, blocks, sending>>
    BY <1>5 DEF CancelBundle, routeVars
  <2>3. CASE UNCHANGED queue
    BY <1>1, <2>2, <2>3, UnderWayUntouched
  <2>4. CASE queue' = [queue EXCEPT ![l] = RemoveFirst(@, d)]
             /\ Post(BundleEvent("sendcancelled", d, l))
    <3>1. /\ queue'[l] = RemoveFirst(queue[l], d)
          /\ \A m \in Links \ {l} : queue'[m] = queue[m]
      BY <2>4 DEF TypeOK, LinkTypes
    <3>2. ToSet(queue[l]) \ {d} \subseteq ToSet(queue'[l])
      BY <3>1, ListTypes, ElementsOfRemoveFirst
    <3>3. BundleEvent("sendcancelled", d, l) \in ToSet(eventq')
      <4>1. BundleEvent("sendcancelled", d, l) \in Event /\ eventq \in Seq(Event)
        BY EventTypes DEF TypeOK, DaemonTypes
      <4> QED
        BY <2>4, <4>1, ElementsOfAppend DEF Post
    <3>4. Carried(d, l)'
      BY <3>3 DEF Carried, BundleEvent
    <3>5. \A b \in Bundles : b \in ToSet(queue[l]) \cup ToSet(sending[l]) => Carried(b, l)'
      BY <2>2, <3>2, <3>4 DEF Carried
    <3> QED
      BY <1>1, <2>2, <3>1, <3>5, CarriedAway
  <2> QED
    BY <1>5, <2>1, <2>3, <2>4 DEF CancelBundle
<1>6. CASE Requeue
  <2>1. PICK l \in Links, b \in Bundles :
           /\ sending[l] # <<>> /\ b = Head(sending[l])
           /\ queue'[l] = Append(queue[l], b) /\ sending'[l] = Tail(sending[l])
           /\ \A m \in Links \ {l} : queue'[m] = queue[m] /\ sending'[m] = sending[m]
    BY <1>6, RequeueMoves
  <2>2. UNCHANGED <<fwd, blocks>>
    BY <1>6 DEF Requeue, routeVars
  <2>3. queue[l] \in Seq(Bundles) /\ sending[l] \in Seq(Bundles)
    BY ListTypes
  <2>4. /\ ToSet(queue'[l]) = ToSet(queue[l]) \cup {b}
        /\ ToSet(sending[l]) = ToSet(sending'[l]) \cup {b}
    BY <2>1, <2>3, ElementsOfAppend, ElementsOfTail
  <2>5. \A d \in Bundles : d \in ToSet(queue[l]) \cup ToSet(sending[l]) => Carried(d, l)'
    BY <2>4 DEF Carried
  <2> QED
    BY <1>1, <2>1, <2>2, <2>5, CarriedAway
<1> QED
  BY <1>2, <1>3, <1>4, <1>5, <1>6 DEF Continue

LEMMA TimersUnderWay ==
    ASSUME TypeOK, TypeOK', AllUnderWay, Timers PROVE AllUnderWay'
<1>1. QueueStays /\ UNCHANGED <<fwd, blocks, sending>>
  <2>1. UNCHANGED <<fwd, blocks, sending>>
    BY DEF Timers, ExpirationTimer, CustodyTimer, CancelledTimer, RerouteTimer, routeVars,
           connVars
  <2> QED
    BY <2>1, EventsKept
<1>2. CASE UNCHANGED queue
  BY <1>1, <1>2, UnderWayUntouched
<1>3. ASSUME NEW l \in Links, RerouteTimer(l), linkState[l] = "unavailable" PROVE AllUnderWay'
  <2> DEFINE s == [i \in 1..Len(queue[l]) |-> BundleEvent("sendcancelled", queue[l][i], l)]
  <2>1. eventq' = eventq \o s /\ queue' = [queue EXCEPT ![l] = <<>>]
    BY <1>3 DEF RerouteTimer
  <2>2. queue[l] \in Seq(Bundles) /\ eventq \in Seq(Event)
    BY ListTypes DEF TypeOK, DaemonTypes
  <2>3. s \in Seq(Event) /\ Len(s) = Len(queue[l])
    <3>1. \A i \in 1..Len(queue[l]) : queue[l][i] \in Bundles
      BY <2>2
    <3>2. \A i \in 1..Len(queue[l]) : BundleEvent("sendcancelled", queue[l][i], l) \in Event
      BY <3>1, EventTypes
    <3>3. Len(queue[l]) \in Nat
      BY <2>2
    <3> QED
      BY <3>2, <3>3
  <2>4. ASSUME NEW b \in ToSet(queue[l]) PROVE BundleEvent("sendcancelled", b, l) \in ToSet(s)
    <3>1. PICK i \in 1..Len(queue[l]) : queue[l][i] = b
      BY <2>2, ElementsOf
    <3>2. s[i] = BundleEvent("sendcancelled", b, l) /\ i \in 1..Len(s)
      BY <2>3, <3>1
    <3> HIDE DEF s
    <3> QED
      BY <2>3, <3>2, ElementsOf
  <2> HIDE DEF s
  <2>5. ToSet(eventq') = ToSet(eventq) \cup ToSet(s)
    BY <2>1, <2>2, <2>3, ElementsOfConcat
  <2>6. ASSUME NEW b \in Bundles, b \in ToSet(queue[l]) \cup ToSet(sending[l])
        PROVE  Carried(b, l)'
    <3>1. CASE b \in ToSet(queue[l])
      <4>1. BundleEvent("sendcancelled", b, l) \in ToSet(eventq')
        BY <2>4, <2>5, <3>1
      <4> QED
        BY <4>1 DEF Carried, BundleEvent
    <3>2. CASE b \in ToSet(sending[l])
      BY <1>1, <3>2 DEF Carried
    <3> QED
      BY <2>6, <3>1, <3>2
  <2>7. \A m \in Links \ {l} : queue'[m] = queue[m]
    BY <2>1 DEF TypeOK, LinkTypes
  <2> QED
    BY <1>1, <2>6, <2>7, CarriedAway
<1>4. UNCHANGED queue \/ \E l \in Links : RerouteTimer(l) /\ linkState[l] = "unavailable"
  BY DEF Timers, ExpirationTimer, CustodyTimer, CancelledTimer, RerouteTimer, linkVars
<1> QED
  BY <1>2, <1>3, <1>4

LEMMA ConnectionsUnderWay ==
    ASSUME TypeOK, TypeOK', AllUnderWay, NEW l \in Links, Connection(l)
    PROVE  AllUnderWay'
<1>1. QueueStays /\ UNCHANGED <<fwd, blocks>>
  <2>1. UNCHANGED <<fwd, blocks>>
    BY DEF Connection, ConnectionUp, AcceptConnection, StartNextBundle, SendSegment, AckBundle,
           CancelCommand, BreakContact, BreakCommand, routeVars
  <2> QED
    BY <2>1, EventsKept
<1>2. /\ queue[l] \in Seq(Bundles) /\ sending[l] \in Seq(Bundles) /\ eventq \in Seq(Event)
      /\ cmds[l] \in Seq(Bundles)
  BY ListTypes DEF TypeOK, DaemonTypes
<1>3. CASE StartNextBundle(l)
  <2>1. PICK b : b = Head(queue[l]) /\ b \in Bundles /\ queue[l] # <<>>
    BY <1>2, <1>3, ElementsOfTail DEF StartNextBundle
  <2>2. /\ queue'[l] = Tail(queue[l]) /\ sending'[l] = Append(sending[l], b)
        /\ \A m \in Links \ {l} : queue'[m] = queue[m] /\ sending'[m] = sending[m]
    BY <1>3, <2>1 DEF StartNextBundle, MoveToInflight, TypeOK, LinkTypes, ConnTypes
  <2>3. /\ ToSet(queue[l]) = ToSet(queue'[l]) \cup {b}
        /\ ToSet(sending'[l]) = ToSet(sending[l]) \cup {b}
    BY <1>2, <2>1, <2>2, ElementsOfAppend, ElementsOfTail
  <2>4. \A d \in Bundles : d \in ToSet(queue[l]) \cup ToSet(sending[l]) => Carried(d, l)'
    BY <2>3 DEF Carried
  <2> QED
    BY <1>1, <2>2, <2>4, CarriedAway
<1>4. ASSUME NEW b \in Bundles, NEW type \in {"transmitted", "sendcancelled"},
             Post(BundleEvent(type, b, l)), UNCHANGED queue,
             \A m \in Links \ {l} : sending'[m] = sending[m],
             ToSet(sending[l]) \ {b} \subseteq ToSet(sending'[l])
      PROVE  AllUnderWay'
  <2>1. BundleEvent(type, b, l) \in ToSet(eventq')
    <3>1. BundleEvent(type, b, l) \in Event
      BY EventTypes
    <3> QED
      BY <1>2, <1>4, <3>1, ElementsOfAppend DEF Post
  <2>2. Carried(b, l)'
    BY <2>1 DEF Carried, BundleEvent
  <2>3. \A d \in Bundles : d \in ToSet(queue[l]) \cup ToSet(sending[l]) => Carried(d, l)'
    BY <1>4, <2>2 DEF Carried
  <2> QED
    BY <1>1, <1>4, <2>3, CarriedAway
<1>5. CASE AckBundle(l)
  <2>1. PICK b : b = Head(sending[l]) /\ b \in Bundles /\ sending[l] # <<>>
    BY <1>2, <1>5, ElementsOfTail DEF AckBundle
  <2>2. /\ sending'[l] = Tail(sending[l]) /\ \A m \in Links \ {l} : sending'[m] = sending[m]
        /\ Post(BundleEvent("transmitted", b, l)) /\ UNCHANGED queue
    BY <1>5, <2>1 DEF AckBundle, linkVars, TypeOK, ConnTypes
  <2>3. ToSet(sending[l]) \ {b} \subseteq ToSet(sending'[l])
    BY <1>2, <2>1, <2>2, ElementsOfTail
  <2> QED
    BY <1>4, <2>1, <2>2, <2>3
<1>6. CASE CancelCommand(l)
  <2>1. UNCHANGED queue
    BY <1>6 DEF CancelCommand, linkVars
  <2>2. CASE UNCHANGED sending
    BY <1>1, <2>1, <2>2, UnderWayUntouched
  <2>3. CASE Head(cmds[l]) = current[l]
    <3>1. PICK b : b = current[l] /\ b \in Bundles
      BY <1>2, <1>6, <2>3, ElementsOfTail DEF CancelCommand
    <3>2. /\ sending'[l] = RemoveFirst(sending[l], b)
          /\ \A m \in Links \ {l} : sending'[m] = sending[m]
          /\ Post(BundleEvent("sendcancelled", b, l))
      BY <1>6, <2>3, <3>1 DEF CancelCommand, TypeOK, ConnTypes
    <3>3. ToSet(sending[l]) \ {b} \subseteq ToSet(sending'[l])
      BY <1>2, <3>2, ElementsOfRemoveFirst
    <3> QED
      BY <1>4, <2>1, <3>1, <3>2, <3>3
  <2> QED
    BY <1>6, <2>2, <2>3 DEF CancelCommand
<1>7. CASE ~StartNextBundle(l) /\ ~AckBundle(l) /\ ~CancelCommand(l)
  <2>1. UNCHANGED <<queue, sending>>
    BY <1>7 DEF Connection, ConnectionUp, AcceptConnection, SendSegment, BreakContact,
                BreakCommand, linkVars
  <2> QED
    BY <1>1, <2>1, UnderWayUntouched
<1> QED
  BY <1>3, <1>5, <1>6, <1>7

LEMMA NextUnderWay ==
    ASSUME TypeOK, TypeOK', ListsCoherent, AllUnderWay, [Next]_vars PROVE AllUnderWay'
<1>1. CASE HandleEvent
  BY <1>1, HandlersUnderWay
<1>2. CASE Continue
  BY <1>2, ContinueUnderWay
<1>3. ASSUME NEW b \in Bundles, Free(b) PROVE AllUnderWay'
  <2>1. /\ fwd' = [fwd EXCEPT ![b] = [l \in Links |-> "none"]]
        /\ blocks' = {p \in blocks : p[1] # b} /\ UNCHANGED <<queue, sending, eventq>>
    BY <1>3 DEF Free, linkVars, connVars, daemonVars
  <2>2. ASSUME NEW d \in Bundles, NEW l \in Links, fwd'[d][l] = "queued"
        PROVE  <<d, l>> \in blocks' /\ Carried(d, l)'
    <3>1. d # b /\ fwd[d][l] = "queued"
      BY <2>1, <2>2 DEF TypeOK, RouteTypes
    <3> QED
      BY <2>1, <3>1 DEF AllUnderWay, Carried
  <2> QED
    BY <2>2 DEF AllUnderWay
<1>4. CASE Timers
  BY <1>4, TimersUnderWay
<1>5. ASSUME NEW l \in Links, Connection(l) PROVE AllUnderWay'
  BY <1>5, ConnectionsUnderWay
<1>6. CASE Crash
  BY <1>6 DEF Crash, AllUnderWay
<1>7. CASE (Environment /\ ~Crash) \/ UNCHANGED vars
  <2>1. UNCHANGED <<fwd, blocks, queue, sending>>
    BY <1>7 DEF Environment, Arrive, CancelRequest, CancelSend, CustodySignal, CloseRequest,
                OpenRequest, vars, linkVars, connVars, routeVars
  <2> QED
    BY <1>7, <2>1, EventsKept, UnderWayUntouched
<1> QED
  BY <1>1, <1>2, <1>3, <1>4, <1>5, <1>6, <1>7 DEF Next, Environment

\* What the forwarding log calls queued is being sent: BundleActions,
\* the convergence layer's cancel_bundle and close_contact, and reroute_bundles
\* never take a bundle off the lists without an event that updates the log.
THEOREM QueuedIsBeingSent == Spec => []QueuedIsUnderWay
<1> DEFINE Inv == TypeOK /\ ListsCoherent /\ AllUnderWay
<1>1. Init => Inv
  BY InitType, InitLists DEF Init, AllUnderWay
<1>2. Inv /\ [Next]_vars => Inv'
  BY NextType, NextLists, NextUnderWay
<1>3. Inv => QueuedIsUnderWay
  BY DEF TypeOK, BundleTypes, AllUnderWay, QueuedIsUnderWay, Carried, Queued
<1> QED
  BY <1>1, <1>2, <1>3, PTL DEF Spec

-----------------------------------------------------------------------------
(* The link, its contact and the connection thread.                        *)

\* The daemon has closed the link and waits for the connection thread to stop.
Closing(l) == DoCall("close", NoBundle, l) \in ToSet(calls)

ConnectionOf(l) ==
    /\ phase[l] \in {"none", "connecting"} => sending[l] = <<>> /\ current[l] = NoBundle
    /\ phase[l] = "none" => cmds[l] = <<>> /\ ~breaking[l]
    /\ phase[l] = "up" /\ current[l] # NoBundle =>
          sending[l] # <<>> /\ Last(sending[l]) = current[l]
    /\ linkState[l] \in {"open", "opening"} => phase[l] # "none"
    /\ Closing(l) => linkState[l] \in {"available", "unavailable"} /\ phase[l] # "none"
    /\ breaking[l] => Closing(l)

\* A link that is down has a connection only when a peer made it, and then the
\* event that opens the link is in the queue, ahead of any that would close it.
\* A connection that broke has told the daemon.
ContactOf(l) ==
    /\ linkState[l] \in {"available", "unavailable"} /\ phase[l] # "none" /\ ~Closing(l) =>
          l \in Passive /\ UpFirst(eventq, l, contact[l])
    /\ phase[l] = "broken" /\ ~Closing(l) =>
          \E e \in ToSet(eventq) : e.type = "closed" /\ e.l = l /\ e.c = contact[l]

\* The daemon does nothing else while it waits.
CloseAlone == \A l \in Links : Closing(l) => calls = <<DoCall("close", NoBundle, l)>>

\* The events about a contact name one, and a request to open a link does not.
ContactEvents ==
    \A e \in ToSet(eventq) : /\ e.type \in {"contactup", "closed"} => e.c # 0
                             /\ e.type = "open" => e.c = 0

LinksCoherent ==
    /\ \A l \in Links : ConnectionOf(l) /\ ContactOf(l)
    /\ CloseAlone
    /\ ContactEvents

LEMMA InitLinks == Init => LinksCoherent
BY ElementsOfEmpty
DEF Init, LinksCoherent, ConnectionOf, ContactOf, CloseAlone, ContactEvents, Closing,
    InitialState

LEMMA ContactEventsPosted ==
    ASSUME TypeOK, ContactEvents, NEW e \in Event, eventq' = Append(eventq, e),
           /\ e.type \in {"contactup", "closed"} => e.c # 0
           /\ e.type = "open" => e.c = 0
    PROVE  ContactEvents'
<1>1. ToSet(eventq') = ToSet(eventq) \cup {e}
  BY ElementsOfAppend DEF TypeOK, DaemonTypes
<1> QED
  BY <1>1 DEF ContactEvents

LEMMA NextContactEvents ==
    ASSUME TypeOK, TypeOK', ContactEvents, [Next]_vars PROVE ContactEvents'
<1>1. /\ eventq \in Seq(Event) /\ MaxContacts \in Nat \ {0}
      /\ \A l \in Links : contact[l] \in 0..MaxContacts /\ contact[l] # 0
  BY ParamsAssumption DEF TypeOK, DaemonTypes, LinkTypes
<1>2. ASSUME NEW types, Grown(eventq, eventq', types),
             types \cap {"contactup", "closed", "open"} = {}
      PROVE  ContactEvents'
  BY <1>1, <1>2, GrownQueue DEF ContactEvents
<1>3. CASE HandleEvent
  <2> DEFINE t == Tail(eventq)
             T == {"expired", "deleterequest", "contactdown"}
  <2>1. /\ eventq # <<>> /\ t \in Seq(Event) /\ Grown(t, eventq', T)
        /\ T \cap {"contactup", "closed", "open"} = {}
    BY <1>3, HandlerEvents
  <2>2. ToSet(t) \subseteq ToSet(eventq)
    BY <1>1, <2>1, ElementsOfTail
  <2> HIDE DEF t, T
  <2>3. \A e \in ToSet(eventq') : e \in ToSet(t) \/ e.type \in T
    BY <2>1, GrownQueue
  <2> QED
    BY <2>1, <2>2, <2>3 DEF ContactEvents
<1>4. CASE Continue
  BY <1>2, <1>4, ContinueEvents
<1>5. CASE Timers
  BY <1>2, <1>5, TimerEvents
<1>6. ASSUME NEW l \in Links, Connection(l) PROVE ContactEvents'
  <2>1. ASSUME NEW e \in Event, eventq' = Append(eventq, e), e.c # 0, e.type # "open"
        PROVE  ContactEvents'
    BY <2>1, ContactEventsPosted
  <2>2. CASE UNCHANGED eventq
    BY <2>2 DEF ContactEvents
  <2>3. CASE ConnectionUp(l) \/ AcceptConnection(l)
    <3>1. \A c \in 1..MaxContacts : c \in 0..MaxContacts /\ c # 0
      BY <1>1
    <3>2. PICK c \in 0..MaxContacts : c # 0 /\ Post(ContactEvent("contactup", l, c, ""))
      BY <1>1, <2>3, <3>1, NextContactIsNew DEF ConnectionUp, AcceptConnection
    <3>3. PICK e : e = ContactEvent("contactup", l, c, "")
      OBVIOUS
    <3>4. e \in Event
      BY <3>3, EventTypes
    <3>5. e.type = "contactup" /\ e.c = c
      BY <3>3 DEF ContactEvent
    <3> QED
      BY <2>1, <3>2, <3>3, <3>4, <3>5 DEF Post
  <2>4. ASSUME NEW w, BreakContact(l, w), w \in {"broken", "idle"} PROVE ContactEvents'
    <3>1. PICK e : e = ContactEvent("closed", l, contact[l], w)
      OBVIOUS
    <3>2. e \in Event
      BY <1>1, <2>4, <3>1, EventTypes
    <3>3. e.type = "closed" /\ e.c # 0
      BY <1>1, <3>1 DEF ContactEvent
    <3> QED
      BY <2>1, <2>4, <3>1, <3>2, <3>3 DEF BreakContact, Post
  <2>5. CASE AckBundle(l) \/ CancelCommand(l)
    <3>1. Grown(eventq, eventq', {"transmitted", "sendcancelled"})
      <4>1. eventq' \in Seq(Event)
        BY DEF TypeOK, DaemonTypes
      <4>2. \/ Post(BundleEvent("transmitted", Head(sending[l]), l))
            \/ Post(BundleEvent("sendcancelled", current[l], l)) \/ UNCHANGED eventq
        BY <2>5 DEF AckBundle, CancelCommand
      <4>3. ASSUME NEW e, Post(e), e.type \in {"transmitted", "sendcancelled"}
            PROVE  Grown(eventq, eventq', {"transmitted", "sendcancelled"})
        BY <1>1, <4>1, <4>3, GrownByOne DEF Post
      <4>4. \A b : /\ BundleEvent("transmitted", b, l).type \in {"transmitted", "sendcancelled"}
                   /\ BundleEvent("sendcancelled", b, l).type \in {"transmitted", "sendcancelled"}
        BY DEF BundleEvent
      <4> QED
        BY <1>1, <4>2, <4>3, <4>4, GrownByNone
    <3> QED
      BY <1>2, <3>1
  <2>6. CASE StartNextBundle(l) \/ SendSegment(l) \/ BreakCommand(l)
    BY <2>2, <2>6 DEF StartNextBundle, SendSegment, BreakCommand, daemonVars
  <2> QED
    BY <1>6, <2>3, <2>4, <2>5, <2>6 DEF Connection
<1>7. CASE Environment
  <2>1. CASE Crash
    BY <2>1, ElementsOfEmpty DEF Crash, ContactEvents
  <2>2. ASSUME NEW l \in Links, CloseRequest(l) PROVE ContactEvents'
    <3>1. PICK e : e = ContactEvent("closed", l, contact[l], "user")
      OBVIOUS
    <3>2. e \in Event
      BY <1>1, <3>1, EventTypes
    <3>3. e.type = "closed" /\ e.c # 0
      BY <1>1, <3>1 DEF ContactEvent
    <3> QED
      BY <2>2, <3>1, <3>2, <3>3, ContactEventsPosted DEF CloseRequest, Post
  <2>3. ASSUME NEW l \in Links, OpenRequest(l) PROVE ContactEvents'
    <3>1. PICK e : e = ContactEvent("open", l, 0, "")
      OBVIOUS
    <3>2. 0 \in 0..MaxContacts
      BY <1>1
    <3>3. e \in Event
      BY <3>1, <3>2, EventTypes
    <3>4. e.type = "open" /\ e.c = 0
      BY <3>1 DEF ContactEvent
    <3> QED
      BY <2>3, <3>1, <3>3, <3>4, ContactEventsPosted DEF OpenRequest, Post
  <2>4. ASSUME NEW b \in Bundles, NEW l,
               Arrive(b, l) \/ CancelRequest(b) \/ CustodySignal(b) \/ CancelSend(b, l)
        PROVE  ContactEvents'
    <3> DEFINE T == {"received", "deleterequest", "custodysignal", "cancelsend"}
    <3>1. eventq' \in Seq(Event)
      BY DEF TypeOK, DaemonTypes
    <3>2. ASSUME NEW e, e.type \in T, Post(e) PROVE Grown(eventq, eventq', T)
      BY <1>1, <3>1, <3>2, GrownByOne DEF Post
    <3>3. ASSUME NEW e, e.type \in T, e.type # "closed", eventq' = <<e>> \o eventq
          PROVE  Grown(eventq, eventq', T)
      BY <1>1, <3>1, <3>3, GrownByOne
    <3>4. /\ \A t \in T : BundleEvent(t, b, l).type = t /\ BundleEvent(t, b, NoLink).type = t
          /\ "closed" \notin T
      BY DEF BundleEvent
    <3>5. \/ Post(BundleEvent("received", b, l)) \/ Post(BundleEvent("deleterequest", b, NoLink))
          \/ Post(BundleEvent("custodysignal", b, NoLink))
          \/ eventq' = <<BundleEvent("cancelsend", b, l)>> \o eventq
      BY <2>4 DEF Arrive, CancelRequest, CustodySignal, CancelSend
    <3>6. Grown(eventq, eventq', T)
      BY <3>2, <3>3, <3>4, <3>5
    <3> QED
      BY <1>2, <3>6
  <2> QED
    BY <1>7, <2>1, <2>2, <2>3, <2>4 DEF Environment
<1>8. CASE UNCHANGED vars \/ \E b \in Bundles : Free(b)
  BY <1>8 DEF Free, vars, daemonVars, ContactEvents
<1> QED
  BY <1>3, <1>4, <1>5, <1>6, <1>7, <1>8 DEF Next

\* What handling the event at the head does to the order of the others.
LEMMA HandlerOrder ==
    ASSUME TypeOK, TypeOK', HandleEvent, NEW l, NEW c, UpFirst(eventq, l, c)
    PROVE  /\ ~(Ev.type = "closed" /\ Ev.l = l /\ Ev.c = c)
           /\ \/ Ev.type = "contactup" /\ Ev.l = l /\ Ev.c = c
              \/ UpFirst(eventq', l, c)
<1> DEFINE t == Tail(eventq)
           T == {"expired", "deleterequest", "contactdown"}
<1>1. /\ eventq \in Seq(Event) /\ eventq # <<>> /\ Ev = Head(eventq) /\ t \in Seq(Event)
      /\ Grown(t, eventq', T)
  BY HandlerEvents DEF TypeOK, DaemonTypes
<1>2. /\ ~(Ev.type = "closed" /\ Ev.l = l /\ Ev.c = c)
      /\ (Ev.type = "contactup" /\ Ev.l = l /\ Ev.c = c) \/ UpFirst(t, l, c)
  BY <1>1, UpFirstTail
<1> HIDE DEF t, T
<1>3. UpFirst(t, l, c) => UpFirst(eventq', l, c)
  BY <1>1, GrownQueue
<1> QED
  BY <1>2, <1>3

\* No link is closing before or after a handler other than that of a closed
\* event, or a step other than those that wait for the connection thread.
LEMMA NoneClosing ==
    ASSUME TypeOK, TypeOK', CloseAlone, NEW l \in Links,
           \/ HandleEvent /\ ~HandleClosed
           \/ Continue /\ ~Requeue /\ ~CloseContact
    PROVE  ~Closing(l) /\ ~Closing(l)'
<1>1. DoCall("close", NoBundle, l).op = "close"
  BY DEF DoCall
<1>2. CASE HandleEvent /\ ~HandleClosed
  <2>1. calls = <<>> /\ \A c \in ToSet(calls') : c.op = "close" => HandleClosed
    BY <1>2, HandlerPushes
  <2> QED
    BY <1>1, <1>2, <2>1, ElementsOfEmpty DEF Closing
<1>3. CASE Continue /\ ~Requeue /\ ~CloseContact
  <2>1. calls \in Seq(Call) /\ calls # <<>> /\ Head(calls).op # "close"
    BY <1>3 DEF Continue, RouteBundle, ForwardBundle, CheckNextHop, DrainDeferred, CancelBundle,
       TryToDelete, LoadBundle, LoadExpired, LoadDone, Step, Idle, TypeOK, DaemonTypes
  <2>2. ~Closing(l)
    BY <1>1, <2>1 DEF CloseAlone
  <2>3. CASE LoadBundle
    <3>1. PICK b \in Bundles : UNCHANGED calls \/ calls' = calls \o RouteCalls(b)
      BY <2>3 DEF LoadBundle
    <3>2. RouteCalls(b) \in Seq(Call) /\ \A c \in ToSet(RouteCalls(b)) : c.op = "route"
      BY RouteCallsType, CallsOfRoutes
    <3>3. ToSet(calls') \subseteq ToSet(calls) \cup ToSet(RouteCalls(b))
      BY <2>1, <3>1, <3>2, ElementsOfConcat
    <3> QED
      BY <1>1, <2>2, <3>2, <3>3 DEF Closing
  <2>4. CASE LoadExpired \/ LoadDone
    <3>1. ToSet(calls') \subseteq ToSet(calls)
      BY <2>1, <2>4, ElementsOfTail DEF LoadExpired, LoadDone
    <3> QED
      BY <2>2, <3>1 DEF Closing
  <2>5. CASE ~LoadBundle /\ ~LoadExpired /\ ~LoadDone
    <3>1. \A c \in ToSet(calls') : c \in ToSet(calls) \/ c.op # "close"
      BY <1>3, <2>5, StepPushes DEF DoCall
    <3> QED
      BY <1>1, <2>2, <3>1 DEF Closing
  <2> QED
    BY <2>2, <2>3, <2>4, <2>5
<1> QED
  BY <1>2, <1>3

\* The order of the events about the link l is kept.
OrderKept(l) ==
    /\ \A e \in ToSet(eventq) : e.type = "closed" /\ e.l = l => e \in ToSet(eventq')
    /\ \A c : UpFirst(eventq, l, c) => UpFirst(eventq', l, c)

LinkStays(l) ==
    /\ linkState'[l] = linkState[l] /\ contact'[l] = contact[l] /\ phase'[l] = phase[l]
    /\ sending'[l] = sending[l] /\ current'[l] = current[l]
    /\ cmds'[l] = cmds[l] /\ breaking'[l] = breaking[l]

LEMMA LinkUntouched ==
    ASSUME LinksCoherent, NEW l \in Links, LinkStays(l), OrderKept(l), Closing(l)' <=> Closing(l)
    PROVE  ConnectionOf(l)' /\ ContactOf(l)'
<1>1. ConnectionOf(l) /\ ContactOf(l)
  BY DEF LinksCoherent
<1>2. ConnectionOf(l)'
  BY <1>1 DEF ConnectionOf, LinkStays
<1>3. ContactOf(l)'
  BY <1>1 DEF ContactOf, LinkStays, OrderKept
<1> QED
  BY <1>2, <1>3

LEMMA KeptOrder == QueueStays => \A l : OrderKept(l)
BY DEF QueueStays, OrderKept

\* Steps that leave the links and the stack alone.
LEMMA QuietLinks ==
    ASSUME TypeOK, TypeOK', LinksCoherent, ContactEvents',
           Timers \/ (Environment /\ ~Crash) \/ UNCHANGED vars \/ \E b \in Bundles : Free(b)
    PROVE  LinksCoherent'
<1>1. \A l \in Links : OrderKept(l)
  BY EventsKept, KeptOrder
<1>2. UNCHANGED <<linkState, contact, phase, sending, current, cmds, breaking, calls>>
  <2>1. CASE Timers
    BY <2>1 DEF Timers, ExpirationTimer, CustodyTimer, CancelledTimer, RerouteTimer,
                linkVars, connVars, daemonVars
  <2>2. CASE Environment /\ ~Crash
    BY <2>2 DEF Environment, Arrive, CancelRequest, CancelSend, CustodySignal, CloseRequest,
                OpenRequest, linkVars, connVars
  <2>3. CASE UNCHANGED vars \/ \E b \in Bundles : Free(b)
    BY <2>3 DEF Free, vars, linkVars, connVars, daemonVars
  <2> QED
    BY <2>1, <2>2, <2>3
<1>3. \A l \in Links : LinkStays(l) /\ (Closing(l)' <=> Closing(l))
  BY <1>2 DEF LinkStays, Closing
<1>4. \A l \in Links : ConnectionOf(l)' /\ ContactOf(l)'
  BY <1>1, <1>3, LinkUntouched
<1>5. CloseAlone'
  BY <1>2 DEF LinksCoherent, CloseAlone, Closing
<1> QED
  BY <1>4, <1>5 DEF LinksCoherent

\* Before and after, nobody waits for a connection thread: the link m changes,
\* the others do not.
LEMMA OneLink ==
    ASSUME LinksCoherent, ContactEvents', NEW m,
           \A l \in Links : ~Closing(l) /\ ~Closing(l)',
           \A l \in Links \ {m} : LinkStays(l) /\ OrderKept(l),
           m \in Links => ConnectionOf(m)' /\ ContactOf(m)'
    PROVE  LinksCoherent'
<1>1. ASSUME NEW l \in Links, l # m PROVE ConnectionOf(l)' /\ ContactOf(l)'
  BY <1>1, LinkUntouched
<1>2. CloseAlone'
  BY DEF CloseAlone
<1> QED
  BY <1>1, <1>2 DEF LinksCoherent

LEMMA HandlersKeepOrder ==
    ASSUME TypeOK, TypeOK', HandleEvent, NEW l,
           Ev.type \notin {"contactup", "closed"} \/ Ev.l # l
    PROVE  OrderKept(l)
BY HandlerKeeps, HandlerOrder DEF OrderKept

LEMMA HandleContactUpLinks ==
    ASSUME TypeOK, TypeOK', LinksCoherent, ContactEvents', HandleContactUp PROVE LinksCoherent'
<1>1. HandleEvent /\ ~HandleClosed
  BY DEF HandleEvent, HandleContactUp, HandleClosed, Handle
<1>2. PICK m, d : m = Ev.l /\ d = Ev.c
  OBVIOUS
<1>3. /\ Ev.type = "contactup" /\ m \in Links /\ d # 0 /\ Ev \in ToSet(eventq)
  BY <1>1, <1>2, HandledEvent, EventShape, HandlerKeeps
  DEF HandleContactUp, LinksCoherent, ContactEvents
<1>4. \A l \in Links : ~Closing(l) /\ ~Closing(l)'
  BY <1>1, NoneClosing DEF LinksCoherent
<1>5. /\ linkState' = IF d = Contact(m) THEN [linkState EXCEPT ![m] = "open"] ELSE linkState
      /\ UNCHANGED <<contact, phase, sending, current, cmds, breaking>>
  BY <1>2 DEF HandleContactUp, MarkOpen, connVars
<1>6. ASSUME NEW l \in Links \ {m} PROVE LinkStays(l) /\ OrderKept(l)
  BY <1>1, <1>2, <1>5, HandlersKeepOrder DEF LinkStays, TypeOK, LinkTypes
<1>7. ConnectionOf(m)'
  BY <1>3, <1>4, <1>5 DEF LinksCoherent, ConnectionOf, Contact, TypeOK, LinkTypes
<1>8. ContactOf(m)'
  <2>1. \A e \in ToSet(eventq) : e.type = "closed" => e \in ToSet(eventq')
    BY <1>1, <1>3, HandlerKeeps
  <2>2. ASSUME linkState'[m] \in {"available", "unavailable"}, phase'[m] # "none"
        PROVE  m \in Passive /\ UpFirst(eventq', m, contact'[m])
    <3>1. linkState'[m] = linkState[m] /\ d # contact[m]
      BY <1>3, <1>5, <2>2 DEF Contact, TypeOK, LinkTypes
    <3>2. m \in Passive /\ UpFirst(eventq, m, contact[m])
      BY <1>3, <1>4, <1>5, <2>2, <3>1 DEF LinksCoherent, ContactOf
    <3> QED
      BY <1>1, <1>2, <1>5, <3>1, <3>2, HandlerOrder
  <2> QED
    BY <1>3, <1>4, <1>5, <2>1, <2>2 DEF ContactOf, LinksCoherent
<1> QED
  BY <1>4, <1>6, <1>7, <1>8, OneLink

LEMMA HandleOpenLinks ==
    ASSUME TypeOK, TypeOK', LinksCoherent, ContactEvents', HandleOpen PROVE LinksCoherent'
<1>1. HandleEvent /\ ~HandleClosed
  BY DEF HandleEvent, HandleOpen, HandleClosed, Handle
<1>2. PICK m : m = Ev.l
  OBVIOUS
<1>3. Ev.type = "open" /\ m \in Links /\ Ev.c = 0
  BY <1>1, <1>2, HandledEvent, EventShape, HandlerKeeps
  DEF HandleOpen, LinksCoherent, ContactEvents
<1>4. \A l \in Links : ~Closing(l) /\ ~Closing(l)'
  BY <1>1, NoneClosing DEF LinksCoherent
<1>5. \A l \in Links : OrderKept(l)
  BY <1>1, <1>3, HandlersKeepOrder
<1>6. contact[m] # 0
  BY <1>3, ParamsAssumption DEF TypeOK, LinkTypes
<1>7. /\ UNCHANGED <<sending, current, cmds, breaking>>
      /\ UNCHANGED <<linkState, contact, phase>> \/ (OpenLink(m) /\ phase[m] = "none")
  BY <1>2, <1>3, <1>6 DEF HandleOpen, Contact
<1>8. CASE UNCHANGED <<linkState, contact, phase>>
  BY <1>3, <1>4, <1>5, <1>7, <1>8, LinkUntouched, OneLink DEF LinkStays
<1>9. CASE OpenLink(m) /\ phase[m] = "none"
  <2>1. ASSUME NEW l \in Links \ {m} PROVE LinkStays(l)
    BY <1>7, <1>9 DEF LinkStays, OpenLink, TypeOK, LinkTypes, ConnTypes
  <2>2. linkState'[m] = "opening" /\ phase'[m] = "connecting"
    BY <1>3, <1>9 DEF OpenLink, TypeOK, LinkTypes, ConnTypes
  <2>3. ConnectionOf(m)' /\ ContactOf(m)'
    BY <1>3, <1>4, <1>7, <1>9, <2>2 DEF LinksCoherent, ConnectionOf, ContactOf
  <2> QED
    BY <1>4, <1>5, <2>1, <2>3, OneLink
<1> QED
  BY <1>7, <1>8, <1>9

LEMMA HandleClosedLinks ==
    ASSUME TypeOK, TypeOK', LinksCoherent, ContactEvents', HandleClosed PROVE LinksCoherent'
<1>1. HandleEvent /\ calls = <<>>
  BY HandledEvent DEF HandleEvent, HandleClosed
<1>2. PICK m, d, w : m = Ev.l /\ d = Ev.c /\ w = Ev.why
  OBVIOUS
<1>3. /\ Ev.type = "closed" /\ m \in Links /\ d # 0 /\ Ev \in ToSet(eventq)
  BY <1>1, <1>2, HandledEvent, EventShape, HandlerKeeps
  DEF HandleClosed, LinksCoherent, ContactEvents
<1>4. \A l \in Links : ~Closing(l)
  BY <1>1, ElementsOfEmpty DEF Closing
<1>5. UNCHANGED <<contact, phase, sending, current, cmds>>
  BY DEF HandleClosed
<1>6. CASE d = Contact(m) /\ linkState[m] \in {"open", "opening"}
  <2>1. /\ linkState' = [linkState EXCEPT ![m] =
                           IF w = "idle" THEN "available" ELSE "unavailable"]
        /\ breaking' = [breaking EXCEPT ![m] = phase[m] # "broken"]
        /\ calls' = <<DoCall("close", NoBundle, m)>>
    BY <1>2, <1>6 DEF HandleClosed
  <2>2. /\ linkState'[m] \in {"available", "unavailable"}
        /\ breaking'[m] = (phase[m] # "broken")
        /\ \A l \in Links \ {m} : LinkStays(l)
    BY <1>3, <1>5, <2>1 DEF LinkStays, TypeOK, LinkTypes, ConnTypes
  <2>3. \A l \in Links : Closing(l)' <=> l = m
    BY <2>1, ElementsOfOne DEF Closing, DoCall
  <2>4. ASSUME NEW l \in Links \ {m} PROVE ConnectionOf(l)' /\ ContactOf(l)'
    <3>1. OrderKept(l)
      BY <1>1, <1>2, HandlersKeepOrder
    <3> QED
      BY <1>4, <2>2, <2>3, <2>4, <3>1, LinkUntouched
  <2>5. phase[m] # "none"
    BY <1>3, <1>6 DEF Contact
  <2>6. ConnectionOf(m)' /\ ContactOf(m)'
    <3>1. ConnectionOf(m)'
      BY <1>3, <1>5, <2>2, <2>3, <2>5 DEF LinksCoherent, ConnectionOf
    <3>2. ContactOf(m)'
      BY <1>3, <2>3 DEF ContactOf
    <3> QED
      BY <3>1, <3>2
  <2>7. CloseAlone'
    BY <2>1, <2>3 DEF CloseAlone
  <2> QED
    BY <2>4, <2>6, <2>7 DEF LinksCoherent
<1>7. CASE ~(d = Contact(m) /\ linkState[m] \in {"open", "opening"})
  <2>1. UNCHANGED <<linkState, breaking, calls>>
    BY <1>2, <1>7 DEF HandleClosed
  <2>2. \A l \in Links : LinkStays(l) /\ ~Closing(l)'
    BY <1>4, <1>5, <2>1 DEF LinkStays, Closing
  <2>3. \A l \in Links \ {m} : OrderKept(l)
    BY <1>1, <1>2, HandlersKeepOrder
  <2>4. ConnectionOf(m)'
    BY <1>3, <1>4, <2>2 DEF LinksCoherent, ConnectionOf, LinkStays
  <2>5. \A c : UpFirst(eventq, m, c) => c # d /\ UpFirst(eventq', m, c)
    BY <1>1, <1>2, <1>3, HandlerOrder
  <2>6. ContactOf(m)'
    <3>1. ContactOf(m) /\ LinkStays(m) /\ ~Closing(m)
      BY <1>3, <1>4, <2>2 DEF LinksCoherent
    <3>2. ASSUME phase[m] = "broken"
          PROVE  \E e \in ToSet(eventq') : e.type = "closed" /\ e.l = m /\ e.c = contact[m]
      <4>1. PICK e \in ToSet(eventq) : e.type = "closed" /\ e.l = m /\ e.c = contact[m]
        BY <3>1, <3>2 DEF ContactOf
      <4>2. ASSUME e = Ev PROVE FALSE
        <5>1. d = contact[m] /\ linkState[m] \in {"available", "unavailable"}
          BY <1>2, <1>3, <1>7, <3>2, <4>1, <4>2 DEF Contact, TypeOK, LinkTypes
        <5>2. UpFirst(eventq, m, contact[m])
          BY <3>1, <3>2, <5>1 DEF ContactOf
        <5> QED
          BY <2>5, <5>1, <5>2
      <4>3. e \in ToSet(eventq')
        BY <1>1, <4>1, <4>2, HandlerKeeps
      <4> QED
        BY <4>1, <4>3
    <3>3. ASSUME linkState[m] \in {"available", "unavailable"}, phase[m] # "none"
          PROVE  m \in Passive /\ UpFirst(eventq', m, contact[m])
      BY <2>5, <3>1, <3>3 DEF ContactOf
    <3> QED
      BY <3>1, <3>2, <3>3 DEF ContactOf, LinkStays
  <2> QED
    BY <1>4, <2>2, <2>3, <2>4, <2>6, OneLink
<1> QED
  BY <1>6, <1>7

LEMMA HandlersLinks ==
    ASSUME TypeOK, TypeOK', LinksCoherent, ContactEvents', HandleEvent PROVE LinksCoherent'
<1>1. CASE HandleContactUp \/ HandleOpen \/ HandleClosed
  BY <1>1, HandleContactUpLinks, HandleOpenLinks, HandleClosedLinks
<1>2. CASE ~HandleContactUp /\ ~HandleOpen /\ ~HandleClosed
  <2>1. /\ UNCHANGED <<linkState, contact, phase, sending, current, cmds, breaking>>
        /\ Ev.type \notin {"contactup", "closed"}
    BY <1>2 DEF HandleEvent, DiscardDuplicate, ReceiveExpired, ReceiveBundle, HandleTransmitted,
       HandleSendCancelled, HandleExpired, HandleDeleteRequest, HandleDeletion, HandleCancelSend,
       HandleCustodySignal, HandleCustodyTimeout, HandleContactDown, Handle, Ev,
       linkVars, connVars
  <2>2. \A l \in Links : LinkStays(l) /\ OrderKept(l)
    BY <2>1, HandlersKeepOrder DEF LinkStays
  <2>3. \A l \in Links : ~Closing(l) /\ ~Closing(l)'
    BY <1>2, NoneClosing DEF LinksCoherent
  <2>4. \A l \in Links : ConnectionOf(l)' /\ ContactOf(l)'
    BY <2>2, <2>3, LinkUntouched
  <2>5. CloseAlone'
    BY <2>3 DEF CloseAlone
  <2> QED
    BY <2>4, <2>5 DEF LinksCoherent
<1> QED
  BY <1>1, <1>2

LEMMA ForwardBundleLinks ==
    ASSUME TypeOK, TypeOK', LinksCoherent, ContactEvents', ForwardBundle PROVE LinksCoherent'
<1>1. PICK m : m = Now.l
  OBVIOUS
<1>2. Continue /\ ~Requeue /\ ~CloseContact
  BY DEF Continue, ForwardBundle, Requeue, CloseContact, Step
<1>3. \A l \in Links : OrderKept(l) /\ ~Closing(l) /\ ~Closing(l)'
  BY <1>2, EventsKept, KeptOrder, NoneClosing DEF LinksCoherent
<1>4. UNCHANGED <<sending, current, cmds, breaking>>
  BY DEF ForwardBundle
<1>5. CASE UNCHANGED <<linkState, contact, phase>>
  BY <1>3, <1>4, <1>5, LinkUntouched, OneLink DEF LinkStays
<1>6. CASE ~UNCHANGED <<linkState, contact, phase>>
  <2>1. OpenLink(m) /\ Contact(m) = 0
    BY <1>1, <1>6 DEF ForwardBundle
  <2>2. ASSUME NEW l \in Links \ {m} PROVE LinkStays(l)
    BY <1>4, <2>1 DEF LinkStays, OpenLink, TypeOK, LinkTypes, ConnTypes
  <2>3. ASSUME m \in Links PROVE ConnectionOf(m)' /\ ContactOf(m)'
    <3>1. linkState'[m] = "opening" /\ phase'[m] = "connecting" /\ phase[m] = "none"
      BY <2>1, <2>3, ParamsAssumption DEF OpenLink, Contact, TypeOK, LinkTypes, ConnTypes
    <3> QED
      BY <1>3, <1>4, <2>3, <3>1 DEF LinksCoherent, ConnectionOf, ContactOf
  <2> QED
    BY <1>3, <2>2, <2>3, OneLink
<1> QED
  BY <1>5, <1>6

LEMMA CancelBundleLinks ==
    ASSUME TypeOK, TypeOK', LinksCoherent, ContactEvents', CancelBundle PROVE LinksCoherent'
<1>1. PICK m : m = Now.l
  OBVIOUS
<1>2. Continue /\ ~Requeue /\ ~CloseContact
  BY DEF Continue, CancelBundle, Requeue, CloseContact, Step
<1>3. \A l \in Links : OrderKept(l) /\ ~Closing(l) /\ ~Closing(l)'
  BY <1>2, EventsKept, KeptOrder, NoneClosing DEF LinksCoherent
<1>4. /\ UNCHANGED <<linkState, contact, phase, sending, current, breaking>>
      /\ \/ UNCHANGED cmds
         \/ cmds' = [cmds EXCEPT ![m] = Append(@, Now.b)] /\ linkState[m] = "open"
  BY <1>1 DEF CancelBundle
<1>5. ASSUME NEW l \in Links \ {m} PROVE LinkStays(l)
  BY <1>4 DEF LinkStays, TypeOK, ConnTypes
<1>6. ASSUME m \in Links PROVE ConnectionOf(m)' /\ ContactOf(m)'
  <2>1. cmds'[m] = cmds[m] \/ linkState[m] = "open"
    BY <1>4
  <2>2. ConnectionOf(m)'
    BY <1>3, <1>4, <1>6, <2>1 DEF LinksCoherent, ConnectionOf
  <2>3. ContactOf(m)'
    BY <1>3, <1>4, <1>6 DEF LinksCoherent, ContactOf, OrderKept
  <2> QED
    BY <2>2, <2>3
<1> QED
  BY <1>3, <1>5, <1>6, OneLink

\* The two steps that wait for the connection thread of the link m.
LEMMA CloseLinks ==
    ASSUME TypeOK, TypeOK', LinksCoherent, ContactEvents', Requeue \/ CloseContact
    PROVE  LinksCoherent'
<1>1. PICK m : m = Now.l
  OBVIOUS
<1>2. m \in Links /\ Closing(m) /\ calls = <<DoCall("close", NoBundle, m)>>
  <2>1. calls \in Seq(Call) /\ calls # <<>> /\ Now = Head(calls) /\ Now.op = "close"
    BY DEF Requeue, CloseContact, Step, Idle, Now, TypeOK, DaemonTypes
  <2>2. Now \in Call /\ Now \in ToSet(calls)
    BY <2>1, ElementsOfTail
  <2>3. m \in Links /\ Now = DoCall("close", NoBundle, m)
    BY <1>1, <2>1, <2>2 DEF Call, DoCall
  <2>4. m \in Links /\ Closing(m)
    BY <2>2, <2>3 DEF Closing
  <2> QED
    BY <2>4 DEF LinksCoherent, CloseAlone
<1>3. \A l \in Links : OrderKept(l) /\ (Closing(l) <=> l = m)
  <2>1. Continue
    BY DEF Continue
  <2>2. \A l \in Links : OrderKept(l)
    BY <2>1, EventsKept, KeptOrder
  <2>3. \A l \in Links : Closing(l) <=> l = m
    BY <1>2, ElementsOfOne DEF Closing, DoCall
  <2> QED
    BY <2>2, <2>3
<1>4. ASSUME NEW l \in Links \ {m}, ~Closing(l)' PROVE ConnectionOf(l)' /\ ContactOf(l)'
  <2>1. LinkStays(l)
    BY <1>1, <1>4 DEF LinkStays, Requeue, CloseContact, linkVars, TypeOK, LinkTypes, ConnTypes
  <2> QED
    BY <1>3, <1>4, <2>1, LinkUntouched
<1>5. CASE Requeue
  <2>1. /\ UNCHANGED <<linkState, contact, phase, current, cmds, breaking, calls>>
        /\ phase[m] = "broken"
    BY <1>1, <1>5 DEF Requeue, daemonVars
  <2>2. \A l \in Links : Closing(l)' <=> l = m
    BY <1>3, <2>1 DEF Closing
  <2>3. ConnectionOf(m)' /\ ContactOf(m)'
    BY <1>2, <2>1, <2>2 DEF LinksCoherent, ConnectionOf, ContactOf
  <2>4. CloseAlone'
    BY <1>2, <2>1, <2>2 DEF CloseAlone
  <2> QED
    BY <1>4, <2>2, <2>3, <2>4 DEF LinksCoherent
<1>6. CASE CloseContact
  <2>1. /\ UNCHANGED <<linkState, contact, sending>> /\ sending[m] = <<>>
        /\ phase'[m] = "none" /\ current'[m] = NoBundle /\ cmds'[m] = <<>> /\ ~breaking'[m]
        /\ calls' = Tail(calls)
    BY <1>1, <1>2, <1>6 DEF CloseContact, Return, linkVars, TypeOK, ConnTypes
  <2>2. calls' = <<>>
    <3> DEFINE c == DoCall("close", NoBundle, m)
    <3>1. calls = <<c>> /\ calls' = Tail(calls)
      BY <1>2, <2>1
    <3> HIDE DEF c
    <3> QED
      BY <3>1
  <2>3. \A l \in Links : ~Closing(l)'
    BY <2>2, ElementsOfEmpty DEF Closing
  <2>4. linkState[m] \in {"available", "unavailable"}
    BY <1>2 DEF LinksCoherent, ConnectionOf
  <2>5. ConnectionOf(m)' /\ ContactOf(m)'
    BY <1>2, <2>1, <2>3, <2>4 DEF ConnectionOf, ContactOf
  <2>6. CloseAlone'
    BY <2>3 DEF CloseAlone
  <2> QED
    BY <1>4, <2>3, <2>5, <2>6 DEF LinksCoherent
<1> QED
  BY <1>5, <1>6

LEMMA ContinueLinks ==
    ASSUME TypeOK, TypeOK', LinksCoherent, ContactEvents', Continue PROVE LinksCoherent'
<1>1. CASE Requeue \/ CloseContact \/ ForwardBundle \/ CancelBundle
  BY <1>1, CloseLinks, ForwardBundleLinks, CancelBundleLinks
<1>2. CASE ~(Requeue \/ CloseContact \/ ForwardBundle \/ CancelBundle)
  <2>1. UNCHANGED <<linkState, contact, phase, sending, current, cmds, breaking>>
    BY <1>2 DEF Continue, RouteBundle, CheckNextHop, DrainDeferred, TryToDelete,
                LoadBundle, LoadExpired, LoadDone, linkVars, connVars
  <2>2. \A l \in Links : LinkStays(l) /\ OrderKept(l)
    BY <2>1, EventsKept, KeptOrder DEF LinkStays
  <2>3. \A l \in Links : ~Closing(l) /\ ~Closing(l)'
    BY <1>2, NoneClosing DEF LinksCoherent
  <2>4. \A l \in Links : ConnectionOf(l)' /\ ContactOf(l)'
    BY <2>2, <2>3, LinkUntouched
  <2>5. CloseAlone'
    BY <2>3 DEF CloseAlone
  <2> QED
    BY <2>4, <2>5 DEF LinksCoherent
<1> QED
  BY <1>1, <1>2

\* The connection thread moves: its own fields, never the link's state.
LEMMA ConnectionsLinks ==
    ASSUME TypeOK, TypeOK', LinksCoherent, ContactEvents', NEW l \in Links, Connection(l)
    PROVE  LinksCoherent'
<1>1. UNCHANGED <<linkState, calls>> /\ \A m \in Links : OrderKept(m)
  BY EventsKept, KeptOrder
  DEF Connection, ConnectionUp, AcceptConnection, StartNextBundle, SendSegment, AckBundle,
      CancelCommand, BreakContact, BreakCommand, linkVars, daemonVars
<1>2. \A m \in Links : Closing(m)' <=> Closing(m)
  BY <1>1 DEF Closing
<1>3. ASSUME NEW m \in Links \ {l} PROVE LinkStays(m)
  <2>1. linkState'[m] = linkState[m] /\ contact'[m] = contact[m]
    BY <1>1, <1>3
    DEF Connection, ConnectionUp, AcceptConnection, StartNextBundle, SendSegment, AckBundle,
        CancelCommand, BreakContact, BreakCommand, linkVars, TypeOK, LinkTypes
  <2>2. phase'[m] = phase[m]
    BY <1>3
    DEF Connection, ConnectionUp, AcceptConnection, StartNextBundle, SendSegment, AckBundle,
        CancelCommand, BreakContact, BreakCommand, linkVars, TypeOK, LinkTypes, ConnTypes
  <2>3. sending'[m] = sending[m] /\ current'[m] = current[m]
    BY <1>3
    DEF Connection, ConnectionUp, AcceptConnection, StartNextBundle, SendSegment, AckBundle,
        CancelCommand, BreakContact, BreakCommand, TypeOK, ConnTypes
  <2>4. cmds'[m] = cmds[m] /\ breaking'[m] = breaking[m]
    BY <1>3
    DEF Connection, ConnectionUp, AcceptConnection, StartNextBundle, SendSegment, AckBundle,
        CancelCommand, BreakContact, BreakCommand, TypeOK, ConnTypes
  <2> QED
    BY <2>1, <2>2, <2>3, <2>4 DEF LinkStays
<1>4. CloseAlone'
  BY <1>1, <1>2 DEF LinksCoherent, CloseAlone
<1>5. ASSUME ConnectionOf(l)', ContactOf(l)' PROVE LinksCoherent'
  BY <1>1, <1>2, <1>3, <1>4, <1>5, LinkUntouched DEF LinksCoherent
<1>6. /\ ConnectionOf(l) /\ ContactOf(l)
      /\ sending[l] \in Seq(Bundles) /\ eventq \in Seq(Event)
  BY DEF LinksCoherent, TypeOK, ConnTypes, DaemonTypes
<1>7. CASE ConnectionUp(l)
  <2>1. /\ UNCHANGED <<contact, sending, current, cmds, breaking>>
        /\ phase[l] = "connecting" /\ phase'[l] = "up"
    BY <1>7 DEF ConnectionUp, linkVars, TypeOK, ConnTypes
  <2>2. ConnectionOf(l)'
    BY <1>1, <1>2, <1>6, <2>1 DEF ConnectionOf
  <2>3. ContactOf(l)'
    BY <1>1, <1>2, <1>6, <2>1 DEF ContactOf, OrderKept
  <2> QED
    BY <1>5, <2>2, <2>3
<1>8. CASE AcceptConnection(l)
  <2>1. PICK c : c = NextContact(l)
    OBVIOUS
  <2>2. /\ UNCHANGED <<sending, current, cmds, breaking>>
        /\ l \in Passive /\ linkState[l] \in {"available", "unavailable"}
        /\ phase[l] = "none" /\ phase'[l] = "up" /\ contact'[l] = c
        /\ c \in 1..MaxContacts /\ \A e \in ToSet(eventq) : e.l = l => e.c # c
    BY <1>8, <2>1, NextContactIsNew DEF AcceptConnection, TypeOK, ConnTypes, LinkTypes
  <2>3. PICK e : e = ContactEvent("contactup", l, c, "")
    OBVIOUS
  <2>4. c \in 0..MaxContacts
    BY <2>2, ParamsAssumption
  <2>5. e \in Event
    BY <2>3, <2>4, EventTypes
  <2>6. e.type = "contactup" /\ e.l = l /\ e.c = c
    BY <2>3 DEF ContactEvent
  <2>7. eventq' = Append(eventq, e)
    BY <1>8, <2>1, <2>3 DEF AcceptConnection, Post
  <2>8. UpFirst(eventq', l, c)
    BY <1>6, <2>2, <2>5, <2>6, <2>7, UpFirstNew
  <2>9. ConnectionOf(l)'
    BY <1>1, <1>2, <1>6, <2>2 DEF ConnectionOf
  <2>10. ContactOf(l)'
    BY <2>2, <2>8 DEF ContactOf
  <2> QED
    BY <1>5, <2>9, <2>10
<1>9. CASE StartNextBundle(l)
  <2>1. PICK b : b = Head(queue[l])
    OBVIOUS
  <2>2. /\ UNCHANGED <<contact, phase, cmds, breaking>> /\ phase[l] = "up"
        /\ current'[l] = b /\ sending'[l] = Append(sending[l], b) /\ b \in Bundles
    BY <1>9, <2>1, ListTypes, ElementsOfTail DEF StartNextBundle, TypeOK, ConnTypes
  <2>3. sending'[l] # <<>> /\ Last(sending'[l]) = b
    BY <1>6, <2>2 DEF Last
  <2>4. ConnectionOf(l)'
    BY <1>1, <1>2, <1>6, <2>2, <2>3 DEF ConnectionOf
  <2>5. ContactOf(l)'
    BY <1>1, <1>2, <1>6, <2>2 DEF ContactOf, OrderKept
  <2> QED
    BY <1>5, <2>4, <2>5
<1>10. CASE SendSegment(l) \/ AckBundle(l) \/ CancelCommand(l)
  <2>1. UNCHANGED <<contact, phase, breaking>> /\ phase[l] = "up"
    BY <1>10 DEF SendSegment, AckBundle, CancelCommand, linkVars
  <2>2. current'[l] # NoBundle => sending'[l] # <<>> /\ Last(sending'[l]) = current'[l]
    <3>1. CASE SendSegment(l)
      BY <3>1 DEF SendSegment, TypeOK, ConnTypes
    <3>2. CASE AckBundle(l)
      <4>1. /\ UNCHANGED current /\ sending[l] # <<>> /\ Head(sending[l]) # current[l]
            /\ sending'[l] = Tail(sending[l])
        BY <3>2 DEF AckBundle, TypeOK, ConnTypes
      <4>2. ASSUME current[l] # NoBundle
            PROVE  Tail(sending[l]) # <<>> /\ Last(Tail(sending[l])) = current[l]
        <5>1. Last(sending[l]) = current[l]
          BY <1>6, <2>1, <4>2 DEF ConnectionOf
        <5> QED
          BY <1>6, <4>1, <5>1, LastOfTail
      <4> QED
        BY <4>1, <4>2
    <3>3. CASE CancelCommand(l)
      <4>1. current'[l] = NoBundle \/ UNCHANGED <<current, sending>>
        BY <3>3 DEF CancelCommand, TypeOK, ConnTypes
      <4> QED
        BY <1>6, <2>1, <4>1 DEF ConnectionOf
    <3> QED
      BY <1>10, <3>1, <3>2, <3>3
  <2>3. ConnectionOf(l)'
    BY <1>1, <1>2, <1>6, <2>1, <2>2 DEF ConnectionOf
  <2>4. ContactOf(l)'
    BY <1>1, <1>2, <1>6, <2>1 DEF ContactOf, OrderKept
  <2> QED
    BY <1>5, <2>3, <2>4
<1>11. ASSUME NEW w, BreakContact(l, w), w \in {"broken", "idle"} PROVE LinksCoherent'
  <2>1. PICK e : e = ContactEvent("closed", l, contact[l], w)
    OBVIOUS
  <2>2. /\ UNCHANGED <<contact, sending, current, cmds, breaking>>
        /\ phase[l] \in {"connecting", "up"} /\ phase'[l] = "broken"
        /\ eventq' = Append(eventq, e)
    BY <1>11, <2>1 DEF BreakContact, Post, linkVars, TypeOK, ConnTypes
  <2>3. contact[l] \in 0..MaxContacts
    BY ParamsAssumption DEF TypeOK, LinkTypes
  <2>4. e \in Event
    BY <1>11, <2>1, <2>3, EventTypes
  <2>5. e.type = "closed" /\ e.l = l /\ e.c = contact[l]
    BY <2>1 DEF ContactEvent
  <2>6. e \in ToSet(eventq')
    BY <1>6, <2>2, <2>4, ElementsOfAppend
  <2>7. ConnectionOf(l)'
    BY <1>1, <1>2, <1>6, <2>2 DEF ConnectionOf
  <2>8. ContactOf(l)'
    BY <1>1, <1>2, <1>6, <2>2, <2>5, <2>6 DEF ContactOf, OrderKept
  <2> QED
    BY <1>5, <2>7, <2>8
<1>12. CASE BreakCommand(l)
  <2>1. /\ UNCHANGED <<contact, sending, current, cmds, breaking>>
        /\ phase[l] \in {"connecting", "up"} /\ phase'[l] = "broken" /\ breaking[l]
    BY <1>12 DEF BreakCommand, linkVars, TypeOK, ConnTypes
  <2>2. ConnectionOf(l)'
    BY <1>1, <1>2, <1>6, <2>1 DEF ConnectionOf
  <2>3. ContactOf(l)'
    BY <1>2, <1>6, <2>1 DEF ConnectionOf, ContactOf
  <2> QED
    BY <1>5, <2>2, <2>3
<1> QED
  BY <1>7, <1>8, <1>9, <1>10, <1>11, <1>12 DEF Connection

LEMMA CrashLinks == ASSUME Crash, ContactEvents' PROVE LinksCoherent'
<1>1. \A l \in Links : ~Closing(l)'
  <2>1. calls' = <<DoCall("load", NoBundle, NoLink)>>
    BY DEF Crash
  <2> QED
    BY <2>1, ElementsOfOne DEF Closing, DoCall
<1>2. ASSUME NEW l \in Links PROVE ConnectionOf(l)' /\ ContactOf(l)'
  <2>1. /\ linkState'[l] \in {"available", "unavailable"}
        /\ phase'[l] = "none" /\ sending'[l] = <<>> /\ current'[l] = NoBundle
        /\ cmds'[l] = <<>> /\ ~breaking'[l]
    BY <1>2 DEF Crash, InitialState
  <2> QED
    BY <1>1, <2>1 DEF ConnectionOf, ContactOf
<1> QED
  BY <1>1, <1>2 DEF LinksCoherent, CloseAlone

LEMMA NextLinks ==
    ASSUME TypeOK, TypeOK', LinksCoherent, [Next]_vars PROVE LinksCoherent'
<1>1. ContactEvents'
  BY NextContactEvents DEF LinksCoherent
<1>2. CASE Crash
  BY <1>1, <1>2, CrashLinks
<1> QED
  BY <1>1, <1>2, HandlersLinks, ContinueLinks, ConnectionsLinks, QuietLinks DEF Next

\* The connection thread and the daemon agree on what the connection carries,
\* whatever interleaving of start_next_bundle, the acks, cancel_bundle and
\* close_contact: what it sends is in flight, a link without a connection sends
\* nothing, and the bundle it is starting is the last one on its list.
THEOREM ConnectionIsCoherent == Spec => []ConnectionCoherent
<1> DEFINE Inv == TypeOK /\ ListsCoherent /\ LinksCoherent
<1>1. Init => Inv
  BY InitType, InitLists, InitLinks
<1>2. Inv /\ [Next]_vars => Inv'
  BY NextType, NextLists, NextLinks
<1>3. Inv => ConnectionCoherent
  BY DEF ListsCoherent, ListsOf, LinksCoherent, ConnectionOf, ConnectionCoherent
<1> QED
  BY <1>1, <1>2, <1>3, PTL DEF Spec

\* A link that is open or opening has a contact, and between events no
\* connection outlives its link: a stale contact event, a connection that
\* breaks while the link is being opened or closed, and a peer that connects
\* meanwhile do not separate the two.
THEOREM LinkKeepsContact == Spec => []LinkHasContact
<1> DEFINE Inv == TypeOK /\ LinksCoherent
<1>1. Init => Inv
  BY InitType, InitLinks
<1>2. Inv /\ [Next]_vars => Inv'
  BY NextType, NextLinks
<1>3. Inv => LinkHasContact
  <2> SUFFICES ASSUME Inv, Idle, NEW l \in Links
               PROVE  /\ linkState[l] \in {"open", "opening"} => phase[l] # "none"
                      /\ linkState[l] \in {"available", "unavailable"} /\ phase[l] # "none"
                            => l \in Passive
                      /\ phase[l] = "broken" => \E e \in Queued("closed") : e.l = l
    BY DEF LinkHasContact
  <2>1. ~Closing(l)
    BY ElementsOfEmpty DEF Idle, Closing
  <2> QED
    BY <2>1 DEF LinksCoherent, ConnectionOf, ContactOf, Queued
<1> QED
  BY <1>1, <1>2, <1>3, PTL DEF Spec
=============================================================================
