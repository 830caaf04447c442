---------------------------- MODULE Fragmentation ----------------------------
(***************************************************************************)
(* Reactive fragmentation and reassembly of one bundle between its source  *)
(* and its destination.  Both nodes run the same daemon: an event queue,   *)
(* the pending bundles, the data store and the expiration timers.  Each    *)
(* transmission over the link between them may break; what the two         *)
(* close_contacts then report is described by module StreamTransfer.       *)
(*                                                                         *)
(* A copy of the bundle is a range of its payload.  Fragments of other     *)
(* bundles have another hash key and another FragmentState.                *)
(***************************************************************************)
EXTENDS Naturals, FiniteSets, Sequences, SequencesExt, Selection

CONSTANTS
    Total,           \* payload length of the original bundle
    HeaderLen,       \* units before the payload of a formatted copy
    TrailerLen,      \* units of the blocks that follow the payload
    SegmentLen,      \* params_->segment_length_
    MaxAttempts,     \* bound: transmissions
    MaxFaults        \* bound: crashes of the two daemons, and the end of the
                     \* lifetime of the bundle, together

ASSUME SizesAssumption == /\ Total \in Nat \ {0}
                          /\ HeaderLen \in Nat \ {0}
                          /\ TrailerLen \in Nat
                          /\ SegmentLen \in Nat \ {0}
ASSUME BoundsAssumption == /\ MaxAttempts \in Nat
                           /\ MaxFaults \in Nat

VARIABLES
    pending,      \* pending_bundles_ of each node
    store,        \* the data store of each node
    armed,        \* copies whose expiration timer is scheduled
    eventq,       \* the event queue of each node
    loading,      \* events that load_bundles has still to handle
    fragments,    \* fragment_list() of the FragmentState, by offset
    written,      \* units of its payload file that were written
    handed,       \* copies on the bundle list of the registration
    cache,        \* the registration's delivery cache has the bundle
    got,          \* times the application received the bundle
    late,         \* the lifetime has passed
    attempts, crashes,
    lost          \* ghost: units a node gave up without anyone keeping them

node == <<pending, store, armed, eventq, loading>>
reassembly == <<fragments, written>>
delivery == <<handed, cache, got>>
bounds == <<late, attempts, crashes>>
vars == <<node, reassembly, delivery, bounds, lost>>

Nodes == {"src", "dst"}

Least(m, n) == IF m <= n THEN m ELSE n
Units(c) == c.off .. (c.off + c.len - 1)
Covered(copies) == UNION {Units(c) : c \in copies}
AllUnits == 0 .. (Total - 1)
Whole(id) == [id |-> id, off |-> 0, len |-> Total, whole |-> TRUE]
Fragment(id, off, len) == [id |-> id, off |-> off, len |-> len, whole |-> FALSE]
Formatted(c) == HeaderLen + c.len + TrailerLen

Received(c, bytes, source) ==
    [type |-> "received", copy |-> c, bytes |-> bytes, source |-> source]
Transmitted(c, acked) == [type |-> "transmitted", copy |-> c, acked |-> acked]
Completed(c, list, data) ==
    [type |-> "completed", copy |-> c, list |-> list, data |-> data]
About(type, c) == [type |-> type, copy |-> c]

Init ==
    /\ pending = [n \in Nodes |-> {}]
    /\ store = [n \in Nodes |-> {}]
    /\ armed = [n \in Nodes |-> {}]
    /\ eventq = [n \in Nodes |-> IF n = "src"
                    THEN <<Received(Whole(1), Formatted(Whole(1)), "app")>> ELSE <<>>]
    /\ loading = [n \in Nodes |-> <<>>]
    /\ fragments = <<>> /\ written = {}
    /\ handed = {} /\ cache = FALSE /\ got = 0
    /\ late = FALSE /\ attempts = 0 /\ crashes = 0
    /\ lost = {}

-----------------------------------------------------------------------------
(* Fragments *)

\* FragmentState::check_completed walks the fragments by offset: done_up_to
\* grows by what a fragment adds.
Walk(list) ==
    LET done[i \in 0 .. Len(list)] ==
            IF i = 0 THEN 0
            ELSE LET c == list[i] IN
                 IF done[i - 1] < c.off \/ done[i - 1] > c.off + c.len THEN done[i - 1]
                 ELSE c.off + c.len
    IN  done
\* mutant: a hole does not end the walk
DoneOverHoles(list) ==
    LET done[i \in 0 .. Len(list)] ==
            IF i = 0 THEN 0
            ELSE LET c == list[i] IN
                 IF done[i - 1] > c.off + c.len THEN done[i - 1] ELSE c.off + c.len
    IN  done[Len(list)]
\* A hole ends the walk.
DoneUpTo(list) ==
    LET done == Walk(list)
    IN  IF \E i \in DOMAIN list : done[i - 1] < list[i].off THEN 0 ELSE done[Len(list)]
CheckCompleted(list) == DoneUpTo(list) = Total

\* insert_sorted: before the first fragment with a greater offset.
InsertSorted(list, c) ==
    LET Greater(d) == d.off > c.off
        i == SelectInSeq(list, Greater)
    IN  InsertAt(list, IF i = 0 THEN Len(list) + 1 ELSE i, c)

\* try_to_convert_to_fragment, and the validation that follows it: what is
\* left of a copy of which that many units arrived (the empty set: nothing).
Arrived(c, bytes) ==
    IF bytes = Formatted(c) THEN {c}
    ELSE IF c.len <= 1 THEN {}
    ELSE {Fragment(c.id, c.off, Least(bytes - HeaderLen, c.len - 1))}

\* try_to_reactively_fragment: the tail of what was acknowledged in part.
Tails(c, acked, id) ==
    IF acked <= HeaderLen \/ acked >= Formatted(c) \/ c.len <= 1 THEN {}
    ELSE LET sent == Least(acked - HeaderLen, c.len - 1)
         IN  {Fragment(id, c.off + sent, c.len - sent)}

-----------------------------------------------------------------------------
(* The daemon *)

CopiesOf(e) == {e.copy} \cup (IF e.type = "completed" THEN Range(e.list) ELSE {})
Queued(q) == UNION {CopiesOf(e) : e \in Range(q)}

\* The next event of node n, and the queue without it.
Event(n) == IF loading[n] = <<>> THEN Head(eventq[n]) ELSE Head(loading[n])
Rest(n) == IF loading[n] = <<>> THEN Tail(eventq[n]) ELSE eventq[n]
Current(n, type) ==
    /\ loading[n] # <<>> \/ eventq[n] # <<>>
    /\ Event(n).type = type
    /\ loading' = [loading EXCEPT ![n] = IF @ = <<>> THEN @ ELSE Tail(@)]

\* An id that no bundle of node n has.
FreshId(n) ==
    LET used == {c.id : c \in pending[n] \cup store[n] \cup Queued(eventq[n])
                                \cup Queued(loading[n]) \cup handed}
    IN  CHOOSE i \in 1..(Cardinality(used) + 1) : i \notin used

\* The lists of the copies of a set, the smallest id first.
ById(copies) == {q \in [1 .. Cardinality(copies) -> copies] :
                    /\ Range(q) = copies
                    /\ \A i, j \in DOMAIN q : i < j => q[i].id < q[j].id}

\* Bundle::del_ref: when the last reference to a stored copy has gone, its
\* BundleFreeEvent is posted.
Freed(n, q) ==
    LET ofDst == IF n = "dst" THEN Range(fragments') \cup handed' ELSE {}
    IN  store'[n] \ (pending'[n] \cup Queued(q) \cup Queued(loading'[n]) \cup ofDst)
WithFrees(n, q) ==
    {q \o [i \in DOMAIN freed |-> About("free", freed[i])] : freed \in ById(Freed(n, q))}
Post(n, q) == \E p \in WithFrees(n, q) : eventq' = [eventq EXCEPT ![n] = p]

\* mutant: deleted fragments stay on the list of the FragmentState
DeleteOnly(n, copies) ==
    /\ pending' = [pending EXCEPT ![n] = @ \ copies]
    /\ armed' = [armed EXCEPT ![n] = @ \ copies]
    /\ UNCHANGED reassembly
\* delete_fragment and delete_from_pending, for delete_bundle.
Delete(n, copies) ==
    /\ pending' = [pending EXCEPT ![n] = @ \ copies]
    /\ armed' = [armed EXCEPT ![n] = @ \ copies]
    /\ LET left == SelectIn(fragments, Range(fragments) \ copies)
       IN  IF n = "dst"
           THEN /\ fragments' = left
                /\ written' = IF left = <<>> THEN {} ELSE written
           ELSE UNCHANGED reassembly

Duplicate(n, c) ==
    \E d \in pending[n] : d.off = c.off /\ d.len = c.len /\ d.whole = c.whole

\* An event that changes nothing but the queue, where a reference ends.
Ignore(n) ==
    /\ UNCHANGED <<pending, store, armed, reassembly, delivery>>
    /\ Post(n, Rest(n))
\* add_to_pending: the copy is stored, and its expiration timer is scheduled.
AddToPending(n, c) ==
    /\ pending' = [pending EXCEPT ![n] = @ \cup {c}]
    /\ armed' = [armed EXCEPT ![n] = @ \cup {c}]
    /\ store' = [store EXCEPT ![n] = @ \cup {c}]

\* What is on its way to another node, or has expired, only gets stored.
Accept(n, c) ==
    /\ AddToPending(n, c)
    /\ UNCHANGED <<reassembly, delivery>>
    /\ Post(n, Rest(n))

\* mutant: the delivery cache is not asked
Unsuppressed == FALSE
\* deliver_if_not_duplicate.
Suppressed == cache

\* The whole bundle at its destination: delete_obsoleted_fragments, delivery,
\* and try_to_delete, which the forwarding log allows once it was delivered.
DeliverWhole(n, c) ==
    LET requests == Reverse([i \in DOMAIN fragments |-> About("delete", fragments[i])])
    IN  /\ fragments' = <<>> /\ written' = {}
        /\ store' = [store EXCEPT ![n] = @ \cup {c}]
        /\ IF Suppressed
           THEN /\ pending' = [pending EXCEPT ![n] = @ \cup {c}]
                /\ armed' = [armed EXCEPT ![n] = @ \cup {c}]
                /\ UNCHANGED <<handed, cache>>
           ELSE /\ handed' = handed \cup {c} /\ cache' = TRUE
                /\ UNCHANGED <<pending, armed>>
        /\ UNCHANGED got
        /\ Post(n, Rest(n) \o requests)

\* process_for_reassembly.
Reassemble(n, c) ==
    LET list == InsertSorted(fragments, c)
        whole == Whole(FreshId(n))
    IN  /\ AddToPending(n, c)
        /\ UNCHANGED delivery
        /\ IF CheckCompleted(list)
           THEN /\ fragments' = <<>> /\ written' = {}
                /\ Post(n, <<Completed(whole, list, written \cup Units(c))>> \o Rest(n))
           ELSE /\ fragments' = list /\ written' = written \cup Units(c)
                /\ Post(n, Rest(n))

HandleReceived(n) ==
    /\ Current(n, "received")
    /\ LET e == Event(n) IN
       \/ /\ e.source = "peer" /\ Arrived(e.copy, e.bytes) = {}
          /\ Ignore(n)
       \/ \E c \in IF e.source = "peer" THEN Arrived(e.copy, e.bytes) ELSE {e.copy} :
             \/ Duplicate(n, c) /\ Ignore(n)
             \/ /\ ~Duplicate(n, c) /\ (late \/ n = "src")
                /\ Accept(n, c)
             \/ /\ ~Duplicate(n, c) /\ ~late /\ n = "dst" /\ c.whole
                /\ DeliverWhole(n, c)
             \/ /\ ~Duplicate(n, c) /\ ~late /\ n = "dst" /\ ~c.whole
                /\ Reassemble(n, c)
    /\ UNCHANGED <<bounds, lost>>

\* mutant: the event is posted behind the others
PostedLast(e, q) == Append(q, e)
\* BundleDaemon::post_at_head.
PostedFirst(e, q) == <<e>> \o q

\* handle_bundle_transmitted fragments what was acknowledged in part; then the
\* copy is deleted (try_to_delete), as it was TRANSMITTED.
HandleTransmitted(n) ==
    /\ Current(n, "transmitted")
    /\ LET e == Event(n)
           tails == Tails(e.copy, e.acked, FreshId(n))
       IN  /\ Delete(n, {e.copy})
           /\ UNCHANGED <<store, delivery>>
           /\ \/ /\ tails = {}
                 /\ Post(n, Rest(n))
                 /\ lost' = IF e.acked < Formatted(e.copy)
                            THEN lost \cup Units(e.copy) ELSE lost
              \/ \E t \in tails : /\ Post(n, PostedFirst(Received(t, 0, "tail"), Rest(n)))
                                 /\ UNCHANGED lost
    /\ UNCHANGED bounds

\* handle_reassembly_completed: each fragment is released before the event
\* for the whole bundle is posted.
HandleCompleted(n) ==
    /\ Current(n, "completed")
    /\ LET e == Event(n) IN
       /\ Delete(n, Range(e.list))
       /\ UNCHANGED <<store, delivery>>
       /\ \E q \in WithFrees(n, Rest(n)) :
             eventq' = [eventq EXCEPT ![n] =
                           PostedFirst(Received(e.copy, 0, "reassembled"), q)]
    /\ UNCHANGED <<bounds, lost>>

\* handle_bundle_expired and handle_bundle_delete.
HandleDelete(n, type) ==
    /\ Current(n, type)
    /\ Delete(n, {Event(n).copy})
    /\ UNCHANGED <<store, delivery>>
    /\ Post(n, Rest(n))
    /\ UNCHANGED <<bounds, lost>>

HandleDelivered(n) ==
    /\ Current(n, "delivered")
    /\ Ignore(n)
    /\ UNCHANGED <<bounds, lost>>

HandleFree(n) ==
    /\ Current(n, "free")
    /\ store' = [store EXCEPT ![n] = @ \ {Event(n).copy}]
    /\ UNCHANGED <<pending, armed, reassembly, delivery>>
    /\ Post(n, Rest(n))
    /\ UNCHANGED <<bounds, lost>>

Daemon(n) == \/ HandleReceived(n) \/ HandleTransmitted(n) \/ HandleCompleted(n)
             \/ HandleDelete(n, "expired") \/ HandleDelete(n, "delete")
             \/ HandleDelivered(n) \/ HandleFree(n)

-----------------------------------------------------------------------------
(* The link, the timers, the application and crashes *)

\* The lengths that the peer acknowledges, and where the last segment starts.
SegmentEnds(c) == {k * SegmentLen : k \in 0 .. ((Formatted(c) - 1) \div SegmentLen)}
                  \cup {Formatted(c)}
LastStart(c) == ((Formatted(c) - 1) \div SegmentLen) * SegmentLen

\* A transmission in which some units arrive and are acknowledged.  Of a copy
\* that did not arrive whole, close_contact hands over what came, unless it
\* is no more than the header or the last segment had begun.
Transmit(c) ==
    /\ c \in pending["src"] /\ attempts < MaxAttempts
    /\ \A e \in Range(eventq["src"]) : e.type = "transmitted" => e.copy # c
    /\ loading["src"] = <<>>
    /\ attempts' = attempts + 1
    /\ \E acked \in SegmentEnds(c), bytes \in 0 .. Formatted(c), begun \in BOOLEAN :
          LET copy == [c EXCEPT !.id = FreshId("dst")]
              handsOver == bytes = Formatted(c) \/ (bytes > HeaderLen /\ ~begun)
          IN  /\ acked <= bytes
              /\ begun \in {bytes > LastStart(c), bytes >= LastStart(c)}
              /\ eventq' = [src |-> IF acked = 0 THEN eventq["src"]
                                    ELSE Append(eventq["src"], Transmitted(c, acked)),
                            dst |-> IF handsOver
                                    THEN Append(eventq["dst"], Received(copy, bytes, "peer"))
                                    ELSE eventq["dst"]]
              /\ lost' = IF handsOver \/ acked <= HeaderLen THEN lost
                         ELSE lost \cup Units([c EXCEPT !.len = Least(@, acked - HeaderLen)])
    /\ UNCHANGED <<pending, store, armed, loading, reassembly, delivery, late, crashes>>

Faults == IF late THEN crashes + 1 ELSE crashes

LifetimeEnds ==
    /\ ~late /\ Faults < MaxFaults
    /\ late' = TRUE
    /\ UNCHANGED <<node, reassembly, delivery, attempts, crashes, lost>>

\* ExpirationTimer::timeout.
ExpirationTimeout(n, c) ==
    /\ late /\ c \in armed[n]
    /\ armed' = [armed EXCEPT ![n] = @ \ {c}]
    /\ eventq' = [eventq EXCEPT ![n] = PostedFirst(About("expired", c), @)]
    /\ UNCHANGED <<pending, store, loading, reassembly, delivery, bounds, lost>>

\* The application takes the bundle (APIClient::handle_recv).
AppReceives(c) ==
    /\ c \in handed
    /\ handed' = handed \ {c} /\ got' = got + 1
    /\ eventq' = [eventq EXCEPT !["dst"] = Append(@, About("delivered", c))]
    /\ UNCHANGED <<pending, store, armed, loading, reassembly, cache, bounds, lost>>

\* The events of copies that node n has received and not stored yet.
Arriving(n) == {e \in Range(eventq[n]) : e.type = "received" /\ e.source \in {"peer", "app"}}

\* A crash of the daemon loses what it has in memory; load_bundles handles a
\* received event for each stored bundle, in the order of their ids.
Crash(n) ==
    /\ Faults < MaxFaults
    /\ crashes' = crashes + 1
    /\ \E stored \in ById(store[n]) :
          loading' = [loading EXCEPT ![n] =
                         [i \in DOMAIN stored |-> Received(stored[i], 0, "store")]]
    /\ lost' = lost \cup Covered({e.copy : e \in Arriving(n)})
    /\ pending' = [pending EXCEPT ![n] = {}]
    /\ armed' = [armed EXCEPT ![n] = {}]
    /\ eventq' = [eventq EXCEPT ![n] = <<>>]
    /\ IF n = "dst" THEN /\ fragments' = <<>> /\ written' = {}
                         /\ handed' = {} /\ cache' = FALSE
                    ELSE UNCHANGED <<reassembly, handed, cache>>
    /\ UNCHANGED <<store, got, late, attempts>>

Next == \/ \E n \in Nodes : Daemon(n) \/ Crash(n)
        \/ \E c \in pending["src"] : Transmit(c)
        \/ LifetimeEnds
        \/ \E n \in Nodes : \E c \in armed[n] : ExpirationTimeout(n, c)
        \/ \E c \in handed : AppReceives(c)

Spec == Init /\ [][Next]_vars

-----------------------------------------------------------------------------
(* Properties *)

\* No fragment reaches past the end of its bundle (the PANIC of
\* create_fragment).  Reassembly completes a bundle when, and only when, its
\* fragments have every unit of the payload, however they overlap and in
\* whatever order they come: what it completes is whole, and fragments that
\* make the bundle are never left waiting for more.
ReassemblyExact ==
    /\ \A n \in Nodes : \A c \in pending[n] \cup store[n] : c.off + c.len <= Total
    /\ \A e \in Range(eventq["dst"]) :
          e.type = "completed" => Covered(Range(e.list)) = AllUnits /\ e.data = AllUnits
    /\ Covered(Range(fragments)) # AllUnits

\* A pending fragment at its destination takes part in the reassembly, or its
\* end is queued: none is forgotten by the FragmentManager, after a restart
\* either, except what comes after its lifetime.  None that was deleted still
\* counts as there.
PendingAreListed ==
    LET ending == UNION {CopiesOf(e) : e \in
            {f \in Range(eventq["dst"]) : f.type \in {"delete", "completed"}}}
        partial == {c \in pending["dst"] : ~c.whole}
    IN  /\ Range(fragments) \subseteq partial
        /\ late \/ loading["dst"] # <<>> \/ partial \subseteq Range(fragments) \cup ending

\* Every unit stays in one of the data stores, whatever breaks and whichever
\* daemon restarts, until the application has the bundle: each copy is
\* removed only after those that replace it were stored.  What a crash finds
\* received but not yet stored is lost, and what is named at "lost".
BytesKept ==
    LET arriving == {e.copy : e \in Arriving("src") \cup Arriving("dst")}
    IN  \/ got > 0 \/ late
        \/ AllUnits \subseteq lost \cup Covered(store["src"] \cup store["dst"] \cup arriving)

\* The application gets the bundle once, although it may arrive whole, in
\* fragments and again after a lost acknowledgement; a restart of the daemon
\* forgets what it delivered.
OncePerLife == got + Cardinality(handed) <= 1 + crashes
=============================================================================
