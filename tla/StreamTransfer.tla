--------------------------- MODULE StreamTransfer ---------------------------
(***************************************************************************)
(* The stream convergence layer: two connected nodes send bundles to each  *)
(* other as segments over one TCP connection, and acknowledge the segments *)
(* they have received.  Each side is a CLConnection with a thread of its   *)
(* own; the link queue and the events it posts join it to the daemon.      *)
(*                                                                         *)
(* A message on the wire is one item (its SDNV length is not split), and   *)
(* so is each unit of bundle data.  The loop of CLConnection::run is       *)
(* pc = "loop": commands, send_pending_data and poll start there.          *)
(* send_pending_data goes through "acks" and "next", process_data through  *)
(* "process".                                                              *)
(***************************************************************************)
EXTENDS Naturals, FiniteSets, Sequences, SequencesExt, Selection

CONSTANTS
    Sides,            \* the two nodes
    Bundles,
    Queued,           \* [Sides -> Seq(Bundles)]: the link queues at the start
    Length,           \* [Bundles -> Nat]: its formatted length, in units
    HeaderLength,     \* units before the payload (payload_offset)
    SegmentLength,    \* params_->segment_length_
    SendBufLen,       \* size of sendbuf_
    WireLen,          \* bound: what the kernel takes before a write blocks
    Reactive,         \* params_->reactive_frag_enabled_, as negotiated
    Keepalives,       \* params_->keepalive_interval_ is not 0
    Breaks,           \* the reasons for which this instance breaks contacts
    Cancels,          \* the bundles the daemon may cancel
    MaxContacts,      \* bound: contacts between the two nodes
    NoBundle

\* A bundle is an object of one node, and on the link queue once.
ASSUME SidesAssumption == \E s, t \in Sides : s # t /\ Sides = {s, t}
ASSUME QueuedAssumption ==
    /\ Queued \in [Sides -> Seq(Bundles)] /\ NoBundle \notin Bundles
    /\ \A s \in Sides : IsInjective(Queued[s])
    /\ \A s, t \in Sides : s # t => Range(Queued[s]) \cap Range(Queued[t]) = {}
ASSUME LengthsAssumption == /\ Length \in [Bundles -> Nat \ {0}]
                            /\ HeaderLength \in Nat
                            /\ SegmentLength \in Nat \ {0}
                            /\ SendBufLen \in Nat /\ SendBufLen > 1
                            /\ WireLen \in Nat \ {0}
ASSUME ParamsAssumption == /\ Reactive \in BOOLEAN
                           /\ Keepalives \in BOOLEAN
                           /\ Breaks \subseteq {"user", "idle", "broken"}
                           /\ Cancels \subseteq Bundles
                           /\ MaxContacts \in Nat \ {0}

VARIABLES
    queue,         \* link->queue(): bundles that wait for this contact
    inflight,      \* inflight_, oldest first
    current,       \* current_inflight_
    sendTodo,      \* send_segment_todo_
    sendbuf,       \* sendbuf_
    wire,          \* what the kernel has taken and the peer has not read
    recvbuf,       \* recvbuf_
    incoming,      \* incoming_, oldest first
    recvTodo,      \* recv_segment_todo_
    pc, conn,      \* the connection thread and its state
    contacts,      \* contacts so far
    transmitted,   \* BundleTransmittedEvents posted, per side
    received,      \* BundleReceivedEvents posted, per side
    cancelled,     \* BundleSendCancelledEvents posted
    arrived        \* ghost: the longest prefix that ever reached the peer

sending == <<queue, inflight, current, sendTodo>>
receiving == <<recvbuf, incoming, recvTodo>>
posted == <<transmitted, received, cancelled, arrived>>
vars == <<sending, sendbuf, wire, receiving, pc, conn, contacts, posted>>

Peer(s) == CHOOSE t \in Sides : t # s

Header == [type |-> "header"]
Shutdown == [type |-> "shutdown"]
Keepalive == [type |-> "keepalive"]
Ack(n) == [type |-> "ack", len |-> n]
Segment(n, first, last) == [type |-> "segment", len |-> n, start |-> first, last |-> last]
Unit(b, i) == [type |-> "data", bundle |-> b, unit |-> i]
Flight(b) == [bundle |-> b, sent |-> 0, acked |-> 0, posted |-> FALSE]
Incoming == [data |-> <<>>, acks |-> {}, acked |-> 0, total |-> 0]
Report(f) == [bundle |-> f.bundle, sent |-> f.sent, acked |-> f.acked]

\* The units first..last of bundle b, as BundleProtocol::produce emits them.
Units(b, first, last) == [i \in 1..(last - first + 1) |-> Unit(b, first + i - 1)]

Running(s) == conn[s] \in {"initiated", "up"}
TailBytes(s) == SendBufLen - Len(sendbuf[s])
Least(m, n) == IF m <= n THEN m ELSE n
Put(f, s, x) == [f EXCEPT ![s] = x]

Init ==
    /\ queue = Queued
    /\ inflight = [s \in Sides |-> <<>>]
    /\ current = [s \in Sides |-> NoBundle]
    /\ sendTodo = [s \in Sides |-> 0]
    /\ sendbuf = [s \in Sides |-> <<>>]
    /\ wire = [s \in Sides |-> <<Header>>]
    /\ recvbuf = [s \in Sides |-> <<>>]
    /\ incoming = [s \in Sides |-> <<>>]
    /\ recvTodo = [s \in Sides |-> 0]
    /\ pc = [s \in Sides |-> "loop"]
    /\ conn = [s \in Sides |-> "initiated"]
    /\ contacts = 1
    /\ transmitted = [s \in Sides |-> <<>>]
    /\ received = [s \in Sides |-> <<>>]
    /\ cancelled = {}
    /\ arrived = [b \in Bundles |-> 0]

-----------------------------------------------------------------------------
(* Sending *)

\* Fill the send buffer with the items and drain it: the kernel takes a part.
FillAndSend(s, items) ==
    LET out == sendbuf[s] \o items IN
    \E n \in 0..Least(Len(out), WireLen - Len(wire[s])) :
        /\ Len(out) - n <= SendBufLen
        /\ wire' = Put(wire, s, wire[s] \o SubSeq(out, 1, n))
        /\ sendbuf' = Put(sendbuf, s, SubSeq(out, n + 1, Len(out)))

\* mutant: the header counts as data
SendDataTodoAndHeader(s, flights, f, header, todo) ==
    \E n \in 0..todo :
        /\ FillAndSend(s, header \o Units(f.bundle, f.sent + 1, f.sent + n))
        /\ n = todo \/ Len(sendbuf'[s]) = SendBufLen
        /\ sendTodo' = Put(sendTodo, s, todo - n - Len(header))
        /\ inflight' = Put(inflight, s, Append(flights, [f EXCEPT !.sent = @ + n]))
\* send_data_todo: send up to todo units of f, until the buffer stays full.
\* A segment header that filled the buffer goes out with the next write.
SendDataTodo(s, flights, f, header, todo) ==
    \E n \in 0..todo :
        /\ FillAndSend(s, header \o Units(f.bundle, f.sent + 1, f.sent + n))
        /\ n = todo \/ Len(sendbuf'[s]) = SendBufLen
        /\ sendTodo' = Put(sendTodo, s, todo - n)
        /\ inflight' = Put(inflight, s, Append(flights, [f EXCEPT !.sent = @ + n]))

\* send_pending_data, in the middle of a segment.
ContinueSegment(s) ==
    /\ pc[s] = "loop" /\ Running(s) /\ TailBytes(s) > 0
    /\ sendTodo[s] > 0
    /\ SendDataTodo(s, Front(inflight[s]), Last(inflight[s]), <<>>, sendTodo[s])
    /\ pc' = Put(pc, s, IF sendTodo'[s] = 0 THEN "acks" ELSE "loop")
    /\ UNCHANGED <<queue, current, receiving, conn, contacts, posted>>

\* The smallest ends of segments whose acknowledgements fit in the send buffer.
Fitting(s, ends) == {n \in ends : Cardinality({m \in ends : m <= n}) <= TailBytes(s)}

\* mutant: a segment is acknowledged when it begins
BegunAcks(s) == Fitting(s, Head(incoming[s]).acks)
\* mutant: the last unit of a segment must be followed by another one
LateAcks(s) == Fitting(s, {n \in Head(incoming[s]).acks : n < Len(Head(incoming[s]).data)})
\* The segments of the oldest incoming bundle that have arrived whole and
\* whose acknowledgements fit.
PendingAcks(s) ==
    Fitting(s, {n \in Head(incoming[s]).acks : n <= Len(Head(incoming[s]).data)})

\* The numbers of a set, the smallest first.
InOrder(S) == {q \in [1..Cardinality(S) -> S] : \A i, j \in DOMAIN q : i < j => q[i] < q[j]}

\* Nothing to do makes send_pending_data a step that changes nothing.
WorkToDo(s) == \/ incoming[s] # <<>>
               \/ current[s] # NoBundle
               \/ conn[s] = "up" /\ queue[s] # <<>>

SendPendingAcks(s) ==
    /\ \/ pc[s] = "acks"
       \/ pc[s] = "loop" /\ sendTodo[s] = 0 /\ TailBytes(s) > 0 /\ WorkToDo(s)
    /\ Running(s)
    /\ IF incoming[s] = <<>> THEN UNCHANGED <<incoming, sendbuf, wire>>
       ELSE \E acks \in InOrder(PendingAcks(s)) :
            LET front == [Head(incoming[s]) EXCEPT
                             !.acks = @ \ Range(acks),
                             !.acked = IF acks = <<>> THEN @ ELSE Last(acks)]
            IN  /\ IF acks = <<>> THEN UNCHANGED <<sendbuf, wire>>
                   ELSE FillAndSend(s, [i \in DOMAIN acks |-> Ack(acks[i])])
                /\ incoming' = Put(incoming, s,
                       IF front.total # 0 /\ front.total = front.acked
                       THEN Tail(incoming[s])
                       ELSE <<front>> \o Tail(incoming[s]))
    /\ pc' = Put(pc, s, "next")
    /\ UNCHANGED <<sending, recvbuf, recvTodo, conn, contacts, posted>>

\* send_next_segment, with room in the send buffer and data left to send.
SendSegment(s, flights, f) ==
    LET left == Length[f.bundle] - f.sent
        n == Least(SegmentLength, left)
    IN  SendDataTodo(s, flights, f, <<Segment(n, f.sent = 0, n = left)>>, n)

StartNextBundle(s) ==
    /\ pc[s] = "next" /\ Running(s)
    /\ current[s] = NoBundle /\ conn[s] = "up" /\ queue[s] # <<>>
    /\ current' = Put(current, s, Head(queue[s]))
    /\ queue' = Put(queue, s, Tail(queue[s]))
    /\ LET f == Flight(Head(queue[s])) IN
       \/ /\ TailBytes(s) > 0
          /\ SendSegment(s, inflight[s], f)
       \/ /\ TailBytes(s) = 0
          /\ inflight' = Put(inflight, s, Append(inflight[s], f))
          /\ UNCHANGED <<sendTodo, sendbuf, wire>>
    /\ pc' = Put(pc, s, "loop")
    /\ UNCHANGED <<receiving, conn, contacts, posted>>

SendNextSegment(s) ==
    /\ pc[s] = "next" /\ Running(s)
    /\ current[s] # NoBundle /\ TailBytes(s) > 0
    /\ LET f == Last(inflight[s]) IN
       /\ f.sent < Length[f.bundle]
       /\ SendSegment(s, Front(inflight[s]), f)
    /\ pc' = Put(pc, s, "loop")
    /\ UNCHANGED <<queue, current, receiving, conn, contacts, posted>>

\* check_completed: a bundle leaves when it is finished and acknowledged.
FinishBundle(s) ==
    /\ pc[s] = "next" /\ Running(s)
    /\ current[s] # NoBundle /\ TailBytes(s) > 0
    /\ LET f == Last(inflight[s]) IN
       /\ f.sent = Length[f.bundle]
       /\ inflight' = Put(inflight, s, IF f.acked < Length[f.bundle]
                                       THEN inflight[s] ELSE Tail(inflight[s]))
    /\ current' = Put(current, s, NoBundle)
    /\ pc' = Put(pc, s, "loop")
    /\ UNCHANGED <<queue, sendTodo, sendbuf, wire, receiving, conn, contacts, posted>>

NothingToSend(s) ==
    /\ pc[s] = "next"
    /\ IF current[s] = NoBundle THEN conn[s] # "up" \/ queue[s] = <<>>
                                ELSE TailBytes(s) = 0
    /\ pc' = Put(pc, s, "loop")
    /\ UNCHANGED <<sending, sendbuf, wire, receiving, conn, contacts, posted>>

\* The socket is writable again (POLLOUT).
Flush(s) ==
    /\ pc[s] = "loop" /\ Running(s) /\ sendbuf[s] # <<>>
    /\ Len(wire[s]) < WireLen
    /\ FillAndSend(s, <<>>)
    /\ UNCHANGED <<sending, receiving, pc, conn, contacts, posted>>

\* check_keepalive, bound: one keepalive on the wire.
SendKeepalive(s) ==
    /\ Keepalives
    /\ pc[s] = "loop" /\ conn[s] = "up"
    /\ sendTodo[s] = 0 /\ sendbuf[s] = <<>>
    /\ Keepalive \notin Range(wire[s])
    /\ FillAndSend(s, <<Keepalive>>)
    /\ UNCHANGED <<sending, receiving, pc, conn, contacts, posted>>

-----------------------------------------------------------------------------
(* Receiving *)

Read(s) ==
    /\ pc[s] = "loop" /\ Running(s)
    /\ \E n \in 1..Len(wire[Peer(s)]) :
          /\ recvbuf' = Put(recvbuf, s, recvbuf[s] \o SubSeq(wire[Peer(s)], 1, n))
          /\ wire' = Put(wire, Peer(s), SubSeq(wire[Peer(s)], n + 1, Len(wire[Peer(s)])))
    /\ pc' = Put(pc, s, "process")
    /\ UNCHANGED <<sending, sendbuf, incoming, recvTodo, conn, contacts, posted>>

\* handle_contact_initiation: process_data returns at once, and what came in
\* the same read waits in recvbuf_ for the next one.
HandleContactInitiation(s) ==
    /\ pc[s] = "process" /\ conn[s] = "initiated"
    /\ Head(recvbuf[s]) = Header
    /\ conn' = Put(conn, s, "up")
    /\ recvbuf' = Put(recvbuf, s, Tail(recvbuf[s]))
    /\ pc' = Put(pc, s, "loop")
    /\ UNCHANGED <<sending, sendbuf, wire, incoming, recvTodo, contacts, posted>>

Message(s) == Head(recvbuf[s])

\* What breaks the contact with CL_ERROR.
ProtocolError(s) ==
    LET m == Message(s) IN
    CASE m.type = "segment" -> IF m.start
                               THEN incoming[s] # <<>> /\ Last(incoming[s]).total = 0
                               ELSE incoming[s] = <<>>
      [] m.type = "ack" -> inflight[s] = <<>> \/ m.len < Head(inflight[s]).acked
      [] m.type = "keepalive" -> FALSE
      [] OTHER -> TRUE

\* process_data takes the next message from recvbuf_, and goes on while there
\* is one and the contact is not broken.
Consume(s, types) ==
    /\ pc[s] = "process" /\ conn[s] = "up"
    /\ recvTodo[s] = 0 /\ Message(s).type \in types
    /\ recvbuf' = Put(recvbuf, s, Tail(recvbuf[s]))
    /\ conn' = Put(conn, s, IF ProtocolError(s) THEN "error" ELSE "up")
    /\ pc' = Put(pc, s, IF Tail(recvbuf[s]) = <<>> THEN "loop" ELSE "process")

HandleDataSegment(s) ==
    LET m == Message(s)
        list == IF m.start THEN Append(incoming[s], Incoming) ELSE incoming[s]
        in == Last(list)
        end == Len(in.data) + m.len
    IN  /\ Consume(s, {"segment"})
        /\ IF ProtocolError(s) THEN UNCHANGED <<incoming, recvTodo>>
           ELSE /\ incoming' = Put(incoming, s, Append(Front(list),
                       [in EXCEPT !.acks = @ \cup {end},
                                  !.total = IF m.last THEN end ELSE @]))
                /\ recvTodo' = Put(recvTodo, s, m.len)
        /\ UNCHANGED <<sending, sendbuf, wire, contacts, posted>>

\* handle_data_todo takes what comes as data, and check_completed posts the
\* received event once the bundle is whole.
HandleDataTodo(s) ==
    /\ pc[s] = "process" /\ conn[s] = "up" /\ recvTodo[s] > 0
    /\ LET m == Message(s)
           in == [Last(incoming[s]) EXCEPT !.data = Append(@, m)]
           b == in.data[1].bundle
       IN  /\ incoming' = Put(incoming, s, Append(Front(incoming[s]), in))
           /\ received' = IF recvTodo[s] = 1 /\ in.total # 0 /\ Len(in.data) = in.total
                          THEN Put(received, s, Append(received[s],
                                   [data |-> in.data, whole |-> TRUE]))
                          ELSE received
           /\ arrived' = IF /\ in.data = Units(b, 1, Len(in.data))
                            /\ Len(in.data) > arrived[b]
                         THEN Put(arrived, b, Len(in.data)) ELSE arrived
    /\ recvTodo' = Put(recvTodo, s, recvTodo[s] - 1)
    /\ recvbuf' = Put(recvbuf, s, Tail(recvbuf[s]))
    /\ pc' = Put(pc, s, IF Tail(recvbuf[s]) = <<>> THEN "loop" ELSE "process")
    /\ UNCHANGED <<sending, sendbuf, wire, conn, contacts, transmitted, cancelled>>

\* The final acknowledgement may come before finish_bundle: then the bundle
\* stays in flight until send_next_segment finds nothing left to send.
HandleAckSegment(s) ==
    LET len == Message(s).len
        f == [Head(inflight[s]) EXCEPT !.acked = len]
        final == len = Length[f.bundle]
    IN  /\ Consume(s, {"ack"})
        /\ IF ProtocolError(s) THEN UNCHANGED <<inflight, transmitted>>
           ELSE /\ transmitted' = IF final
                       THEN Put(transmitted, s, Append(transmitted[s], Report(f)))
                       ELSE transmitted
                /\ inflight' = Put(inflight, s,
                       IF final /\ current[s] # f.bundle THEN Tail(inflight[s])
                       ELSE <<[f EXCEPT !.posted = @ \/ final]>> \o Tail(inflight[s]))
        /\ UNCHANGED <<queue, current, sendTodo, sendbuf, wire, incoming, recvTodo,
                       contacts, received, cancelled, arrived>>

\* A keepalive, or a type code that process_data does not know.
HandleOther(s) ==
    /\ Consume(s, {"keepalive", "header", "data"})
    /\ UNCHANGED <<sending, sendbuf, wire, incoming, recvTodo, contacts, posted>>

-----------------------------------------------------------------------------
(* Breaking and closing the contact *)

\* mutant: the shutdown byte goes out wherever the data stands
BreakAnywhere(s, polite) ==
    /\ conn' = Put(conn, s, "broken")
    /\ pc' = Put(pc, s, "loop")
    /\ IF polite THEN FillAndSend(s, <<Shutdown>>) ELSE UNCHANGED <<sendbuf, wire>>
    /\ UNCHANGED <<sending, incoming, recvTodo, contacts, posted>>
\* break_contact: the shutdown byte must not get into a segment.
Break(s, polite) ==
    /\ conn' = Put(conn, s, "broken")
    /\ pc' = Put(pc, s, "loop")
    /\ IF polite /\ sendbuf[s] = <<>> /\ sendTodo[s] = 0
       THEN FillAndSend(s, <<Shutdown>>)
       ELSE UNCHANGED <<sendbuf, wire>>
    /\ UNCHANGED <<sending, incoming, recvTodo, contacts, posted>>

\* The daemon closes the link or the link was idle for too long, or (at any
\* point) the socket fails.
BreakContact(s, reason) ==
    /\ Running(s)
    /\ reason = "broken" \/ pc[s] = "loop"
    /\ Break(s, reason # "broken")
    /\ UNCHANGED recvbuf

HandleShutdown(s) ==
    /\ pc[s] = "process" /\ conn[s] = "up" /\ recvTodo[s] = 0
    /\ Message(s) = Shutdown
    /\ recvbuf' = Put(recvbuf, s, Tail(recvbuf[s]))
    /\ Break(s, TRUE)

\* mutant: a bundle can be cancelled between two of its segments
CancellableBetween(s, f) == sendTodo[s] = 0
\* handle_cancel_bundle: only a bundle of which nothing was sent, nor the
\* header of its first segment.
Cancellable(s, f) == f.sent = 0 /\ sendTodo[s] = 0

CancelBundle(s, b) ==
    /\ pc[s] = "loop" /\ Running(s)
    /\ \E i \in DOMAIN inflight[s] :
          /\ inflight[s][i].bundle = b /\ Cancellable(s, inflight[s][i])
          /\ inflight' = Put(inflight, s, RemoveAt(inflight[s], i))
    /\ current' = Put(current, s, NoBundle)
    /\ cancelled' = cancelled \cup {b}
    /\ UNCHANGED <<queue, sendTodo, sendbuf, wire, receiving, pc, conn, contacts,
                   transmitted, received, arrived>>

\* What close_contact puts back on the link queue.
GivenBack(f) == ~Reactive \/ f.sent = 0 \/ f.acked = 0
\* mutant: transmit_event_posted_ is not looked at
ReportedAgain(f) == ~GivenBack(f)
\* What it posts a BundleTransmittedEvent for.
Reported(f) == ~GivenBack(f) /\ ~f.posted
\* mutant: a bundle that arrived whole is handed over once more
HandedOverAgain(in) == Reactive /\ Len(in.data) > HeaderLength
\* What it posts a BundleReceivedEvent for: the last segment has not begun.
HandedOver(in) == in.total = 0 /\ Reactive /\ Len(in.data) > HeaderLength

\* close_contact, once the thread has stopped.
CloseContact(s) ==
    /\ conn[s] \in {"broken", "error"}
    /\ LET back == SelectIn(inflight[s], {f \in Range(inflight[s]) : GivenBack(f)})
           partly == SelectIn(inflight[s], {f \in Range(inflight[s]) : Reported(f)})
       IN  /\ queue' = Put(queue, s, queue[s] \o [i \in DOMAIN back |-> back[i].bundle])
           /\ transmitted' = Put(transmitted, s, transmitted[s] \o
                                 [i \in DOMAIN partly |-> Report(partly[i])])
    /\ received' = IF incoming[s] # <<>> /\ HandedOver(Last(incoming[s]))
                   THEN Put(received, s, Append(received[s],
                            [data |-> Last(incoming[s]).data, whole |-> FALSE]))
                   ELSE received
    /\ conn' = Put(conn, s, "closed")
    /\ inflight' = Put(inflight, s, <<>>)
    /\ current' = Put(current, s, NoBundle)
    /\ sendTodo' = Put(sendTodo, s, 0)
    /\ sendbuf' = Put(sendbuf, s, <<>>)
    /\ recvbuf' = Put(recvbuf, s, <<>>)
    /\ incoming' = Put(incoming, s, <<>>)
    /\ recvTodo' = Put(recvTodo, s, 0)
    /\ UNCHANGED <<wire, pc, contacts, cancelled, arrived>>

\* The link opens again, with a new connection at both ends.
Reconnect ==
    /\ \A s \in Sides : conn[s] = "closed"
    /\ contacts < MaxContacts
    /\ contacts' = contacts + 1
    /\ conn' = [s \in Sides |-> "initiated"]
    /\ wire' = [s \in Sides |-> <<Header>>]
    /\ UNCHANGED <<sending, sendbuf, receiving, pc, posted>>

\* The second half of send_pending_data, and process_data.
SendNext(s) == \/ StartNextBundle(s) \/ SendNextSegment(s)
               \/ FinishBundle(s) \/ NothingToSend(s)
Process(s) == \/ HandleContactInitiation(s) \/ HandleDataSegment(s)
              \/ HandleDataTodo(s) \/ HandleAckSegment(s)
              \/ HandleOther(s) \/ HandleShutdown(s)

Thread(s) == \/ ContinueSegment(s) \/ SendPendingAcks(s) \/ SendNext(s)
             \/ Flush(s) \/ SendKeepalive(s) \/ Read(s) \/ Process(s)

Next ==
    \/ \E s \in Sides : Thread(s) \/ CloseContact(s)
    \/ \E s \in Sides, r \in Breaks : BreakContact(s, r)
    \/ \E s \in Sides, b \in Cancels : CancelBundle(s, b)
    \/ Reconnect

Spec == Init /\ [][Next]_vars

\* A thread sees that its peer has closed the socket.
PeerGone(s) == conn[Peer(s)] = "closed" /\ BreakContact(s, "broken")

\* Every iteration of the connection thread's loop looks at the send buffer,
\* the queues and the socket in turn; the keepalive timer goes on.
Fairness ==
    /\ \A s \in Sides :
          /\ SF_vars(ContinueSegment(s)) /\ SF_vars(SendPendingAcks(s))
          /\ SF_vars(Flush(s)) /\ SF_vars(Read(s)) /\ SF_vars(SendKeepalive(s))
          /\ WF_vars(SendNext(s)) /\ WF_vars(Process(s)) /\ WF_vars(CloseContact(s))
          /\ WF_vars(PeerGone(s))
    /\ WF_vars(Reconnect)

FairSpec == Spec /\ Fairness

-----------------------------------------------------------------------------
(* Properties *)

Items == [type : {"header", "shutdown", "keepalive"}]
         \cup [type : {"ack"}, len : Nat]
         \cup [type : {"segment"}, len : Nat, start : BOOLEAN, last : BOOLEAN]
         \cup [type : {"data"}, bundle : Bundles, unit : Nat]
Flights == [bundle : Bundles, sent : Nat, acked : Nat, posted : BOOLEAN]
Incomings == [data : Seq(Items), acks : SUBSET Nat, acked : Nat, total : Nat]

\* The types of the connections and of the events they post.
TypeOK ==
    /\ queue \in [Sides -> Seq(Bundles)]
    /\ inflight \in [Sides -> Seq(Flights)]
    /\ current \in [Sides -> Bundles \cup {NoBundle}]
    /\ sendTodo \in [Sides -> Nat] /\ recvTodo \in [Sides -> Nat]
    /\ sendbuf \in [Sides -> Seq(Items)] /\ wire \in [Sides -> Seq(Items)]
    /\ recvbuf \in [Sides -> Seq(Items)]
    /\ incoming \in [Sides -> Seq(Incomings)]
    /\ pc \in [Sides -> {"loop", "acks", "next", "process"}]
    /\ conn \in [Sides -> {"initiated", "up", "broken", "error", "closed"}]
    /\ contacts \in 1..MaxContacts
    /\ transmitted \in [Sides -> Seq([bundle : Bundles, sent : Nat, acked : Nat])]
    /\ received \in [Sides -> Seq([data : Seq(Items), whole : BOOLEAN])]
    /\ cancelled \subseteq Bundles
    /\ arrived \in [Bundles -> Nat]

\* Two ends of this code never accuse each other of a protocol error
\* (break_contact with CL_ERROR in process_data and its handlers): the start
\* and end flags, the acknowledgements and the payload stay in step whatever
\* part of them each write and each read takes.
NoProtocolError == \A s \in Sides : conn[s] # "error"

\* A BundleReceivedEvent carries one bundle of the peer, in order and without
\* a foreign byte: all of it when check_completed posts it, a prefix when
\* close_contact does.
ReceivedIntact ==
    \A s \in Sides : \A e \in Range(received[s]) :
        \E b \in Bundles :
            /\ e.data = Units(b, 1, Len(e.data))
            /\ e.whole <=> Len(e.data) = Length[b]

\* The places where a bundle can be on the sender's side.
Places(s, b) ==
    {<<"queue", i>> : i \in {j \in DOMAIN queue[s] : queue[s][j] = b}}
    \cup {<<"inflight", i>> : i \in {j \in DOMAIN inflight[s] :
                               inflight[s][j].bundle = b /\ ~inflight[s][j].posted}}
    \cup {<<"transmitted", i>> : i \in {j \in DOMAIN transmitted[s] :
                                  transmitted[s][j].bundle = b}}
    \cup {<<"cancelled", i>> : i \in {j \in {0} : b \in cancelled}}

\* A bundle the daemon queued is waiting, in flight, reported once or
\* cancelled, and only one of these: breaks and cancellations at any point
\* neither lose it nor have it reported and sent again.
HeldOnce ==
    \A s \in Sides : \A b \in Range(Queued[s]) : Cardinality(Places(s, b)) = 1

\* The peer gets a bundle twice only if a contact broke before its last
\* acknowledgement came back: once per contact.
OncePerContact ==
    \A s \in Sides, b \in Bundles :
        Cardinality({i \in DOMAIN received[s] : received[s][i].data[1].bundle = b}) <= contacts

\* Every bundle that was queued is sent and acknowledged, in the first contact
\* that lasts, even when the kernel hands over its first segments together
\* with the contact header and process_data leaves them in recvbuf_.
AllTransmitted ==
    \A s \in Sides : \A b \in Range(Queued[s]) :
        <>(\/ b \in cancelled
           \/ \E r \in Range(transmitted[s]) : r.bundle = b
           \/ contacts = MaxContacts /\ \E p \in Sides : ~Running(p))

\* Nothing that the sender reports as received in part gets lost when the
\* contact breaks: what close_contact acknowledges to reactive fragmentation,
\* the peer's close_contact hands over.
PartialHandedOver ==
    (\A s \in Sides : conn[s] = "closed") =>
        \A s \in Sides : \A r \in Range(transmitted[s]) :
            r.acked > HeaderLength =>
                \E e \in Range(received[Peer(s)]) :
                    e.data[1].bundle = r.bundle /\ Len(e.data) >= r.acked

\* The abstract transfer that the two connections implement.
InFlight(b) == {f \in UNION {Range(inflight[s]) : s \in Sides} : f.bundle = b}
Reports(b) == {r \in UNION {Range(transmitted[s]) : s \in Sides} : r.bundle = b}
Handed == {b \in Bundles : \E s \in Sides : \E e \in Range(received[s]) :
                               e.whole /\ e.data[1].bundle = b}
Status(b) == CASE b \in cancelled -> "cancelled"
               [] b \notin cancelled /\ Reports(b) # {} -> "done"
               [] b \notin cancelled /\ Reports(b) = {} /\ InFlight(b) # {} -> "moving"
               [] OTHER -> "waiting"
Confirmed(b) == Max({0} \cup {f.acked : f \in InFlight(b) \cup Reports(b)})

Abstract == INSTANCE Transfer WITH
    status <- [b \in Bundles |-> Status(b)],
    confirmed <- [b \in Bundles |-> Confirmed(b)],
    handed <- Handed

\* The stream protocol implements the abstract transfer.
ImplementsTransfer == Abstract!Spec
=============================================================================
