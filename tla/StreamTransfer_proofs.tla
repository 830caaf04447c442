----------------------- MODULE StreamTransfer_proofs -----------------------
(***************************************************************************)
(* The steps of the connections keep the invariant of                      *)
(* StreamTransfer_lemmas, and what follows from it: the types, that        *)
(* neither end sees a protocol error, that bundles are received as they    *)
(* were sent and once per contact, where the sender holds them, and that   *)
(* the two connections implement the transfer of module Transfer.          *)
(***************************************************************************)
EXTENDS StreamTransfer_lemmas


-----------------------------------------------------------------------------
(* How one step of a side x moves the transfer from x to its peer, and the *)
(* one from its peer to x.                                                 *)

\* What TypeOK says of the two ends of a transfer.
LEMMA EndsType ==
    ASSUME TypeOK, NEW s \in Sides, NEW t, t = Peer(s)
    PROVE  /\ t \in Sides /\ Peer(t) = s /\ t # s
           /\ inflight[s] \in Seq(Flights) /\ current[s] \in Bundles \cup {NoBundle}
           /\ sendTodo[s] \in Nat /\ incoming[t] \in Seq(Incomings) /\ recvTodo[t] \in Nat
           /\ arrived \in [Bundles -> Nat] /\ Pipe(s) \in Seq(Items) /\ Pipe(t) \in Seq(Items)
<1>1. t \in Sides /\ Peer(t) = s /\ t # s
  BY PeerIs
<1>2. Pipe(s) \in Seq(Items) /\ Pipe(t) \in Seq(Items)
  BY <1>1, PipeType
<1> QED
  BY <1>1, <1>2 DEF TypeOK

\* The places have their types, and the sender's is after the contact header.
LEMMA PlacesType ==
    ASSUME TypeOK, NEW s \in Sides, NEW o \in Seq(Bundles), NEW a \in Nat, EndsOK(s, o, a)
    PROVE  /\ SenderPlace(s, o) \in DataPlaces /\ SenderPlace(s, o).i > 0
           /\ (sendTodo[s] = 0 => SenderPlace(s, o).todo = 0)
           /\ AckedPlace(s, o) \in AckPlaces
           /\ ReceiverPlace(s, o, a) \in DataPlaces /\ AckingPlace(s, a) \in AckPlaces
<1> DEFINE t == Peer(s)
<1>1. /\ t \in Sides /\ inflight[s] \in Seq(Flights) /\ current[s] \in Bundles \cup {NoBundle}
      /\ sendTodo[s] \in Nat /\ incoming[t] \in Seq(Incomings) /\ recvTodo[t] \in Nat
      /\ arrived \in [Bundles -> Nat]
  BY EndsType
<1>2. /\ FlightsOK(o, arrived, inflight[s], current[s], sendTodo[s])
      /\ IncomingOK(o, arrived, a, incoming[t], recvTodo[t])
  BY DEF EndsOK
<1>3. Start \in DataPlaces
  BY PlaceType DEF Start
<1>4. ReceiveAt(o, a, incoming[t], recvTodo[t]) \in DataPlaces /\ AcksAt(a, incoming[t]) \in AckPlaces
  BY <1>1, <1>2, ReceiveAtType
<1> QED
  BY <1>1, <1>2, <1>3, <1>4, SendAtIs, AckedAtIs
     DEF SenderPlace, AckedPlace, ReceiverPlace, AckingPlace

\* The receiver does not acknowledge more than it has.
LEMMA AcksNotAhead ==
    ASSUME NEW o \in Seq(Bundles), NEW r \in [Bundles -> Nat], NEW a \in Nat,
           NEW I \in Seq(Incomings), NEW todo \in Nat, IncomingOK(o, r, a, I, todo)
    PROVE  NotAhead(AcksAt(a, I), ReceiveAt(o, a, I, todo))
<1> DEFINE c == Len(I)
           d == Len(I[c].data)
           R == ReceiveAt(o, a, I, todo)
<1> SUFFICES NotAhead(AcksAt(a, I), R)
  OBVIOUS
<1>1. /\ c \in Nat /\ (I = <<>> <=> c = 0)
      /\ (c = 0 => R = Place(a, 0, 0))
      /\ (c > 0 => \/ R = Place(a + c, 0, 0)
                   \/ R = Place((a + c) - 1, d, todo))
  BY ReceiveAtIs
<1>2. CASE c = 0
  BY <1>1, <1>2 DEF NotAhead, AcksAt, Mark, Place
<1>3. CASE c > 0
  <2>1. 1 \in 1..c /\ c \in 1..c
    BY <1>1, <1>3
  <2>2. d \in Nat /\ I[1].acked \in Nat
    BY <2>1, IncomingType
  <2>3. AcksAt(a, I) = Mark(a, I[1].acked)
    BY <1>1, <1>3 DEF AcksAt
  <2>4. CASE R = Place(a + c, 0, 0)
    <3> HIDE DEF c, R
    <3> QED
      BY <1>1, <1>3, <2>3, <2>4 DEF NotAhead, Mark, Place
  <2>5. CASE R = Place((a + c) - 1, d, todo)
    <3>1. CASE c = 1
      <4>1. I[1].acked <= d
        BY <2>1, <3>1 DEF IncomingOK, IncomingOK1
      <4>2. R = Place(a, d, todo)
        <5>1. (a + 1) - 1 = a
          OBVIOUS
        <5> QED
          BY <2>5, <3>1, <5>1
      <4> HIDE DEF c, R, d
      <4> QED
        BY <2>2, <2>3, <4>1, <4>2 DEF NotAhead, Mark, Place
    <3>2. CASE c # 1
      <4> HIDE DEF c, R, d
      <4>1. a < (a + c) - 1
        BY <1>1, <1>3, <3>2
      <4> QED
        BY <2>3, <2>5, <4>1 DEF NotAhead, Mark, Place
    <3> QED
      BY <3>1, <3>2
  <2> QED
    BY <1>1, <1>3, <2>4, <2>5
<1> QED
  BY <1>1, <1>2, <1>3

\* x sends data: what it has written leads to its new place.
LEMMA SenderMoves ==
    ASSUME TypeOK, NEW x \in Sides, NEW o \in Seq(Bundles), NEW a \in Nat, InStep(x, o, a),
           NEW y, y = Peer(x), Running(x), conn' = conn, arrived' = arrived,
           incoming'[y] = incoming[y], recvTodo'[y] = recvTodo[y],
           NEW xs \in Seq(Items), Pipe(y)' = Pipe(y) \o xs, Pipe(x)' = Pipe(x),
           NEW o2, o2 = o \/ \E b \in Bundles : o2 = Append(o, b),
           FlightsOK(o2, arrived, inflight'[x], current'[x], sendTodo'[x]),
           DataRun(o2, SenderPlace(x, o), xs, SendAt(o2, inflight'[x], sendTodo'[x])),
           SendAt(o2, inflight'[x], sendTodo'[x]) \in DataPlaces,
           AckedAt(o2, inflight'[x], sendTodo'[x]) = AckedPlace(x, o)
    PROVE  InStep(x, o2, a)' /\ o2 \in Seq(Bundles)
<1>1. /\ y \in Sides /\ Peer(y) = x /\ y # x
      /\ inflight[x] \in Seq(Flights) /\ current[x] \in Bundles \cup {NoBundle}
      /\ sendTodo[x] \in Nat /\ incoming[y] \in Seq(Incomings) /\ recvTodo[y] \in Nat
      /\ arrived \in [Bundles -> Nat] /\ Pipe(x) \in Seq(Items) /\ Pipe(y) \in Seq(Items)
  BY EndsType
<1>2. EndsOK(x, o, a) /\ DataAgrees(x, o, a) /\ AcksAgree(x, o, a)
  BY DEF InStep
<1>3. SenderPlace(x, o) \in DataPlaces /\ SenderPlace(x, o).i > 0
  BY <1>2, PlacesType
<1>4. IncomingOK(o, arrived, a, incoming[y], recvTodo[y])
      /\ (conn[y] = "initiated" => incoming[y] = <<>> /\ a = 1)
  BY <1>2 DEF EndsOK
<1>5. /\ o2 \in Seq(Bundles) /\ IncomingOK(o2, arrived, a, incoming[y], recvTodo[y])
      /\ ReceiveAt(o2, a, incoming[y], recvTodo[y]) = ReceiveAt(o, a, incoming[y], recvTodo[y])
  <2>1. CASE o2 = o
    BY <1>4, <2>1
  <2>2. CASE \E b \in Bundles : o2 = Append(o, b)
    <3>1. PICK b \in Bundles : o2 = Append(o, b)
      BY <2>2
    <3> DEFINE I == incoming[y]
               w == recvTodo[y]
    <3> HIDE DEF I, w
    <3>4. I \in Seq(Incomings) /\ w \in Nat /\ arrived \in [Bundles -> Nat]
          /\ IncomingOK(o, arrived, a, I, w) /\ b \in Bundles
      BY <1>1, <1>4, <3>1 DEF I, w
    <3>5. IncomingOK(Append(o, b), arrived, a, I, w)
      BY <3>4, IncomingMore
    <3>6. ReceiveAt(Append(o, b), a, I, w) = ReceiveAt(o, a, I, w)
      BY <3>4, IncomingMore
    <3>2. /\ IncomingOK(Append(o, b), arrived, a, incoming[y], recvTodo[y])
          /\ ReceiveAt(Append(o, b), a, incoming[y], recvTodo[y]) =
                ReceiveAt(o, a, incoming[y], recvTodo[y])
      BY <3>5, <3>6 DEF I, w
    <3>3. Append(o, b) \in Seq(Bundles)
      BY <3>1, Appended
    <3> QED
      BY <3>1, <3>2, <3>3
  <2> QED
    BY <2>1, <2>2
<1> DEFINE z == SendAt(o2, inflight'[x], sendTodo'[x])
           R == ReceiverPlace(x, o, a)
<1> HIDE DEF z, R
<1>6. ReceiverPlace(x, o2, a)' = R /\ SenderPlace(x, o2)' = z /\ AckedPlace(x, o2)' = AckedPlace(x, o)
      /\ AckingPlace(x, a)' = AckingPlace(x, a)
  BY <1>5 DEF ReceiverPlace, SenderPlace, AckedPlace, AckingPlace, z, R
<1>7. EndsOK(x, o2, a)'
  BY <1>4, <1>5 DEF EndsOK
<1>8. DataAgrees(x, o2, a)'
  <2> SUFFICES ASSUME Running(y)' PROVE DataRun(o2, R, Pipe(y)', z) /\ z \in DataPlaces
    BY <1>6 DEF DataAgrees
  <2>1. Running(y)
    BY DEF Running
  <2>2. DataRun(o, R, Pipe(y), SenderPlace(x, o))
    BY <1>2, <2>1 DEF DataAgrees, R
  <2>3. DataRun(o2, R, Pipe(y), SenderPlace(x, o))
    BY <1>1, <2>2, DataRunMore
  <2>4. DataRun(o2, SenderPlace(x, o), xs, z)
    BY DEF z
  <2>5. DataRun(o2, R, Pipe(y) \o xs, z)
    BY <1>1, <2>3, <2>4, DataRunOn
  <2> QED
    BY <2>5 DEF z
<1>9. AcksAgree(x, o2, a)'
  <2>1. PICK q \in AckPlaces : /\ AckRun(o, arrived, AckedPlace(x, o), Pipe(x), q)
                               /\ NotAhead(q, SenderPlace(x, o))
                               /\ (Running(y) => q = AckingPlace(x, a))
    BY <1>2 DEF AcksAgree
  <2>2. AckRun(o2, arrived, AckedPlace(x, o), Pipe(x), q)
    BY <1>1, <2>1, AckRunMore
  <2>3. NotAhead(q, z)
    <3>1. z \in DataPlaces /\ DataRun(o2, SenderPlace(x, o), xs, z)
      BY DEF z
    <3> QED
      BY <1>3, <1>5, <2>1, <3>1, AheadStays
  <2>4. Running(y)' => Running(y)
    BY DEF Running
  <2> QED
    BY <1>6, <2>1, <2>2, <2>3, <2>4 DEF AcksAgree
<1> QED
  BY <1>5, <1>7, <1>8, <1>9 DEF InStep

\* x writes something that its own place as a receiver goes with.
LEMMA ReceiverMoves ==
    ASSUME TypeOK, NEW x \in Sides, NEW y, y = Peer(x), NEW o \in Seq(Bundles), NEW a \in Nat,
           InStep(y, o, a), Running(x), conn' = conn, arrived' = arrived,
           inflight'[y] = inflight[y], current'[y] = current[y], sendTodo'[y] = sendTodo[y],
           NEW xs \in Seq(Items), Pipe(y)' = Pipe(y) \o xs, Pipe(x)' = Pipe(x),
           recvTodo'[x] = recvTodo[x], NEW a2 \in Nat,
           IncomingOK(o, arrived, a2, incoming'[x], recvTodo[x]),
           incoming[x] = <<>> => incoming'[x] = <<>> /\ a2 = a,
           ReceiveAt(o, a2, incoming'[x], recvTodo[x]) = ReceiveAt(o, a, incoming[x], recvTodo[x]),
           AckRun(o, arrived, AcksAt(a, incoming[x]), xs, AcksAt(a2, incoming'[x])),
           incoming'[x] \in Seq(Incomings)
    PROVE  InStep(y, o, a2)'
<1>1. /\ y \in Sides /\ Peer(y) = x /\ y # x
      /\ incoming[x] \in Seq(Incomings) /\ recvTodo[x] \in Nat /\ arrived \in [Bundles -> Nat]
      /\ Pipe(x) \in Seq(Items) /\ Pipe(y) \in Seq(Items)
  <2>1. y \in Sides /\ Peer(y) = x /\ y # x
    BY PeerIs
  <2> QED
    BY <2>1, EndsType
<1>2. EndsOK(y, o, a) /\ DataAgrees(y, o, a) /\ AcksAgree(y, o, a)
  BY DEF InStep
<1>3. /\ FlightsOK(o, arrived, inflight[y], current[y], sendTodo[y])
      /\ (conn[x] = "initiated" => incoming[x] = <<>> /\ a = 1)
  BY <1>1, <1>2 DEF EndsOK
<1> DEFINE z == AcksAt(a2, incoming'[x])
<1> HIDE DEF z
<1>4. ReceiverPlace(y, o, a2)' = ReceiverPlace(y, o, a)
      /\ SenderPlace(y, o)' = SenderPlace(y, o) /\ AckedPlace(y, o)' = AckedPlace(y, o)
      /\ AckingPlace(y, a2)' = z
  BY <1>1 DEF ReceiverPlace, SenderPlace, AckedPlace, AckingPlace, z
<1>5. EndsOK(y, o, a2)'
  BY <1>1, <1>3 DEF EndsOK
<1>6. DataAgrees(y, o, a2)'
  <2>1. \A s \in Sides : Running(s)' <=> Running(s)
    BY DEF Running
  <2> QED
    BY <1>1, <1>2, <1>4, <2>1 DEF DataAgrees
<1>7. AcksAgree(y, o, a2)'
  <2> SUFFICES ASSUME Running(y)'
               PROVE  /\ AckRun(o, arrived, AckedPlace(y, o), Pipe(y)', z)
                      /\ NotAhead(z, SenderPlace(y, o)) /\ z \in AckPlaces
    BY <1>1, <1>4 DEF AcksAgree
  <2>1. Running(y)
    BY DEF Running
  <2>2. PICK q \in AckPlaces : /\ AckRun(o, arrived, AckedPlace(y, o), Pipe(y), q)
                               /\ NotAhead(q, SenderPlace(y, o)) /\ q = AckingPlace(y, a)
    BY <1>1, <1>2, <2>1 DEF AcksAgree
  <2>3. AckRun(o, arrived, q, xs, z)
    BY <1>1, <2>2 DEF AckingPlace, z
  <2>4. AckRun(o, arrived, AckedPlace(y, o), Pipe(y) \o xs, z)
    BY <1>1, <2>2, <2>3, AckRunOn
  <2>5. z \in AckPlaces /\ NotAhead(z, ReceiveAt(o, a2, incoming'[x], recvTodo[x]))
    BY <1>1, ReceiveAtType, AcksNotAhead DEF z
  <2>6. SenderPlace(y, o) \in DataPlaces /\ SenderPlace(y, o).i > 0
    BY <1>1, <1>2, PlacesType
  <2>7. CASE conn[x] = "initiated"
    <3>1. incoming'[x] = <<>> /\ a2 = 1
      BY <1>3, <2>7
    <3>2. z = Mark(1, 0)
      BY <3>1 DEF z, AcksAt
    <3> QED
      BY <2>4, <2>5, <2>6, <3>2 DEF NotAhead, Mark, DataPlaces
  <2>8. CASE conn[x] # "initiated"
    <3>1. ReceiverPlace(y, o, a) = ReceiveAt(o, a, incoming[x], recvTodo[x])
      BY <1>1, <2>8 DEF ReceiverPlace
    <3>2. DataRun(o, ReceiverPlace(y, o, a), Pipe(x), SenderPlace(y, o))
      BY <1>1, <1>2, <2>1 DEF DataAgrees
    <3> DEFINE R == ReceiveAt(o, a, incoming[x], recvTodo[x])
    <3>3. R \in DataPlaces /\ R.i > 0
      BY <1>1, <1>2, ReceiveAtType DEF EndsOK
    <3>4. NotAhead(z, R)
      BY <2>5
    <3> HIDE DEF R
    <3>5. DataRun(o, R, Pipe(x), SenderPlace(y, o))
      BY <3>1, <3>2 DEF R
    <3> QED
      BY <1>1, <2>4, <2>5, <2>6, <3>3, <3>4, <3>5, AheadStays
  <2> QED
    BY <2>7, <2>8
<1> QED
  BY <1>5, <1>6, <1>7 DEF InStep

\* x has taken an item of which its own transfer makes something.
LEMMA SenderTakes ==
    ASSUME TypeOK, NEW x \in Sides, NEW y, y = Peer(x), NEW o \in Seq(Bundles), NEW a \in Nat,
           InStep(x, o, a), Running(x), \A s \in Sides : Running(s)' => Running(s),
           Pipe(x) # <<>>, Pipe(x)' = Tail(Pipe(x)), Pipe(y)' = Pipe(y),
           Grows(arrived, arrived'),
           conn'[y] = conn[y], incoming'[y] = incoming[y], recvTodo'[y] = recvTodo[y],
           SendAt(o, inflight'[x], sendTodo'[x]) = SenderPlace(x, o),
           \A q \in AckPlaces :
              AckStep(o, arrived, AckedPlace(x, o), Head(Pipe(x)), q) /\ NotAhead(q, SenderPlace(x, o))
              => /\ FlightsOK(o, arrived', inflight'[x], current'[x], sendTodo'[x])
                 /\ AckedAt(o, inflight'[x], sendTodo'[x]) = q
    PROVE  InStep(x, o, a)'
<1>1. /\ y \in Sides /\ Peer(y) = x /\ y # x
      /\ incoming[y] \in Seq(Incomings) /\ recvTodo[y] \in Nat
      /\ arrived \in [Bundles -> Nat] /\ Pipe(x) \in Seq(Items) /\ Pipe(y) \in Seq(Items)
  BY EndsType
<1>2. EndsOK(x, o, a) /\ DataAgrees(x, o, a) /\ AcksAgree(x, o, a)
  BY DEF InStep
<1>3. PICK p \in AckPlaces : /\ AckRun(o, arrived, AckedPlace(x, o), Pipe(x), p)
                             /\ NotAhead(p, SenderPlace(x, o))
                             /\ (Running(y) => p = AckingPlace(x, a))
  BY <1>2 DEF AcksAgree
<1>4. PICK q \in AckPlaces : /\ AckStep(o, arrived, AckedPlace(x, o), Head(Pipe(x)), q)
                             /\ AckRun(o, arrived, q, Tail(Pipe(x)), p)
  BY <1>1, <1>3, AckRunHead
<1>5. Tail(Pipe(x)) \in Seq(Items) /\ SenderPlace(x, o) \in DataPlaces
  BY <1>1, <1>2, PlacesType, TailIs
<1>6. NotAhead(q, SenderPlace(x, o))
  BY <1>3, <1>4, <1>5, AckRunBehind
<1>7. /\ FlightsOK(o, arrived', inflight'[x], current'[x], sendTodo'[x])
      /\ AckedAt(o, inflight'[x], sendTodo'[x]) = q
  BY <1>4, <1>6
<1>8. IncomingOK(o, arrived', a, incoming[y], recvTodo[y])
  BY <1>1, <1>2, IncomingGrows DEF EndsOK, Grows
<1>9. AckRun(o, arrived', q, Tail(Pipe(x)), p)
  BY <1>4, <1>5, AckRunGrows
<1>10. SenderPlace(x, o)' = SenderPlace(x, o) /\ AckedPlace(x, o)' = q
       /\ ReceiverPlace(x, o, a)' = ReceiverPlace(x, o, a) /\ AckingPlace(x, a)' = AckingPlace(x, a)
  BY <1>7 DEF SenderPlace, AckedPlace, ReceiverPlace, AckingPlace
<1>11. EndsOK(x, o, a)'
  BY <1>2, <1>7, <1>8 DEF EndsOK
<1>12. DataAgrees(x, o, a)'
  <2>1. Running(y)' => Running(y)
    BY <1>1
  <2> QED
    BY <1>2, <1>10, <2>1 DEF DataAgrees
<1>13. AcksAgree(x, o, a)'
  <2>1. Running(y)' => Running(y)
    BY <1>1
  <2> QED
    BY <1>3, <1>9, <1>10, <2>1 DEF AcksAgree
<1> QED
  BY <1>11, <1>12, <1>13 DEF InStep

\* x has taken an item as a receiver.
LEMMA ReceiverTakes ==
    ASSUME TypeOK, NEW x \in Sides, NEW y, y = Peer(x), NEW o \in Seq(Bundles), NEW a \in Nat,
           InStep(y, o, a), Running(x), conn'[x] = "up", conn'[y] = conn[y],
           Pipe(x) # <<>>, Pipe(x)' = Tail(Pipe(x)), Pipe(y)' = Pipe(y),
           Grows(arrived, arrived'),
           inflight'[y] = inflight[y], current'[y] = current[y], sendTodo'[y] = sendTodo[y],
           \A q \in DataPlaces :
              DataStep(o, ReceiverPlace(y, o, a), Head(Pipe(x)), q)
              => /\ IncomingOK(o, arrived', a, incoming'[x], recvTodo'[x])
                 /\ ReceiveAt(o, a, incoming'[x], recvTodo'[x]) = q
                 /\ AcksAt(a, incoming'[x]) = AcksAt(a, incoming[x])
    PROVE  InStep(y, o, a)'
<1>1. y \in Sides /\ Peer(y) = x /\ y # x
  BY PeerIs
<1>2. /\ inflight[y] \in Seq(Flights) /\ current[y] \in Bundles \cup {NoBundle}
      /\ sendTodo[y] \in Nat
      /\ arrived \in [Bundles -> Nat] /\ Pipe(x) \in Seq(Items) /\ Pipe(y) \in Seq(Items)
  BY <1>1, EndsType
<1>3. EndsOK(y, o, a) /\ DataAgrees(y, o, a) /\ AcksAgree(y, o, a)
  BY DEF InStep
<1>4. PICK p \in DataPlaces : /\ DataRun(o, ReceiverPlace(y, o, a), Pipe(x), p)
                              /\ (Running(y) => p = SenderPlace(y, o))
  BY <1>1, <1>3 DEF DataAgrees
<1>5. PICK q \in DataPlaces : /\ DataStep(o, ReceiverPlace(y, o, a), Head(Pipe(x)), q)
                              /\ DataRun(o, q, Tail(Pipe(x)), p)
  BY <1>2, <1>4, DataRunHead
<1>6. /\ IncomingOK(o, arrived', a, incoming'[x], recvTodo'[x])
      /\ ReceiveAt(o, a, incoming'[x], recvTodo'[x]) = q
      /\ AcksAt(a, incoming'[x]) = AcksAt(a, incoming[x])
  BY <1>5
<1>7. SenderPlace(y, o)' = SenderPlace(y, o) /\ AckedPlace(y, o)' = AckedPlace(y, o)
      /\ ReceiverPlace(y, o, a)' = q /\ AckingPlace(y, a)' = AckingPlace(y, a)
  BY <1>1, <1>6 DEF SenderPlace, AckedPlace, ReceiverPlace, AckingPlace
<1>8. Running(y)' <=> Running(y)
  BY DEF Running
<1>9. EndsOK(y, o, a)'
  <2>1. FlightsOK(o, arrived', inflight[y], current[y], sendTodo[y])
    BY <1>2, <1>3, FlightsGrow DEF EndsOK
  <2> QED
    BY <1>1, <1>6, <2>1 DEF EndsOK
<1>10. DataAgrees(y, o, a)'
  BY <1>1, <1>4, <1>5, <1>7, <1>8 DEF DataAgrees
<1>11. AcksAgree(y, o, a)'
  <2> SUFFICES ASSUME Running(y)
               PROVE  \E m \in AckPlaces : /\ AckRun(o, arrived', AckedPlace(y, o), Pipe(y), m)
                                           /\ NotAhead(m, SenderPlace(y, o))
                                           /\ m = AckingPlace(y, a)
    BY <1>1, <1>7, <1>8 DEF AcksAgree
  <2>1. PICK m \in AckPlaces : /\ AckRun(o, arrived, AckedPlace(y, o), Pipe(y), m)
                               /\ NotAhead(m, SenderPlace(y, o)) /\ m = AckingPlace(y, a)
    BY <1>1, <1>3 DEF AcksAgree
  <2>2. AckRun(o, arrived', AckedPlace(y, o), Pipe(y), m)
    BY <1>2, <2>1, AckRunGrows
  <2> QED
    BY <2>1, <2>2
<1> QED
  BY <1>9, <1>10, <1>11 DEF InStep

\* x does not run any more: what it has written leads somewhere.
LEMMA SenderStops ==
    ASSUME TypeOK, NEW x \in Sides, NEW y, y = Peer(x), NEW o \in Seq(Bundles), NEW a \in Nat,
           InStep(x, o, a), ~Running(x)', conn'[y] = conn[y], arrived' = arrived,
           incoming'[y] = incoming[y], recvTodo'[y] = recvTodo[y],
           FlightsOK(o, arrived, inflight'[x], current'[x], sendTodo'[x]),
           Running(y) => \E q \in DataPlaces : DataRun(o, ReceiverPlace(x, o, a), Pipe(y)', q)
    PROVE  InStep(x, o, a)'
<1>1. EndsOK(x, o, a) /\ y \in Sides
  BY PeerIs DEF InStep
<1>2. ReceiverPlace(x, o, a)' = ReceiverPlace(x, o, a)
  BY DEF ReceiverPlace
<1>3. Running(y)' => Running(y)
  BY DEF Running
<1>4. EndsOK(x, o, a)'
  BY <1>1 DEF EndsOK
<1>5. DataAgrees(x, o, a)'
  BY <1>2, <1>3 DEF DataAgrees
<1>6. AcksAgree(x, o, a)'
  BY DEF AcksAgree
<1> QED
  BY <1>4, <1>5, <1>6 DEF InStep

\* And what it has acknowledged leads its peer somewhere.
LEMMA ReceiverStops ==
    ASSUME TypeOK, NEW x \in Sides, NEW y, y = Peer(x), NEW o \in Seq(Bundles), NEW a \in Nat,
           InStep(y, o, a), ~Running(x)', conn'[x] # "initiated", conn'[y] = conn[y],
           arrived' = arrived,
           inflight'[y] = inflight[y], current'[y] = current[y], sendTodo'[y] = sendTodo[y],
           IncomingOK(o, arrived, a, incoming'[x], recvTodo'[x]),
           Running(y) => \E q \in AckPlaces : /\ AckRun(o, arrived, AckedPlace(y, o), Pipe(y)', q)
                                              /\ NotAhead(q, SenderPlace(y, o))
    PROVE  InStep(y, o, a)'
<1>1. EndsOK(y, o, a) /\ y \in Sides /\ Peer(y) = x
  BY PeerIs DEF InStep
<1>2. SenderPlace(y, o)' = SenderPlace(y, o) /\ AckedPlace(y, o)' = AckedPlace(y, o)
  BY DEF SenderPlace, AckedPlace
<1>3. Running(y)' => Running(y)
  BY DEF Running
<1>4. EndsOK(y, o, a)'
  BY <1>1 DEF EndsOK
<1>5. DataAgrees(y, o, a)'
  BY <1>1 DEF DataAgrees
<1>6. AcksAgree(y, o, a)'
  BY <1>1, <1>2, <1>3 DEF AcksAgree
<1> QED
  BY <1>4, <1>5, <1>6 DEF InStep

\* x goes on receiving, and writes something that is no acknowledgement.
LEMMA ReceiverStays ==
    ASSUME TypeOK, NEW x \in Sides, NEW y, y = Peer(x), NEW o \in Seq(Bundles), NEW a \in Nat,
           InStep(y, o, a), Running(x), conn' = conn, arrived' = arrived,
           inflight'[y] = inflight[y], current'[y] = current[y], sendTodo'[y] = sendTodo[y],
           NEW xs \in Seq(Items), \A j \in 1..Len(xs) : xs[j].type # "ack",
           Pipe(y)' = Pipe(y) \o xs, Pipe(x)' = Pipe(x),
           recvTodo'[x] = recvTodo[x], incoming'[x] = incoming[x]
    PROVE  InStep(y, o, a)'
<1>1. y \in Sides /\ Peer(y) = x
  BY PeerIs
<1>2. incoming[x] \in Seq(Incomings) /\ recvTodo[x] \in Nat /\ arrived \in [Bundles -> Nat]
  BY DEF TypeOK
<1>3. IncomingOK(o, arrived, a, incoming[x], recvTodo[x])
  BY <1>1 DEF InStep, EndsOK
<1>4. AcksAt(a, incoming[x]) \in AckPlaces
  BY <1>2, <1>3, ReceiveAtType
<1>5. AckRun(o, arrived, AcksAt(a, incoming[x]), xs, AcksAt(a, incoming[x]))
  BY <1>4, NoAckRun
<1> QED
  BY <1>2, <1>3, <1>5, ReceiverMoves

-----------------------------------------------------------------------------
(* What is sent and given once.                                            *)

LEMMA SentOnceStays ==
    ASSUME NEW s \in Sides, NEW o \in Seq(Bundles), SentOnce(s, o), Running(s)' => Running(s),
           queue'[s] = queue[s],
           Unsent(inflight'[s], sendTodo'[s]) =>
              Unsent(inflight[s], sendTodo[s]) /\ Last(inflight'[s]).bundle = Last(inflight[s]).bundle
    PROVE  SentOnce(s, o)'
BY DEF SentOnce

LEMMA NotYetGivenStays ==
    ASSUME NEW s \in Sides, NEW t, t = Peer(s), NEW o \in Seq(Bundles), NEW a \in Nat,
           NotYetGiven(s, o, a), conn'[t] # "closed" => conn[t] # "closed",
           received'[t] = received[t], contacts' = contacts, NEW a2 \in Nat,
           ReceiveAt(o, a2, incoming'[t], recvTodo'[t]).i = ReceiveAt(o, a, incoming[t], recvTodo[t]).i
    PROVE  NotYetGiven(s, o, a2)'
<1> DEFINE done == ReceiveAt(o, a, incoming[t], recvTodo[t]).i
<1>1. ReceiveAt(o, a2, incoming'[t], recvTodo'[t]).i = done
  OBVIOUS
<1>2. \A b \in Bundles : Events(t, b)' = Events(t, b)
  BY DEF Events
<1>3. conn[t] # "closed" => \A b \in Bundles : (\A j \in 1..Len(o) : o[j] = b => j >= done) =>
                                Cardinality(Events(t, b)) < contacts
  BY DEF NotYetGiven
<1> HIDE DEF done
<1> QED
  BY <1>1, <1>2, <1>3 DEF NotYetGiven

LEMMA NotYetGivenMore ==
    ASSUME TypeOK, NEW s \in Sides, NEW t, t = Peer(s), NEW o \in Seq(Bundles), NEW a \in Nat,
           EndsOK(s, o, a), NotYetGiven(s, o, a), conn' = conn, received' = received,
           contacts' = contacts, incoming'[t] = incoming[t], recvTodo'[t] = recvTodo[t],
           NEW o2, o2 = o \/ \E b \in Bundles : o2 = Append(o, b)
    PROVE  NotYetGiven(s, o2, a)'
<1>1. CASE o2 = o
  BY <1>1, NotYetGivenStays
<1>2. CASE \E b \in Bundles : o2 = Append(o, b)
  <2>1. PICK b \in Bundles : o2 = Append(o, b)
    BY <1>2
  <2> DEFINE I == incoming[t]
             w == recvTodo[t]
             done == ReceiveAt(o, a, I, w).i
  <2>2. I \in Seq(Incomings) /\ w \in Nat /\ arrived \in [Bundles -> Nat]
        /\ IncomingOK(o, arrived, a, I, w)
    BY EndsType DEF EndsOK
  <2>3. conn[t] # "closed" => \A c \in Bundles : (\A j \in 1..Len(o) : o[j] = c => j >= done) =>
                                  Cardinality(Events(t, c)) < contacts
    BY DEF NotYetGiven
  <2>4. incoming'[t] = I /\ recvTodo'[t] = w /\ conn'[t] = conn[t]
        /\ \A c \in Bundles : Events(t, c)' = Events(t, c)
    BY DEF Events
  <2>5. ReceiveAt(o2, a, I, w) = ReceiveAt(o, a, I, w)
    <3> HIDE DEF I, w
    <3>1. ReceiveAt(Append(o, b), a, I, w) = ReceiveAt(o, a, I, w)
      BY <2>1, <2>2, IncomingMore
    <3> QED
      BY <2>1, <3>1
  <2>6. ASSUME NEW c \in Bundles, NEW m, \A j \in 1..Len(o2) : o2[j] = c => j >= m
        PROVE  \A j \in 1..Len(o) : o[j] = c => j >= m
    BY <2>1, <2>6, Appended
  <2>7. ReceiveAt(o2, a, incoming'[t], recvTodo'[t]).i = done
    BY <2>4, <2>5
  <2> HIDE DEF done, I, w
  <2> QED
    BY <2>3, <2>4, <2>6, <2>7 DEF NotYetGiven
<1> QED
  BY <1>1, <1>2

\* The transfer from the peer when x goes on receiving.
LEMMA OtherStays ==
    ASSUME TypeOK, NEW x \in Sides, NEW y, y = Peer(x), Transfers(y), Running(x),
           conn' = conn, arrived' = arrived, received' = received, contacts' = contacts,
           queue'[y] = queue[y],
           inflight'[y] = inflight[y], current'[y] = current[y], sendTodo'[y] = sendTodo[y],
           NEW xs \in Seq(Items), \A j \in 1..Len(xs) : xs[j].type # "ack",
           Pipe(y)' = Pipe(y) \o xs, Pipe(x)' = Pipe(x),
           recvTodo'[x] = recvTodo[x], incoming'[x] = incoming[x]
    PROVE  Transfers(y)'
<1>1. PICK o \in Seq(Bundles), a \in Nat :
         InStep(y, o, a) /\ SentOnce(y, o) /\ NotYetGiven(y, o, a)
  BY DEF Transfers
<1>2. y \in Sides /\ Peer(y) = x
  BY PeerIs
<1>3. InStep(y, o, a)'
  BY <1>1, ReceiverStays
<1>4. SentOnce(y, o)'
  <2>1. Running(y)' => Running(y)
    BY DEF Running
  <2> QED
    BY <1>1, <1>2, <2>1, SentOnceStays
<1>5. NotYetGiven(y, o, a)'
  BY <1>1, <1>2, NotYetGivenStays
<1> QED
  BY <1>1, <1>3, <1>4, <1>5 DEF Transfers

\* The transfer from x when x goes on sending.
LEMMA OwnMoves ==
    ASSUME TypeOK, NEW x \in Sides, NEW o \in Seq(Bundles), NEW a \in Nat,
           InStep(x, o, a), NotYetGiven(x, o, a),
           NEW y, y = Peer(x), Running(x), conn' = conn, arrived' = arrived,
           received' = received, contacts' = contacts,
           incoming'[y] = incoming[y], recvTodo'[y] = recvTodo[y],
           NEW xs \in Seq(Items), Pipe(y)' = Pipe(y) \o xs, Pipe(x)' = Pipe(x),
           NEW o2, o2 = o \/ \E b \in Bundles : o2 = Append(o, b),
           FlightsOK(o2, arrived, inflight'[x], current'[x], sendTodo'[x]),
           DataRun(o2, SenderPlace(x, o), xs, SendAt(o2, inflight'[x], sendTodo'[x])),
           SendAt(o2, inflight'[x], sendTodo'[x]) \in DataPlaces,
           AckedAt(o2, inflight'[x], sendTodo'[x]) = AckedPlace(x, o),
           SentOnce(x, o2)'
    PROVE  Transfers(x)'
<1>1. InStep(x, o2, a)' /\ o2 \in Seq(Bundles)
  BY SenderMoves
<1>2. EndsOK(x, o, a)
  BY DEF InStep
<1>3. NotYetGiven(x, o2, a)'
  BY <1>2, NotYetGivenMore
<1> QED
  BY <1>1, <1>3 DEF Transfers

\* x writes something that moves neither its own place nor that of its peer:
\* nothing, a keepalive, or acknowledgements.
LEMMA OwnStays ==
    ASSUME TypeOK, NEW x \in Sides, Transfers(x),
           NEW y, y = Peer(x), Running(x), conn' = conn, arrived' = arrived,
           received' = received, contacts' = contacts, queue' = queue,
           incoming'[y] = incoming[y], recvTodo'[y] = recvTodo[y],
           NEW xs \in Seq(Items), Pipe(y)' = Pipe(y) \o xs, Pipe(x)' = Pipe(x),
           \A j \in 1..Len(xs) : xs[j].type \in {"ack", "keepalive", "shutdown"},
           xs # <<>> => sendTodo[x] = 0,
           inflight' = inflight, current' = current, sendTodo' = sendTodo
    PROVE  Transfers(x)'
<1>1. PICK o \in Seq(Bundles), a \in Nat :
         InStep(x, o, a) /\ SentOnce(x, o) /\ NotYetGiven(x, o, a)
  BY DEF Transfers
<1>2. EndsOK(x, o, a)
  BY <1>1 DEF InStep
<1>3. FlightsOK(o, arrived, inflight[x], current[x], sendTodo[x])
  BY <1>2 DEF EndsOK
<1>4. /\ SenderPlace(x, o) \in DataPlaces /\ SenderPlace(x, o).i > 0
      /\ (sendTodo[x] = 0 => SenderPlace(x, o).todo = 0)
  BY <1>2, PlacesType
<1>5. DataRun(o, SenderPlace(x, o), xs, SenderPlace(x, o))
  <2>1. CASE xs = <<>>
    BY <1>4, <2>1, DataRunNone
  <2>2. CASE xs # <<>>
    BY <1>4, <2>2, IdleRun
  <2> QED
    BY <2>1, <2>2
<1>6. /\ SendAt(o, inflight'[x], sendTodo'[x]) = SenderPlace(x, o)
      /\ AckedAt(o, inflight'[x], sendTodo'[x]) = AckedPlace(x, o)
  BY DEF SenderPlace, AckedPlace
<1>7. SentOnce(x, o)'
  <2>1. Running(x)' => Running(x)
    BY DEF Running
  <2> QED
    BY <1>1, <2>1, SentOnceStays
<1> QED
  BY <1>1, <1>3, <1>4, <1>5, <1>6, <1>7, OwnMoves

-----------------------------------------------------------------------------
(* The steps of the sender.                                                *)

LEMMA FrontLast ==
    ASSUME NEW S, NEW s \in Seq(S), s # <<>>
    PROVE  Front(s) \in Seq(S) /\ Last(s) \in S /\ Append(Front(s), Last(s)) = s
<1>1. Len(s) \in Nat /\ Len(s) > 0 /\ Len(s) - 1 \in 0..Len(s) /\ Last(s) = s[Len(s)] /\ Last(s) \in S
  BY TailIs
<1>2. Front(s) = SubSeq(s, 1, Len(s) - 1)
  BY DEF Front
<1>3. /\ Front(s) \in Seq(S) /\ Len(Front(s)) = Len(s) - 1
      /\ \A j \in 1..(Len(s) - 1) : Front(s)[j] = s[j]
  BY <1>1, <1>2, PrefixIs
<1> DEFINE t == Append(Front(s), Last(s))
<1>4. t \in Seq(S) /\ Len(t) = Len(s)
      /\ (\A k \in 1..(Len(s) - 1) : t[k] = Front(s)[k]) /\ t[Len(s)] = Last(s)
  BY <1>1, <1>3, AppendIs
<1> HIDE DEF t
<1>5. \A k \in 1..Len(s) : t[k] = s[k]
  BY <1>1, <1>3, <1>4
<1>6. t = s
  BY <1>4, <1>5, SeqEqual
<1> QED
  BY <1>1, <1>3, <1>6 DEF t

LEMMA NoAcks ==
    ASSUME NEW b \in Bundles, NEW at \in Nat, NEW n \in Nat,
           NEW header, header = <<>> \/ \E k \in Nat, u, v \in BOOLEAN : header = <<Segment(k, u, v)>>
    PROVE  LET xs == header \o Units(b, at + 1, at + n)
           IN  xs \in Seq(Items) /\ \A j \in 1..Len(xs) : xs[j].type # "ack"
<1> DEFINE us == Units(b, at + 1, at + n)
           xs == header \o us
<1>1. us \in Seq(Items) /\ Len(us) = n /\ \A j \in 1..n : us[j] = Unit(b, at + j)
  BY UnitsType
<1>2. \A j \in 1..n : us[j].type # "ack"
  <2> HIDE DEF us
  <2> QED
    BY <1>1 DEF Unit
<1>3. /\ header \in Seq(Items) /\ Len(header) \in Nat
      /\ \A j \in 1..Len(header) : header[j].type # "ack"
  <2>1. CASE header = <<>>
    BY <2>1
  <2>2. ASSUME NEW k \in Nat, NEW u \in BOOLEAN, NEW v \in BOOLEAN, header = <<Segment(k, u, v)>>
        PROVE  /\ header \in Seq(Items) /\ Len(header) \in Nat
               /\ \A j \in 1..Len(header) : header[j].type # "ack"
    <3>1. Segment(k, u, v) \in Items /\ Segment(k, u, v).type = "segment"
      BY DEF Segment, Items
    <3> QED
      BY <2>2, <3>1
  <2> QED
    BY <2>1, <2>2
<1> HIDE DEF us
<1>4. xs \in Seq(Items) /\ Len(xs) = Len(header) + Len(us)
      /\ \A j \in 1..(Len(header) + Len(us)) :
             xs[j] = IF j <= Len(header) THEN header[j] ELSE us[j - Len(header)]
  BY <1>1, <1>3
<1> HIDE DEF xs
<1>5. ASSUME NEW j \in 1..Len(xs) PROVE xs[j].type # "ack"
  <2>1. CASE j <= Len(header)
    BY <1>3, <1>4, <2>1
  <2>2. CASE ~(j <= Len(header))
    <3>1. j - Len(header) \in 1..n
      BY <1>1, <1>3, <1>4, <2>2
    <3> QED
      BY <1>2, <1>4, <2>2, <3>1
  <2> QED
    BY <2>1, <2>2
<1> QED
  BY <1>4, <1>5 DEF xs, us

\* The rest of a segment, or the header of the next one: o2 counts the bundle if
\* it is its first.
NextData(o, o2, f, todo1, todo, header) ==
    \/ todo1 = todo /\ o2 = o /\ header = <<>>
    \/ /\ todo1 = 0
       /\ \/ f.sent = 0 /\ o2 = Append(o, f.bundle)
          \/ f.sent # 0 /\ o2 = o
       /\ header = <<Segment(todo, f.sent = 0, todo = Length[f.bundle] - f.sent)>>

\* send_data_todo moves the transfer: in the middle of a segment, or with the
\* header of the next one.
LEMMA DataSent ==
    ASSUME TypeOK, NEW x \in Sides, NEW y, y = Peer(x), NEW o \in Seq(Bundles), NEW a \in Nat,
           InStep(x, o, a), NotYetGiven(x, o, a), Running(x), conn' = conn, arrived' = arrived,
           received' = received, contacts' = contacts, incoming' = incoming,
           recvTodo' = recvTodo, recvbuf' = recvbuf,
           NEW H \in Seq(Flights), NEW f \in Flights, NEW cur \in Bundles, current'[x] = cur,
           NEW todo1 \in Nat, NEW todo \in Nat, todo > 0, f.sent + todo <= Length[f.bundle],
           FlightsOK(o, arrived, Append(H, f), cur, todo1),
           SendAt(o, Append(H, f), todo1) = SenderPlace(x, o),
           AckedAt(o, Append(H, f), todo1) = AckedPlace(x, o),
           NEW o2, NEW header, NextData(o, o2, f, todo1, todo, header),
           SendDataTodo(x, H, f, header, todo),
           IsInjective(o2), ToSet(o2) \cap ToSet(queue'[x]) = {}
    PROVE  /\ Transfers(x)'
           /\ \E xs \in Seq(Items) : /\ \A j \in 1..Len(xs) : xs[j].type # "ack"
                                     /\ Pipe(y)' = Pipe(y) \o xs /\ Pipe(x)' = Pipe(x)
           /\ wire' \in [Sides -> Seq(Items)] /\ sendbuf' \in [Sides -> Seq(Items)]
           /\ \E n \in 0..todo :
                 /\ sendTodo' = Put(sendTodo, x, todo - n)
                 /\ inflight' = Put(inflight, x, Append(H, [f EXCEPT !.sent = @ + n]))
                 /\ Append(H, [f EXCEPT !.sent = @ + n]) \in Seq(Flights)
<1> DEFINE at == f.sent
           b == f.bundle
<1>1. at \in Nat /\ b \in Bundles /\ Length[b] \in Nat
  BY LengthType DEF Flights
<1>2. PICK n \in 0..todo :
         /\ FillAndSend(x, header \o Units(b, at + 1, at + n))
         /\ sendTodo' = Put(sendTodo, x, todo - n)
         /\ inflight' = Put(inflight, x, Append(H, [f EXCEPT !.sent = @ + n]))
  BY DEF SendDataTodo
<1> DEFINE xs == header \o Units(b, at + 1, at + n)
           F == Append(H, f)
           G == Append(H, [f EXCEPT !.sent = @ + n])
<1>3. n \in Nat /\ n <= todo
  BY <1>2
<1>4. arrived \in [Bundles -> Nat] /\ inflight \in [Sides -> Seq(Flights)]
      /\ sendTodo \in [Sides -> Nat] /\ current \in [Sides -> Bundles \cup {NoBundle}]
  BY DEF TypeOK
<1>5. inflight'[x] = G /\ sendTodo'[x] = todo - n
  BY <1>2, <1>4 DEF Put
<1>6. xs \in Seq(Items) /\ \A j \in 1..Len(xs) : xs[j].type # "ack"
  <2>1. header = <<>> \/ \E k \in Nat, u, v \in BOOLEAN : header = <<Segment(k, u, v)>>
    BY DEF NextData
  <2> QED
    BY <1>1, <1>3, <2>1, NoAcks
<1>7. o2 \in Seq(Bundles) /\ (o2 = o \/ \E c \in Bundles : o2 = Append(o, c))
  BY <1>1, Appended DEF NextData
<1>8. /\ G \in Seq(Flights) /\ FlightsOK(o2, arrived, G, cur, todo - n)
      /\ Len(o2) \in 1..Len(o2) /\ o2[Len(o2)] = b
      /\ SendAt(o, F, todo1) = Place(Len(o2), at, todo1)
      /\ SendAt(o2, G, todo - n) = After(o2, Len(o2), at + n, todo - n)
      /\ AckedAt(o2, G, todo - n) = AckedAt(o, F, todo1)
  <2> DEFINE e == [f EXCEPT !.sent = @ + n]
  <2>1. /\ e.bundle = f.bundle /\ e.sent = f.sent + n /\ e.acked = f.acked
        /\ e.posted = f.posted
    BY DEF Flights
  <2>2. e \in Flights
    <3>1. f.sent + n \in Nat
      BY <1>1, <1>3 DEF at
    <3> QED
      BY <3>1 DEF Flights
  <2>3. F = Append(H, f) /\ G = Append(H, e)
    OBVIOUS
  <2>4. \/ todo1 = todo /\ o2 = o
        \/ todo1 = 0 /\ f.sent = 0 /\ o2 = Append(o, f.bundle)
        \/ todo1 = 0 /\ f.sent # 0 /\ o2 = o
    BY DEF NextData
  <2> HIDE DEF e
  <2>5. /\ Append(H, e) \in Seq(Flights) /\ FlightsOK(o2, arrived, Append(H, e), cur, todo - n)
        /\ Len(o2) \in 1..Len(o2) /\ o2[Len(o2)] = f.bundle
        /\ SendAt(o, Append(H, f), todo1) = Place(Len(o2), f.sent, todo1)
        /\ SendAt(o2, Append(H, e), todo - n) = After(o2, Len(o2), f.sent + n, todo - n)
        /\ AckedAt(o2, Append(H, e), todo - n) = AckedAt(o, Append(H, f), todo1)
    <3>1. DataGoes(o, o2, arrived, H, f, e, cur, todo1, todo, n)
      <4> HIDE DEF F, G, at, b, xs
      <4> QED
        BY <1>3, <1>4, <1>7, <2>1, <2>2, <2>4 DEF DataGoes
    <3> QED
      BY <3>1, SendFlight
  <2> HIDE DEF F, G
  <2> QED
    BY <2>3, <2>5 DEF at, b
<1> HIDE DEF at, b, F
<1>9. SendAt(o2, G, todo - n) \in DataPlaces
  <2>1. at + n \in Nat /\ todo - n \in Nat /\ Len(o2) \in Nat
    BY <1>1, <1>3, <1>7
  <2> QED
    BY <1>8, <2>1, AfterType
<1>10. DataRun(o2, SenderPlace(x, o), xs, SendAt(o2, G, todo - n))
  <2> DEFINE i == Len(o2)
  <2>1. i \in 1..Len(o2) /\ o2[i] = b /\ at + todo <= Length[o2[i]]
    BY <1>8 DEF at, b
  <2>2. SenderPlace(x, o) = Place(i, at, todo1)
    BY <1>8 DEF F
  <2> HIDE DEF i
  <2>3. CASE todo1 = todo /\ header = <<>>
    <3>1. DataRun(o2, Place(i, at, todo), Units(o2[i], at + 1, at + n), After(o2, i, at + n, todo - n))
      BY <1>1, <1>3, <1>7, <2>1, UnitsRun
    <3>2. xs = Units(b, at + 1, at + n)
      <4>1. Units(b, at + 1, at + n) \in Seq(Items)
        BY <1>1, <1>3, UnitsType
      <4> DEFINE us == Units(b, at + 1, at + n)
      <4> HIDE DEF us
      <4>2. us \in Seq(Items)
        BY <4>1 DEF us
      <4>3. <<>> \o us = us
        BY <4>2, ConcatEmptySeq
      <4> QED
        BY <2>3, <4>3 DEF us
    <3> QED
      BY <1>8, <2>1, <2>2, <2>3, <3>1, <3>2 DEF i
  <2>4. CASE /\ todo1 = 0
             /\ header = <<Segment(todo, f.sent = 0, todo = Length[f.bundle] - f.sent)>>
    <3>1. DataRun(o2, Place(i, at, 0),
                  <<Segment(todo, at = 0, todo = Length[o2[i]] - at)>> \o Units(o2[i], at + 1, at + n),
                  After(o2, i, at + n, todo - n))
      BY <1>1, <1>3, <1>7, <2>1, SegmentRun
    <3>2. header = <<Segment(todo, at = 0, todo = Length[o2[i]] - at)>>
      BY <2>1, <2>4 DEF at, b
    <3> QED
      BY <1>8, <2>1, <2>2, <2>4, <3>1, <3>2 DEF i
  <2> QED
    BY <2>3, <2>4 DEF NextData
<1>11. Pipe(y)' = Pipe(y) \o xs /\ Pipe(x)' = Pipe(x)
       /\ wire' \in [Sides -> Seq(Items)] /\ sendbuf' \in [Sides -> Seq(Items)]
  BY <1>2, <1>6, SendPipe DEF at, b
<1>12. SentOnce(x, o2)'
  <2>1. ~Unsent(inflight'[x], sendTodo'[x])
    <3> SUFFICES ASSUME Unsent(G, todo - n) PROVE FALSE
      BY <1>5
    <3>1. Last(G).sent = 0 /\ todo - n = 0
      BY DEF Unsent
    <3>2. [f EXCEPT !.sent = @ + n] \in Flights /\ [f EXCEPT !.sent = @ + n].sent = f.sent + n
      <4>1. f.sent + n \in Nat
        BY <1>1, <1>3 DEF at
      <4> QED
        BY <4>1 DEF Flights
    <3>3. Last(G) = [f EXCEPT !.sent = @ + n]
      BY <3>2, AppendIs
    <3> DEFINE e == [f EXCEPT !.sent = @ + n]
    <3>4. e.sent = 0 /\ e.sent = at + n
      BY <3>1, <3>2, <3>3 DEF at
    <3> HIDE DEF e
    <3> QED
      BY <1>1, <1>3, <3>1, <3>4
  <2> QED
    BY <2>1 DEF SentOnce
<1> HIDE DEF xs, G
<1>13. Transfers(x)'
  <2>1. FlightsOK(o2, arrived, inflight'[x], current'[x], sendTodo'[x])
    BY <1>5, <1>8
  <2>2. DataRun(o2, SenderPlace(x, o), xs, SendAt(o2, inflight'[x], sendTodo'[x]))
    BY <1>5, <1>10
  <2>3. SendAt(o2, inflight'[x], sendTodo'[x]) \in DataPlaces
    BY <1>5, <1>9
  <2>4. AckedAt(o2, inflight'[x], sendTodo'[x]) = AckedPlace(x, o)
    BY <1>5, <1>8 DEF F
  <2>5. incoming'[y] = incoming[y] /\ recvTodo'[y] = recvTodo[y]
    OBVIOUS
  <2> QED
    BY <1>6, <1>7, <1>11, <1>12, <2>1, <2>2, <2>3, <2>4, <2>5, OwnMoves
<1> QED
  BY <1>2, <1>6, <1>8, <1>11, <1>13 DEF G

-----------------------------------------------------------------------------
(* What a step of side x does.                                             *)

Local(s) == ThreadOK(s) /\ ClosedOK(s) /\ QueueOK(s)

\* A side has no part in the step.
Kept(s) ==
    /\ queue'[s] = queue[s] /\ inflight'[s] = inflight[s] /\ current'[s] = current[s]
    /\ sendTodo'[s] = sendTodo[s] /\ sendbuf'[s] = sendbuf[s] /\ recvbuf'[s] = recvbuf[s]
    /\ incoming'[s] = incoming[s] /\ recvTodo'[s] = recvTodo[s]
    /\ pc'[s] = pc[s] /\ conn'[s] = conn[s]

\* A step of x keeps the two ends in step.
StepOK(x) == /\ TypeOK' /\ Kept(Peer(x)) /\ Local(x)'
             /\ Transfers(x)' /\ Transfers(Peer(x))'

LEMMA KeptLocal ==
    ASSUME NEW s, Local(s), Kept(s)
    PROVE  Local(s)'
<1>1. Running(s)' <=> Running(s)
  BY DEF Running, Kept
<1>2. ThreadOK(s)'
  BY <1>1 DEF ThreadOK, Local, Kept
<1>3. ClosedOK(s)'
  BY DEF ClosedOK, Local, Kept
<1>4. QueueOK(s)'
  BY DEF QueueOK, Local, Kept
<1> QED
  BY <1>2, <1>3, <1>4 DEF Local

LEMMA PutIs ==
    ASSUME NEW S, NEW T, NEW f \in [S -> T], NEW s \in S, NEW v \in T
    PROVE  /\ Put(f, s, v) \in [S -> T] /\ Put(f, s, v)[s] = v
           /\ \A t \in S : t # s => Put(f, s, v)[t] = f[t]
BY DEF Put

\* What the invariant says of the two transfers of x.
LEMMA StepFrom ==
    ASSUME IInv, NEW x \in Sides
    PROVE  /\ TypeOK /\ Peer(x) \in Sides /\ Peer(x) # x /\ Peer(Peer(x)) = x
           /\ Transfers(x) /\ Transfers(Peer(x)) /\ Local(x)
BY PeerIs DEF IInv, Local

\* The last of the bundles in flight is the current one.
LEMMA CurrentIs ==
    ASSUME NEW o \in Seq(Bundles), NEW r \in [Bundles -> Nat], NEW F \in Seq(Flights),
           NEW cur \in Bundles \cup {NoBundle}, NEW todo \in Nat,
           FlightsOK(o, r, F, cur, todo), cur # NoBundle
    PROVE  /\ cur \in Bundles /\ F # <<>> /\ Front(F) \in Seq(Flights) /\ Last(F) \in Flights
           /\ Append(Front(F), Last(F)) = F /\ Last(F).bundle = cur
           /\ todo > 0 => Last(F).sent + todo <= Length[Last(F).bundle]
           /\ Last(F).sent \in Nat /\ Last(F).sent <= Length[Last(F).bundle]
<1>1. cur \in Bundles /\ F # <<>> /\ Last(F).bundle = cur
      /\ (todo > 0 => Last(F).sent + todo <= Length[Last(F).bundle])
  BY DEF FlightsOK
<1>2. Front(F) \in Seq(Flights) /\ Last(F) \in Flights /\ Append(Front(F), Last(F)) = F
  BY <1>1, FrontLast
<1>3. Len(F) \in 1..Len(F) /\ Last(F) = F[Len(F)]
  BY <1>1, TailIs
<1>4. Last(F).sent \in Nat /\ Last(F).sent <= Length[Last(F).bundle]
  BY <1>3, FlightIs
<1> QED
  BY <1>1, <1>2, <1>4

\* The types of what a step that sends data changes.
LEMMA SentType ==
    ASSUME TypeOK, NEW x \in Sides, wire' \in [Sides -> Seq(Items)],
           sendbuf' \in [Sides -> Seq(Items)], sendTodo' \in [Sides -> Nat],
           inflight' \in [Sides -> Seq(Flights)], current' \in [Sides -> Bundles \cup {NoBundle}],
           queue' \in [Sides -> Seq(Bundles)],
           pc' \in [Sides -> {"loop", "acks", "next", "process"}],
           UNCHANGED <<receiving, conn, contacts, posted>>
    PROVE  TypeOK'
BY DEF TypeOK, receiving, posted

\* Neither a waiting bundle nor one in flight is there twice.
Apart(q, F) == IsInjective(q) /\ \A i \in DOMAIN F : F[i].bundle \notin ToSet(q)

\* What is left to show of a step that has sent data of bundle f.
LEMMA SentStep ==
    ASSUME IInv, NEW x \in Sides, NEW y, y = Peer(x), Running(x),
           UNCHANGED <<receiving, conn, contacts, posted>>,
           queue' \in [Sides -> Seq(Bundles)], queue'[y] = queue[y],
           current' \in [Sides -> Bundles \cup {NoBundle}], current'[y] = current[y],
           pc' \in [Sides -> {"loop", "acks", "next", "process"}], pc'[y] = pc[y],
           pc'[x] # "process", pc'[x] \in {"acks", "next"} => sendTodo'[x] = 0,
           NEW H \in Seq(Flights), NEW f \in Flights, Apart(queue'[x], Append(H, f)),
           NEW todo \in Nat,
           Transfers(x)',
           \E xs \in Seq(Items) : /\ \A j \in 1..Len(xs) : xs[j].type # "ack"
                                  /\ Pipe(y)' = Pipe(y) \o xs /\ Pipe(x)' = Pipe(x),
           wire' \in [Sides -> Seq(Items)], sendbuf' \in [Sides -> Seq(Items)],
           sendbuf'[y] = sendbuf[y],
           \E n \in 0..todo :
              /\ sendTodo' = Put(sendTodo, x, todo - n)
              /\ inflight' = Put(inflight, x, Append(H, [f EXCEPT !.sent = @ + n]))
              /\ Append(H, [f EXCEPT !.sent = @ + n]) \in Seq(Flights)
    PROVE  StepOK(x)
<1>1. TypeOK /\ Transfers(y) /\ Local(x) /\ y \in Sides /\ y # x
  BY StepFrom
<1>2. PICK n \in 0..todo :
         /\ sendTodo' = Put(sendTodo, x, todo - n)
         /\ inflight' = Put(inflight, x, Append(H, [f EXCEPT !.sent = @ + n]))
         /\ Append(H, [f EXCEPT !.sent = @ + n]) \in Seq(Flights)
  OBVIOUS
<1> DEFINE e == [f EXCEPT !.sent = @ + n]
           G == Append(H, e)
<1>3. /\ sendTodo \in [Sides -> Nat] /\ inflight \in [Sides -> Seq(Flights)]
      /\ todo - n \in Nat /\ G \in Seq(Flights) /\ inflight' = Put(inflight, x, G)
  <2>1. sendTodo \in [Sides -> Nat] /\ inflight \in [Sides -> Seq(Flights)]
    BY <1>1 DEF TypeOK
  <2>2. todo - n \in Nat
    BY <1>2
  <2> QED
    BY <1>2, <2>1, <2>2
<1>4. /\ sendTodo' \in [Sides -> Nat] /\ inflight' \in [Sides -> Seq(Flights)]
      /\ inflight'[x] = G /\ inflight'[y] = inflight[y] /\ sendTodo'[y] = sendTodo[y]
  <2> HIDE DEF G
  <2>1. inflight' \in [Sides -> Seq(Flights)] /\ inflight'[x] = G /\ inflight'[y] = inflight[y]
    BY <1>1, <1>3 DEF Put
  <2>2. sendTodo' \in [Sides -> Nat] /\ sendTodo'[y] = sendTodo[y]
    <3>1. sendTodo' = Put(sendTodo, x, todo - n)
      BY <1>2
    <3> QED
      BY <1>1, <1>3, <3>1 DEF Put
  <2> QED
    BY <2>1, <2>2
<1>5. TypeOK'
  BY <1>1, <1>4, SentType
<1>6. /\ recvbuf' = recvbuf /\ incoming' = incoming /\ recvTodo' = recvTodo /\ conn' = conn
      /\ contacts' = contacts /\ received' = received /\ arrived' = arrived
  BY DEF receiving, posted
<1>7. Kept(y)
  BY <1>4, <1>6 DEF Kept
<1>8. Transfers(y)'
  <2>1. PICK xs \in Seq(Items) : /\ \A j \in 1..Len(xs) : xs[j].type # "ack"
                                 /\ Pipe(y)' = Pipe(y) \o xs /\ Pipe(x)' = Pipe(x)
    OBVIOUS
  <2>2. /\ queue'[y] = queue[y] /\ inflight'[y] = inflight[y] /\ current'[y] = current[y]
        /\ sendTodo'[y] = sendTodo[y] /\ recvTodo'[x] = recvTodo[x] /\ incoming'[x] = incoming[x]
    BY <1>4, <1>6
  <2> QED
    BY <1>1, <1>6, <2>1, <2>2, OtherStays
<1>9. ThreadOK(x)'
  BY <1>1, <1>6 DEF ThreadOK, Local, Running
<1>10. ClosedOK(x)'
  BY <1>6 DEF ClosedOK, Running
<1>11. QueueOK(x)'
  <2>1. e.bundle = f.bundle
    BY DEF Flights
  <2>2. /\ Len(H) \in Nat /\ Append(H, f)[Len(H) + 1] = f /\ G[Len(H) + 1] = e
        /\ DOMAIN G = 1..(Len(H) + 1) /\ DOMAIN Append(H, f) = 1..(Len(H) + 1)
        /\ \A k \in 1..Len(H) : G[k] = H[k] /\ Append(H, f)[k] = H[k]
    <3> HIDE DEF e
    <3> QED
      OBVIOUS
  <2> HIDE DEF e, G
  <2>3. ASSUME NEW k \in 1..(Len(H) + 1) PROVE G[k].bundle = Append(H, f)[k].bundle
    <3>1. CASE k = Len(H) + 1
      BY <2>1, <2>2, <3>1
    <3>2. CASE k # Len(H) + 1
      <4>1. k \in 1..Len(H)
        BY <2>2, <3>2
      <4> QED
        BY <2>2, <4>1
    <3> QED
      BY <3>1, <3>2
  <2>4. DOMAIN inflight'[x] = 1..(Len(H) + 1) /\ inflight'[x] = G
    BY <1>4, <2>2
  <2> QED
    BY <2>2, <2>3, <2>4 DEF QueueOK, Apart
<1> QED
  BY <1>5, <1>7, <1>8, <1>9, <1>10, <1>11 DEF StepOK, Local

LEMMA ContinueSegmentStep ==
    ASSUME IInv, NEW x \in Sides, ContinueSegment(x)
    PROVE  StepOK(x)
<1> DEFINE y == Peer(x)
           F == inflight[x]
           todo == sendTodo[x]
<1>1. TypeOK /\ Transfers(x) /\ Transfers(y) /\ Local(x) /\ y \in Sides /\ y # x /\ Peer(y) = x
  BY StepFrom
<1>2. /\ pc[x] = "loop" /\ Running(x) /\ todo > 0
      /\ SendDataTodo(x, Front(F), Last(F), <<>>, todo)
      /\ pc' = Put(pc, x, IF sendTodo'[x] = 0 THEN "acks" ELSE "loop")
      /\ queue' = queue /\ current' = current /\ recvbuf' = recvbuf /\ incoming' = incoming
      /\ recvTodo' = recvTodo /\ conn' = conn /\ contacts' = contacts
      /\ received' = received /\ arrived' = arrived
      /\ UNCHANGED <<receiving, conn, contacts, posted>>
  BY DEF ContinueSegment, receiving, posted
<1>3. PICK o \in Seq(Bundles), a \in Nat : InStep(x, o, a) /\ SentOnce(x, o) /\ NotYetGiven(x, o, a)
  BY <1>1 DEF Transfers
<1>4. F \in Seq(Flights) /\ current[x] \in Bundles \cup {NoBundle} /\ todo \in Nat
      /\ arrived \in [Bundles -> Nat]
  BY <1>1, EndsType
<1>5. FlightsOK(o, arrived, F, current[x], todo) /\ current[x] # NoBundle
  BY <1>2, <1>3 DEF InStep, EndsOK, FlightsOK
<1> DEFINE H == Front(F)
           f == Last(F)
<1>6. /\ current[x] \in Bundles /\ F # <<>> /\ H \in Seq(Flights) /\ f \in Flights
      /\ Append(H, f) = F /\ f.bundle = current[x] /\ f.sent + todo <= Length[f.bundle]
  BY <1>2, <1>3, <1>4, <1>5, CurrentIs
<1>7. SendAt(o, F, todo) = SenderPlace(x, o) /\ AckedAt(o, F, todo) = AckedPlace(x, o)
  BY DEF SenderPlace, AckedPlace
<1>8. IsInjective(o) /\ ToSet(o) \cap ToSet(queue'[x]) = {}
  BY <1>2, <1>3 DEF SentOnce
<1> HIDE DEF y, F, todo, H, f
<1>9. /\ Transfers(x)'
      /\ \E xs \in Seq(Items) : /\ \A j \in 1..Len(xs) : xs[j].type # "ack"
                                /\ Pipe(y)' = Pipe(y) \o xs /\ Pipe(x)' = Pipe(x)
      /\ wire' \in [Sides -> Seq(Items)] /\ sendbuf' \in [Sides -> Seq(Items)]
      /\ \E n \in 0..todo :
            /\ sendTodo' = Put(sendTodo, x, todo - n)
            /\ inflight' = Put(inflight, x, Append(H, [f EXCEPT !.sent = @ + n]))
            /\ Append(H, [f EXCEPT !.sent = @ + n]) \in Seq(Flights)
  <2>1. /\ FlightsOK(o, arrived, Append(H, f), current[x], todo)
        /\ NextData(o, o, f, todo, todo, <<>>)
        /\ SendAt(o, Append(H, f), todo) = SenderPlace(x, o)
        /\ AckedAt(o, Append(H, f), todo) = AckedPlace(x, o)
        /\ current'[x] = current[x] /\ SendDataTodo(x, H, f, <<>>, todo) /\ y = Peer(x)
    BY <1>2, <1>5, <1>6, <1>7 DEF H, f, F, todo, y, NextData
  <2> QED
    BY <1>1, <1>2, <1>3, <1>4, <1>6, <1>8, <2>1, DataSent
<1>10. /\ pc' \in [Sides -> {"loop", "acks", "next", "process"}] /\ pc'[y] = pc[y]
       /\ pc'[x] # "process" /\ (pc'[x] \in {"acks", "next"} => sendTodo'[x] = 0)
  BY <1>1, <1>2 DEF TypeOK, Put
<1>11. /\ queue' \in [Sides -> Seq(Bundles)] /\ queue'[y] = queue[y]
       /\ current' \in [Sides -> Bundles \cup {NoBundle}] /\ current'[y] = current[y]
  BY <1>1, <1>2 DEF TypeOK
<1>12. Apart(queue'[x], Append(H, f))
  BY <1>1, <1>2, <1>6 DEF Local, QueueOK, Apart, H, f, F
<1>13. sendbuf'[y] = sendbuf[y]
  BY <1>1, <1>2 DEF SendDataTodo, FillAndSend, Put, TypeOK
<1> QED
  <2>1. y = Peer(x)
    BY DEF y
  <2> QED
    BY <1>2, <1>4, <1>6, <1>9, <1>10, <1>11, <1>12, <1>13, <2>1, SentStep

\* A segment of the current bundle.
LEMMA SegmentIs ==
    ASSUME NEW f \in Flights, f.sent < Length[f.bundle]
    PROVE  LET left == Length[f.bundle] - f.sent
               n == Least(SegmentLength, left)
           IN  n \in Nat /\ n > 0 /\ f.sent + n <= Length[f.bundle]
<1> DEFINE u == f.sent
           v == Length[f.bundle]
<1>1. u \in Nat /\ v \in Nat /\ u < v
  BY LengthType DEF Flights
<1>2. SegmentLength \in Nat /\ SegmentLength > 0
  BY LengthsAssumption
<1> HIDE DEF u, v
<1>3. LET n == Least(SegmentLength, v - u) IN n \in Nat /\ n > 0 /\ u + n <= v
  BY <1>1, <1>2 DEF Least
<1> QED
  BY <1>3 DEF u, v

LEMMA SendNextSegmentStep ==
    ASSUME IInv, NEW x \in Sides, SendNextSegment(x)
    PROVE  StepOK(x)
<1> DEFINE y == Peer(x)
           F == inflight[x]
           H == Front(F)
           f == Last(F)
           left == Length[f.bundle] - f.sent
           todo == Least(SegmentLength, left)
           header == <<Segment(todo, f.sent = 0, todo = left)>>
           o2(o) == IF f.sent = 0 THEN Append(o, f.bundle) ELSE o
<1>1. TypeOK /\ Transfers(x) /\ Transfers(y) /\ Local(x) /\ y \in Sides /\ y # x /\ Peer(y) = x
  BY StepFrom
<1>2. /\ pc[x] = "next" /\ Running(x) /\ current[x] # NoBundle /\ f.sent < Length[f.bundle]
      /\ SendDataTodo(x, H, f, header, todo)
      /\ pc' = Put(pc, x, "loop")
      /\ queue' = queue /\ current' = current /\ recvbuf' = recvbuf /\ incoming' = incoming
      /\ recvTodo' = recvTodo /\ conn' = conn /\ contacts' = contacts
      /\ received' = received /\ arrived' = arrived
      /\ UNCHANGED <<receiving, conn, contacts, posted>>
  BY DEF SendNextSegment, SendSegment, receiving, posted
<1>3. PICK o \in Seq(Bundles), a \in Nat : InStep(x, o, a) /\ SentOnce(x, o) /\ NotYetGiven(x, o, a)
  BY <1>1 DEF Transfers
<1>4. F \in Seq(Flights) /\ current[x] \in Bundles \cup {NoBundle}
      /\ arrived \in [Bundles -> Nat] /\ sendTodo[x] = 0 /\ 0 \in Nat
  BY <1>1, <1>2, EndsType DEF Local, ThreadOK
<1>5. FlightsOK(o, arrived, F, current[x], 0)
  BY <1>3, <1>4 DEF InStep, EndsOK
<1>6. /\ current[x] \in Bundles /\ F # <<>> /\ H \in Seq(Flights) /\ f \in Flights
      /\ Append(H, f) = F /\ f.bundle = current[x]
  BY <1>2, <1>3, <1>4, <1>5, CurrentIs
<1>7. todo \in Nat /\ todo > 0 /\ f.sent + todo <= Length[f.bundle]
  BY <1>2, <1>6, SegmentIs
<1>8. SendAt(o, F, 0) = SenderPlace(x, o) /\ AckedAt(o, F, 0) = AckedPlace(x, o)
  BY <1>4 DEF SenderPlace, AckedPlace
<1>9. f.bundle \notin ToSet(queue[x])
  <2>1. Len(F) \in 1..Len(F) /\ f = F[Len(F)] /\ DOMAIN F = 1..Len(F)
    BY <1>4, <1>6, TailIs
  <2> QED
    BY <1>1, <2>1 DEF Local, QueueOK
<1>10. IsInjective(o2(o)) /\ ToSet(o2(o)) \cap ToSet(queue'[x]) = {}
  <2>1. IsInjective(o) /\ ToSet(o) \cap ToSet(queue[x]) = {}
    BY <1>2, <1>3 DEF SentOnce
  <2>2. CASE f.sent = 0
    <3>1. f.bundle \notin ToSet(o)
      BY <1>2, <1>3, <1>4, <1>6, <2>2 DEF SentOnce, Unsent
    <3>2. f.bundle \in Bundles
      BY <1>6
    <3> HIDE DEF f, F
    <3>3. IsInjective(Append(o, f.bundle)) /\ ToSet(Append(o, f.bundle)) = ToSet(o) \cup {f.bundle}
      BY <1>3, <2>1, <3>1, <3>2, InjectiveAppend, ElementsOfAppend
    <3> QED
      BY <1>2, <1>9, <2>1, <2>2, <3>3
  <2>3. CASE f.sent # 0
    BY <1>2, <2>1, <2>3
  <2> QED
    BY <2>2, <2>3
<1> DEFINE p == o2(o)
<1>12. NextData(o, p, f, sendTodo[x], todo, header)
  BY <1>4 DEF NextData
<1>13. IsInjective(p) /\ ToSet(p) \cap ToSet(queue'[x]) = {}
  BY <1>10
<1> HIDE DEF y, F, todo, H, f, left, header, p, o2
<1>14. /\ Transfers(x)'
      /\ \E xs \in Seq(Items) : /\ \A j \in 1..Len(xs) : xs[j].type # "ack"
                                /\ Pipe(y)' = Pipe(y) \o xs /\ Pipe(x)' = Pipe(x)
      /\ wire' \in [Sides -> Seq(Items)] /\ sendbuf' \in [Sides -> Seq(Items)]
      /\ \E n \in 0..todo :
            /\ sendTodo' = Put(sendTodo, x, todo - n)
            /\ inflight' = Put(inflight, x, Append(H, [f EXCEPT !.sent = @ + n]))
            /\ Append(H, [f EXCEPT !.sent = @ + n]) \in Seq(Flights)
  <2>1. /\ FlightsOK(o, arrived, Append(H, f), current[x], sendTodo[x]) /\ sendTodo[x] \in Nat
        /\ SendAt(o, Append(H, f), sendTodo[x]) = SenderPlace(x, o)
        /\ AckedAt(o, Append(H, f), sendTodo[x]) = AckedPlace(x, o)
        /\ current'[x] = current[x] /\ SendDataTodo(x, H, f, header, todo) /\ y = Peer(x)
    BY <1>2, <1>4, <1>5, <1>6, <1>8 DEF y
  <2> QED
    BY <1>1, <1>2, <1>3, <1>6, <1>7, <1>12, <1>13, <2>1, DataSent
<1>15. /\ pc' \in [Sides -> {"loop", "acks", "next", "process"}] /\ pc'[y] = pc[y]
       /\ pc'[x] # "process" /\ (pc'[x] \in {"acks", "next"} => sendTodo'[x] = 0)
  BY <1>1, <1>2 DEF TypeOK, Put
<1>16. /\ queue' \in [Sides -> Seq(Bundles)] /\ queue'[y] = queue[y]
       /\ current' \in [Sides -> Bundles \cup {NoBundle}] /\ current'[y] = current[y]
  BY <1>1, <1>2 DEF TypeOK
<1>17. Apart(queue'[x], Append(H, f))
  BY <1>1, <1>2, <1>6 DEF Local, QueueOK, Apart, H, f, F
<1>18. sendbuf'[y] = sendbuf[y]
  BY <1>1, <1>2 DEF SendDataTodo, FillAndSend, Put, TypeOK
<1> QED
  <2>1. y = Peer(x)
    BY DEF y
  <2> QED
    BY <1>2, <1>4, <1>6, <1>7, <1>14, <1>15, <1>16, <1>17, <1>18, <2>1, SentStep

\* The head of the queue is neither in flight nor was it sent in this contact.
LEMMA HeadApart ==
    ASSUME NEW q \in Seq(Bundles), q # <<>>, NEW F \in Seq(Flights), Apart(q, F),
           NEW o \in Seq(Bundles), IsInjective(o), ToSet(o) \cap ToSet(q) = {}
    PROVE  LET b == Head(q) IN
           /\ b \in Bundles /\ Tail(q) \in Seq(Bundles) /\ b \notin ToSet(o)
           /\ \A k \in 1..Len(F) : F[k].bundle # b
           /\ Apart(Tail(q), Append(F, Flight(b))) /\ Flight(b) \in Flights
           /\ ToSet(o) \cap ToSet(Tail(q)) = {}
           /\ IsInjective(Append(o, b)) /\ ToSet(Append(o, b)) \cap ToSet(Tail(q)) = {}
<1> DEFINE b == Head(q)
           G == Append(F, Flight(b))
<1>1. /\ b \in Bundles /\ Tail(q) \in Seq(Bundles) /\ ToSet(q) = {b} \cup ToSet(Tail(q))
      /\ IsInjective(Tail(q)) /\ ToSet(Tail(q)) = ToSet(q) \ {b}
  BY ElementsOfTail, InjectiveTail DEF Apart
<1>2. Flight(b) \in Flights /\ Flight(b).bundle = b
  BY <1>1 DEF Flight, Flights
<1> HIDE DEF b
<1>3. b \notin ToSet(o) /\ b \notin ToSet(Tail(q)) /\ b \in ToSet(q)
  BY <1>1
<1>4. DOMAIN F = 1..Len(F) /\ \A k \in 1..Len(F) : F[k].bundle # b
  BY <1>3 DEF Apart
<1>5. /\ G \in Seq(Flights) /\ Len(G) = Len(F) + 1 /\ G[Len(F) + 1] = Flight(b)
      /\ \A k \in 1..Len(F) : G[k] = F[k]
      /\ Len(F) \in Nat /\ DOMAIN G = 1..(Len(F) + 1)
  BY <1>2, AppendIs
<1> HIDE DEF G
<1>6. Apart(Tail(q), G)
  <2>1. ASSUME NEW k \in 1..(Len(F) + 1) PROVE G[k].bundle \notin ToSet(Tail(q))
    <3>1. CASE k = Len(F) + 1
      BY <1>2, <1>3, <1>5, <3>1
    <3>2. CASE k # Len(F) + 1
      <4>1. k \in 1..Len(F)
        BY <1>5, <3>2
      <4> QED
        BY <1>1, <1>4, <1>5, <4>1 DEF Apart
    <3> QED
      BY <3>1, <3>2
  <2> QED
    BY <1>1, <1>5, <2>1 DEF Apart
<1>7. IsInjective(Append(o, b)) /\ ToSet(Append(o, b)) = ToSet(o) \cup {b}
  BY <1>1, <1>3, InjectiveAppend, ElementsOfAppend
<1>8. ToSet(o) \cap ToSet(Tail(q)) = {} /\ ToSet(Append(o, b)) \cap ToSet(Tail(q)) = {}
  BY <1>1, <1>3, <1>7
<1> QED
  BY <1>1, <1>2, <1>3, <1>4, <1>6, <1>7, <1>8 DEF b, G

LEMMA StartNextBundleStep ==
    ASSUME IInv, NEW x \in Sides, StartNextBundle(x)
    PROVE  StepOK(x)
<1> DEFINE y == Peer(x)
           H == inflight[x]
           q == queue[x]
           b == Head(q)
           f == Flight(b)
           left == Length[f.bundle] - f.sent
           todo == Least(SegmentLength, left)
           header == <<Segment(todo, f.sent = 0, todo = left)>>
<1>1. TypeOK /\ Transfers(x) /\ Transfers(y) /\ Local(x) /\ y \in Sides /\ y # x /\ Peer(y) = x
  BY StepFrom
<1>2. /\ pc[x] = "next" /\ Running(x) /\ current[x] = NoBundle /\ q # <<>>
      /\ current' = Put(current, x, b) /\ queue' = Put(queue, x, Tail(q))
      /\ \/ SendDataTodo(x, H, f, header, todo)
         \/ /\ inflight' = Put(inflight, x, Append(H, f))
            /\ UNCHANGED <<sendTodo, sendbuf, wire>>
      /\ pc' = Put(pc, x, "loop")
      /\ recvbuf' = recvbuf /\ incoming' = incoming
      /\ recvTodo' = recvTodo /\ conn' = conn /\ contacts' = contacts
      /\ received' = received /\ arrived' = arrived
      /\ UNCHANGED <<receiving, conn, contacts, posted>>
  BY DEF StartNextBundle, SendSegment, receiving, posted
<1>3. PICK o \in Seq(Bundles), a \in Nat : InStep(x, o, a) /\ SentOnce(x, o) /\ NotYetGiven(x, o, a)
  BY <1>1 DEF Transfers
<1>4. /\ H \in Seq(Flights) /\ q \in Seq(Bundles) /\ arrived \in [Bundles -> Nat]
      /\ sendTodo[x] = 0 /\ sendTodo[x] \in Nat
  BY <1>1, <1>2, EndsType DEF Local, ThreadOK, TypeOK
<1>5. FlightsOK(o, arrived, H, NoBundle, 0)
  BY <1>2, <1>3, <1>4 DEF InStep, EndsOK
<1>6. Apart(q, H) /\ IsInjective(o) /\ ToSet(o) \cap ToSet(q) = {}
  BY <1>1, <1>2, <1>3 DEF Local, QueueOK, Apart, SentOnce
<1>7. /\ b \in Bundles /\ Tail(q) \in Seq(Bundles) /\ b \notin ToSet(o)
      /\ \A k \in 1..Len(H) : H[k].bundle # b
      /\ Apart(Tail(q), Append(H, f)) /\ f \in Flights
      /\ ToSet(o) \cap ToSet(Tail(q)) = {}
      /\ IsInjective(Append(o, b)) /\ ToSet(Append(o, b)) \cap ToSet(Tail(q)) = {}
  BY <1>2, <1>3, <1>4, <1>6, HeadApart
<1>8. f.bundle = b /\ f.sent = 0 /\ f.acked = 0 /\ Length[b] \in Nat /\ Length[b] > 0
  BY <1>7, LengthType DEF Flight
<1>9. todo \in Nat /\ todo > 0 /\ f.sent + todo <= Length[f.bundle]
  <2>1. f.sent < Length[f.bundle]
    BY <1>8
  <2> QED
    BY <1>7, <2>1, SegmentIs
<1>10. /\ queue'[x] = Tail(q) /\ queue' \in [Sides -> Seq(Bundles)] /\ queue'[y] = queue[y]
       /\ current'[x] = b /\ current' \in [Sides -> Bundles \cup {NoBundle}]
       /\ current'[y] = current[y]
  BY <1>1, <1>2, <1>7 DEF TypeOK, Put
<1>11. /\ pc' \in [Sides -> {"loop", "acks", "next", "process"}] /\ pc'[y] = pc[y]
       /\ pc'[x] # "process" /\ (pc'[x] \in {"acks", "next"} => sendTodo'[x] = 0)
  BY <1>1, <1>2 DEF TypeOK, Put
<1>12. /\ FlightsOK(o, arrived, Append(H, f), b, sendTodo[x])
       /\ SendAt(o, Append(H, f), sendTodo[x]) = SenderPlace(x, o)
       /\ AckedAt(o, Append(H, f), sendTodo[x]) = AckedPlace(x, o)
       /\ Append(H, f) \in Seq(Flights)
  <2>1. /\ Append(H, f) \in Seq(Flights) /\ FlightsOK(o, arrived, Append(H, f), b, 0)
        /\ SendAt(o, Append(H, f), 0) = SendAt(o, H, 0)
        /\ AckedAt(o, Append(H, f), 0) = AckedAt(o, H, 0)
    <3> HIDE DEF H, b
    <3> QED
      BY <1>3, <1>4, <1>5, <1>7, BeginFlight
  <2>2. SenderPlace(x, o) = SendAt(o, H, 0) /\ AckedPlace(x, o) = AckedAt(o, H, 0)
    BY <1>4 DEF SenderPlace, AckedPlace
  <2> HIDE DEF H, f, b
  <2> QED
    BY <1>4, <2>1, <2>2
<1> DEFINE p == Append(o, b)
<1>13. NextData(o, p, f, sendTodo[x], todo, header)
  BY <1>4, <1>8 DEF NextData
<1>14. IsInjective(p) /\ ToSet(p) \cap ToSet(queue'[x]) = {} /\ Apart(queue'[x], Append(H, f))
  BY <1>7, <1>10
<1>15. y = Peer(x)
  OBVIOUS
<1>16. CASE SendDataTodo(x, H, f, header, todo)
  <2> HIDE DEF y, H, q, b, f, left, todo, header, p
  <2>1. /\ Transfers(x)'
        /\ \E xs \in Seq(Items) : /\ \A j \in 1..Len(xs) : xs[j].type # "ack"
                                  /\ Pipe(y)' = Pipe(y) \o xs /\ Pipe(x)' = Pipe(x)
        /\ wire' \in [Sides -> Seq(Items)] /\ sendbuf' \in [Sides -> Seq(Items)]
        /\ \E n \in 0..todo :
              /\ sendTodo' = Put(sendTodo, x, todo - n)
              /\ inflight' = Put(inflight, x, Append(H, [f EXCEPT !.sent = @ + n]))
              /\ Append(H, [f EXCEPT !.sent = @ + n]) \in Seq(Flights)
    BY <1>1, <1>2, <1>3, <1>4, <1>7, <1>9, <1>10, <1>12, <1>13, <1>14, <1>15, <1>16, DataSent
  <2>2. sendbuf'[y] = sendbuf[y]
    BY <1>1, <1>16 DEF SendDataTodo, FillAndSend, Put, TypeOK
  <2> QED
    BY <1>2, <1>4, <1>7, <1>9, <1>10, <1>11, <1>14, <1>15, <2>1, <2>2, SentStep
<1>17. CASE /\ inflight' = Put(inflight, x, Append(H, f))
            /\ UNCHANGED <<sendTodo, sendbuf, wire>>
  <2>1. inflight'[x] = Append(H, f) /\ sendTodo'[x] = sendTodo[x] /\ inflight'[y] = inflight[y]
        /\ inflight' \in [Sides -> Seq(Flights)]
    <3> DEFINE G == Append(H, f)
    <3> HIDE DEF f
    <3>1. inflight \in [Sides -> Seq(Flights)] /\ G \in Seq(Flights) /\ inflight' = Put(inflight, x, G)
      BY <1>1, <1>12, <1>17 DEF TypeOK
    <3> HIDE DEF G
    <3>2. inflight'[x] = G /\ inflight'[y] = inflight[y] /\ inflight' \in [Sides -> Seq(Flights)]
      BY <1>1, <3>1 DEF Put
    <3> QED
      BY <1>17, <3>2 DEF G
  <2> HIDE DEF y, H, q, b, f, left, todo, header, p
  <2>2. Pipe(y)' = Pipe(y) /\ Pipe(x)' = Pipe(x)
    BY <1>2, <1>17 DEF Pipe
  <2>3. <<>> \in Seq(Items) /\ (\A j \in 1..Len(<<>>) : <<>>[j].type # "ack") /\ Pipe(y)' = Pipe(y) \o <<>>
    <3>1. Pipe(y) \in Seq(Items)
      BY <1>1, EndsType
    <3>2. Pipe(y) \o <<>> = Pipe(y)
      BY <3>1, ConcatEmptySeq
    <3> QED
      BY <2>2, <3>2
  <2>4. SenderPlace(x, o) \in DataPlaces
    BY <1>1, <1>3, PlacesType DEF InStep
  <2>5. SentOnce(x, o)'
    <3>1. Last(Append(H, f)) = f /\ f.bundle = b
      BY <1>4, <1>7, <1>8, AppendIs
    <3> QED
      BY <1>6, <1>7, <1>10, <2>1, <3>1 DEF SentOnce
  <2>6. Transfers(x)'
    <3>1. FlightsOK(o, arrived, inflight'[x], current'[x], sendTodo'[x])
      BY <1>10, <1>12, <2>1
    <3>2. DataRun(o, SenderPlace(x, o), <<>>, SendAt(o, inflight'[x], sendTodo'[x]))
          /\ SendAt(o, inflight'[x], sendTodo'[x]) \in DataPlaces
      BY <1>12, <2>1, <2>4, DataRunNone
    <3>3. AckedAt(o, inflight'[x], sendTodo'[x]) = AckedPlace(x, o)
      BY <1>12, <2>1
    <3>4. incoming'[y] = incoming[y] /\ recvTodo'[y] = recvTodo[y]
      BY <1>2
    <3> QED
      BY <1>1, <1>2, <1>3, <1>15, <2>2, <2>3, <2>5, <3>1, <3>2, <3>3, <3>4, OwnMoves
  <2>7. wire' \in [Sides -> Seq(Items)] /\ sendbuf' \in [Sides -> Seq(Items)]
        /\ sendbuf'[y] = sendbuf[y]
    BY <1>1, <1>17 DEF TypeOK
  <2> DEFINE none == sendTodo[x]
  <2>8. \E n \in 0..none :
           /\ sendTodo' = Put(sendTodo, x, none - n)
           /\ inflight' = Put(inflight, x, Append(H, [f EXCEPT !.sent = @ + n]))
           /\ Append(H, [f EXCEPT !.sent = @ + n]) \in Seq(Flights)
    <3>1. [f EXCEPT !.sent = @ + 0] = f
      BY <1>7, <1>8 DEF Flights
    <3>2. sendTodo' = Put(sendTodo, x, 0) /\ none = 0
      BY <1>1, <1>4, <1>17 DEF TypeOK, Put
    <3>3. none - 0 = 0 /\ 0 \in 0..none
      BY <3>2
    <3> HIDE DEF none
    <3> QED
      BY <1>12, <1>17, <3>1, <3>2, <3>3
  <2>9. \E xs \in Seq(Items) : /\ \A j \in 1..Len(xs) : xs[j].type # "ack"
                               /\ Pipe(y)' = Pipe(y) \o xs /\ Pipe(x)' = Pipe(x)
    BY <2>2, <2>3
  <2>10. none \in Nat
    BY <1>4
  <2> HIDE DEF none
  <2> QED
    BY <1>2, <1>4, <1>7, <1>10, <1>11, <1>14, <1>15, <2>6, <2>7, <2>8, <2>9, <2>10, SentStep
<1> QED
  BY <1>2, <1>16, <1>17

\* A step in which x neither sends data nor handles a message.
LEMMA IdleStep ==
    ASSUME IInv, NEW x \in Sides, NEW y, y = Peer(x), Running(x),
           UNCHANGED <<sending, incoming, recvTodo, conn, contacts, posted>>,
           recvbuf' \in [Sides -> Seq(Items)], recvbuf'[y] = recvbuf[y],
           wire' \in [Sides -> Seq(Items)], sendbuf' \in [Sides -> Seq(Items)],
           sendbuf'[y] = sendbuf[y],
           pc' \in [Sides -> {"loop", "acks", "next", "process"}], pc'[y] = pc[y],
           pc'[x] \in {"loop", "process"}, pc'[x] = "process" => recvbuf'[x] # <<>>,
           NEW xs \in Seq(Items), \A j \in 1..Len(xs) : xs[j].type = "keepalive",
           xs # <<>> => sendTodo[x] = 0,
           Pipe(y)' = Pipe(y) \o xs, Pipe(x)' = Pipe(x)
    PROVE  StepOK(x)
<1>1. TypeOK /\ Transfers(x) /\ Transfers(y) /\ Local(x) /\ y \in Sides /\ y # x
  BY StepFrom
<1>2. /\ queue' = queue /\ inflight' = inflight /\ current' = current /\ sendTodo' = sendTodo
      /\ incoming' = incoming /\ recvTodo' = recvTodo /\ conn' = conn
      /\ contacts' = contacts /\ received' = received /\ arrived' = arrived
      /\ transmitted' = transmitted /\ cancelled' = cancelled
  BY DEF sending, posted
<1>3. TypeOK'
  BY <1>1, <1>2 DEF TypeOK
<1>4. Kept(y)
  BY <1>2 DEF Kept
<1>5. \A j \in 1..Len(xs) : xs[j].type # "ack" /\ xs[j].type \in {"ack", "keepalive", "shutdown"}
  OBVIOUS
<1>6. Transfers(x)'
  <2>1. incoming'[y] = incoming[y] /\ recvTodo'[y] = recvTodo[y]
    BY <1>2
  <2> QED
    BY <1>1, <1>2, <1>5, <2>1, OwnStays
<1>7. Transfers(y)'
  <2>1. /\ queue'[y] = queue[y] /\ inflight'[y] = inflight[y] /\ current'[y] = current[y]
        /\ sendTodo'[y] = sendTodo[y] /\ recvTodo'[x] = recvTodo[x] /\ incoming'[x] = incoming[x]
    BY <1>2
  <2> QED
    BY <1>1, <1>2, <1>5, <2>1, OtherStays
<1>8. Local(x)'
  BY <1>1, <1>2 DEF Local, ThreadOK, ClosedOK, QueueOK, Running
<1> QED
  BY <1>3, <1>4, <1>6, <1>7, <1>8 DEF StepOK

LEMMA NothingToSendStep ==
    ASSUME IInv, NEW x \in Sides, NothingToSend(x)
    PROVE  StepOK(x)
<1> DEFINE y == Peer(x)
<1>1. TypeOK /\ Local(x) /\ y \in Sides /\ y # x
  BY StepFrom
<1>2. /\ pc[x] = "next" /\ pc' = Put(pc, x, "loop")
      /\ UNCHANGED <<sending, sendbuf, wire, receiving, conn, contacts, posted>>
  BY DEF NothingToSend
<1>3. Running(x)
  BY <1>1, <1>2 DEF Local, ThreadOK
<1>4. /\ pc' \in [Sides -> {"loop", "acks", "next", "process"}] /\ pc'[y] = pc[y]
      /\ pc'[x] = "loop"
  BY <1>1, <1>2 DEF TypeOK, Put
<1>5. /\ recvbuf' = recvbuf /\ wire' = wire /\ sendbuf' = sendbuf
      /\ UNCHANGED <<sending, incoming, recvTodo, conn, contacts, posted>>
  BY <1>2 DEF receiving
<1>6. /\ recvbuf' \in [Sides -> Seq(Items)] /\ recvbuf'[y] = recvbuf[y]
      /\ wire' \in [Sides -> Seq(Items)] /\ sendbuf' \in [Sides -> Seq(Items)]
      /\ sendbuf'[y] = sendbuf[y]
  BY <1>1, <1>5 DEF TypeOK
<1>7. Pipe(x)' = Pipe(x) /\ Pipe(y)' = Pipe(y) \o <<>>
  <2>1. Pipe(y) \in Seq(Items)
    BY <1>1, PipeType
  <2>2. Pipe(y) \o <<>> = Pipe(y)
    BY <2>1, ConcatEmptySeq
  <2> QED
    BY <1>5, <2>2 DEF Pipe
<1>8. <<>> \in Seq(Items) /\ \A j \in 1..Len(<<>>) : <<>>[j].type = "keepalive"
  OBVIOUS
<1>9. y = Peer(x)
  OBVIOUS
<1> HIDE DEF y
<1> QED
  BY <1>3, <1>4, <1>5, <1>6, <1>7, <1>8, <1>9, IdleStep

\* Only x writes.
LEMMA WritesOnly ==
    ASSUME TypeOK, NEW x \in Sides, NEW y \in Sides, y # x, NEW xs, FillAndSend(x, xs)
    PROVE  sendbuf'[y] = sendbuf[y] /\ wire'[y] = wire[y]
BY DEF FillAndSend, Put, TypeOK

LEMMA FlushStep ==
    ASSUME IInv, NEW x \in Sides, Flush(x)
    PROVE  StepOK(x)
<1> DEFINE y == Peer(x)
<1>1. TypeOK /\ Local(x) /\ y \in Sides /\ y # x
  BY StepFrom
<1>2. /\ pc[x] = "loop" /\ Running(x) /\ FillAndSend(x, <<>>)
      /\ UNCHANGED <<sending, receiving, pc, conn, contacts, posted>>
  BY DEF Flush
<1>3. /\ pc' \in [Sides -> {"loop", "acks", "next", "process"}] /\ pc'[y] = pc[y]
      /\ pc'[x] = "loop"
  BY <1>1, <1>2 DEF TypeOK
<1>4. recvbuf' = recvbuf /\ UNCHANGED <<sending, incoming, recvTodo, conn, contacts, posted>>
  BY <1>2 DEF receiving
<1>5. <<>> \in Seq(Items) /\ \A j \in 1..Len(<<>>) : <<>>[j].type = "keepalive"
  OBVIOUS
<1>6. /\ Pipe(y)' = Pipe(y) \o <<>> /\ Pipe(x)' = Pipe(x)
      /\ wire' \in [Sides -> Seq(Items)] /\ sendbuf' \in [Sides -> Seq(Items)]
      /\ sendbuf'[y] = sendbuf[y]
  BY <1>1, <1>2, <1>4, <1>5, SendPipe, WritesOnly
<1>7. recvbuf' \in [Sides -> Seq(Items)] /\ recvbuf'[y] = recvbuf[y]
  BY <1>1, <1>4 DEF TypeOK
<1>8. y = Peer(x)
  OBVIOUS
<1> HIDE DEF y
<1> QED
  BY <1>2, <1>3, <1>4, <1>5, <1>6, <1>7, <1>8, IdleStep

LEMMA SendKeepaliveStep ==
    ASSUME IInv, NEW x \in Sides, SendKeepalive(x)
    PROVE  StepOK(x)
<1> DEFINE y == Peer(x)
           xs == <<Keepalive>>
<1>1. TypeOK /\ Local(x) /\ y \in Sides /\ y # x
  BY StepFrom
<1>2. /\ pc[x] = "loop" /\ Running(x) /\ FillAndSend(x, xs) /\ sendTodo[x] = 0
      /\ UNCHANGED <<sending, receiving, pc, conn, contacts, posted>>
  BY DEF SendKeepalive, Running
<1>3. /\ pc' \in [Sides -> {"loop", "acks", "next", "process"}] /\ pc'[y] = pc[y]
      /\ pc'[x] = "loop"
  BY <1>1, <1>2 DEF TypeOK
<1>4. recvbuf' = recvbuf /\ UNCHANGED <<sending, incoming, recvTodo, conn, contacts, posted>>
  BY <1>2 DEF receiving
<1>5. xs \in Seq(Items) /\ \A j \in 1..Len(xs) : xs[j].type = "keepalive"
  <2>1. Keepalive \in Items /\ Keepalive.type = "keepalive"
    BY DEF Keepalive, Items
  <2> QED
    BY <2>1
<1> HIDE DEF xs
<1>6. /\ Pipe(y)' = Pipe(y) \o xs /\ Pipe(x)' = Pipe(x)
      /\ wire' \in [Sides -> Seq(Items)] /\ sendbuf' \in [Sides -> Seq(Items)]
      /\ sendbuf'[y] = sendbuf[y]
  BY <1>1, <1>2, <1>4, <1>5, SendPipe, WritesOnly
<1>7. recvbuf' \in [Sides -> Seq(Items)] /\ recvbuf'[y] = recvbuf[y]
  BY <1>1, <1>4 DEF TypeOK
<1>8. y = Peer(x)
  OBVIOUS
<1> HIDE DEF y
<1> QED
  BY <1>2, <1>3, <1>4, <1>5, <1>6, <1>7, <1>8, IdleStep

LEMMA ReadStep ==
    ASSUME IInv, NEW x \in Sides, Read(x)
    PROVE  StepOK(x)
<1> DEFINE y == Peer(x)
<1>1. TypeOK /\ Local(x) /\ y \in Sides /\ y # x
  BY StepFrom
<1>2. /\ pc[x] = "loop" /\ Running(x) /\ pc' = Put(pc, x, "process")
      /\ UNCHANGED <<sending, sendbuf, incoming, recvTodo, conn, contacts, posted>>
  BY DEF Read
<1>3. /\ pc' \in [Sides -> {"loop", "acks", "next", "process"}] /\ pc'[y] = pc[y]
      /\ pc'[x] = "process"
  BY <1>1, <1>2 DEF TypeOK, Put
<1>4. /\ Pipe(y)' = Pipe(y) /\ Pipe(x)' = Pipe(x)
      /\ wire' \in [Sides -> Seq(Items)] /\ recvbuf' \in [Sides -> Seq(Items)]
      /\ recvbuf'[x] # <<>> /\ recvbuf'[y] = recvbuf[y]
  BY <1>1, ReadPipe
<1>5. sendbuf' \in [Sides -> Seq(Items)] /\ sendbuf'[y] = sendbuf[y]
  BY <1>1, <1>2 DEF TypeOK
<1>6. Pipe(y)' = Pipe(y) \o <<>>
  <2>1. Pipe(y) \in Seq(Items)
    BY <1>1, PipeType
  <2>2. Pipe(y) \o <<>> = Pipe(y)
    BY <2>1, ConcatEmptySeq
  <2> QED
    BY <1>4, <2>2
<1>7. <<>> \in Seq(Items) /\ \A j \in 1..Len(<<>>) : <<>>[j].type = "keepalive"
  OBVIOUS
<1>8. y = Peer(x) /\ UNCHANGED <<sending, incoming, recvTodo, conn, contacts, posted>>
  BY <1>2
<1> HIDE DEF y
<1> QED
  BY <1>2, <1>3, <1>4, <1>5, <1>6, <1>7, <1>8, IdleStep

\* A step after which the current bundle is done with, or cancelled.
LEMMA DoneStep ==
    ASSUME IInv, NEW x \in Sides, NEW y, y = Peer(x), Running(x), sendTodo[x] = 0,
           NEW o \in Seq(Bundles), NEW a \in Nat,
           InStep(x, o, a), SentOnce(x, o), NotYetGiven(x, o, a),
           NEW G \in Seq(Flights), inflight' = Put(inflight, x, G),
           current' = Put(current, x, NoBundle),
           FlightsOK(o, arrived, G, NoBundle, sendTodo[x]), ~Unsent(G, sendTodo[x]),
           SendAt(o, G, sendTodo[x]) = SenderPlace(x, o),
           AckedAt(o, G, sendTodo[x]) = AckedPlace(x, o),
           Apart(queue[x], G),
           UNCHANGED <<queue, sendTodo, sendbuf, wire, receiving, conn, contacts>>,
           UNCHANGED <<transmitted, received, arrived>>,
           cancelled' \in SUBSET Bundles,
           pc' \in [Sides -> {"loop", "acks", "next", "process"}], pc'[y] = pc[y],
           pc'[x] = "loop"
    PROVE  StepOK(x)
<1>1. TypeOK /\ Transfers(x) /\ Transfers(y) /\ Local(x) /\ y \in Sides /\ y # x
  BY StepFrom
<1>2. /\ queue' = queue /\ sendTodo' = sendTodo /\ sendbuf' = sendbuf /\ wire' = wire
      /\ recvbuf' = recvbuf /\ incoming' = incoming /\ recvTodo' = recvTodo
      /\ conn' = conn /\ contacts' = contacts
      /\ transmitted' = transmitted /\ received' = received /\ arrived' = arrived
  BY DEF receiving
<1>3. /\ inflight' \in [Sides -> Seq(Flights)] /\ inflight'[x] = G /\ inflight'[y] = inflight[y]
      /\ current' \in [Sides -> Bundles \cup {NoBundle}] /\ current'[x] = NoBundle
      /\ current'[y] = current[y]
  BY <1>1 DEF TypeOK, Put
<1>4. TypeOK'
  BY <1>1, <1>2, <1>3 DEF TypeOK
<1>5. Kept(y)
  BY <1>2, <1>3 DEF Kept
<1>6. Pipe(y)' = Pipe(y) \o <<>> /\ Pipe(x)' = Pipe(x) /\ <<>> \in Seq(Items)
      /\ \A j \in 1..Len(<<>>) : <<>>[j].type # "ack"
  <2>1. Pipe(y) \in Seq(Items)
    BY <1>1, PipeType
  <2>2. Pipe(y) \o <<>> = Pipe(y)
    BY <2>1, ConcatEmptySeq
  <2>3. Pipe(y)' = Pipe(y) /\ Pipe(x)' = Pipe(x)
    BY <1>2 DEF Pipe
  <2> QED
    BY <2>2, <2>3
<1>7. Transfers(x)'
  <2>1. SentOnce(x, o)'
    <3>1. Running(x)' <=> Running(x)
      BY <1>2 DEF Running
    <3> QED
      BY <1>2, <1>3, <3>1 DEF SentOnce
  <2>2. SenderPlace(x, o) \in DataPlaces
    BY <1>1, PlacesType DEF InStep
  <2>3. FlightsOK(o, arrived, inflight'[x], current'[x], sendTodo'[x])
    BY <1>2, <1>3
  <2>4. DataRun(o, SenderPlace(x, o), <<>>, SendAt(o, inflight'[x], sendTodo'[x]))
        /\ SendAt(o, inflight'[x], sendTodo'[x]) \in DataPlaces
    BY <1>2, <1>3, <2>2, DataRunNone
  <2>5. AckedAt(o, inflight'[x], sendTodo'[x]) = AckedPlace(x, o)
    BY <1>2, <1>3
  <2>6. incoming'[y] = incoming[y] /\ recvTodo'[y] = recvTodo[y]
    BY <1>2
  <2> QED
    BY <1>1, <1>2, <1>6, <2>1, <2>3, <2>4, <2>5, <2>6, OwnMoves
<1>8. Transfers(y)'
  <2>1. /\ queue'[y] = queue[y] /\ inflight'[y] = inflight[y] /\ current'[y] = current[y]
        /\ sendTodo'[y] = sendTodo[y] /\ recvTodo'[x] = recvTodo[x] /\ incoming'[x] = incoming[x]
    BY <1>2, <1>3
  <2> QED
    BY <1>1, <1>2, <1>6, <2>1, OtherStays
<1>9. ThreadOK(x)' /\ ClosedOK(x)'
  BY <1>1, <1>2 DEF Local, ThreadOK, ClosedOK, Running
<1>10. QueueOK(x)'
  BY <1>2, <1>3 DEF QueueOK, Apart
<1> QED
  BY <1>4, <1>5, <1>7, <1>8, <1>9, <1>10 DEF StepOK, Local

LEMMA FinishBundleStep ==
    ASSUME IInv, NEW x \in Sides, FinishBundle(x)
    PROVE  StepOK(x)
<1> DEFINE y == Peer(x)
           F == inflight[x]
           G == IF Last(F).acked < Length[Last(F).bundle] THEN F ELSE Tail(F)
<1>1. TypeOK /\ Transfers(x) /\ Local(x) /\ y \in Sides /\ y # x
  BY StepFrom
<1>2. /\ pc[x] = "next" /\ Running(x) /\ current[x] # NoBundle
      /\ Last(F).sent = Length[Last(F).bundle]
      /\ inflight' = Put(inflight, x, G) /\ current' = Put(current, x, NoBundle)
      /\ pc' = Put(pc, x, "loop")
      /\ UNCHANGED <<queue, sendTodo, sendbuf, wire, receiving, conn, contacts>>
      /\ UNCHANGED <<transmitted, received, arrived>> /\ cancelled' = cancelled
  BY DEF FinishBundle, posted
<1>3. PICK o \in Seq(Bundles), a \in Nat : InStep(x, o, a) /\ SentOnce(x, o) /\ NotYetGiven(x, o, a)
  BY <1>1 DEF Transfers
<1>4. /\ F \in Seq(Flights) /\ current[x] \in Bundles /\ arrived \in [Bundles -> Nat]
      /\ sendTodo[x] = 0
  BY <1>1, <1>2, EndsType DEF Local, ThreadOK
<1>5. FlightsOK(o, arrived, F, current[x], 0)
  BY <1>3, <1>4 DEF InStep, EndsOK
<1>6. /\ F # <<>> /\ G \in Seq(Flights) /\ FlightsOK(o, arrived, G, NoBundle, 0)
      /\ (G = F \/ G = <<>>)
      /\ SendAt(o, G, 0) = SendAt(o, F, 0) /\ AckedAt(o, G, 0) = AckedAt(o, F, 0)
  <2> HIDE DEF F
  <2> QED
    BY <1>2, <1>3, <1>4, <1>5, FinishFlight
<1>7. ~Unsent(G, 0)
  <2>1. Last(F).bundle \in Bundles
    <3> HIDE DEF F, G
    <3>1. Last(F) \in Flights
      BY <1>4, <1>6, TailIs
    <3> QED
      BY <3>1 DEF Flights
  <2>2. Last(F).sent # 0
    BY <1>2, <2>1, LengthType
  <2> HIDE DEF F, G
  <2> QED
    BY <1>6, <2>2 DEF Unsent
<1>8. Apart(queue[x], G)
  <2>1. Apart(queue[x], F)
    BY <1>1 DEF Local, QueueOK, Apart
  <2> HIDE DEF F, G
  <2> QED
    BY <1>6, <2>1 DEF Apart
<1>9. /\ pc' \in [Sides -> {"loop", "acks", "next", "process"}] /\ pc'[y] = pc[y]
      /\ pc'[x] = "loop" /\ cancelled' \in SUBSET Bundles
  BY <1>1, <1>2 DEF TypeOK, Put
<1>10. y = Peer(x) /\ SenderPlace(x, o) = SendAt(o, F, sendTodo[x])
       /\ AckedPlace(x, o) = AckedAt(o, F, sendTodo[x])
  BY DEF SenderPlace, AckedPlace
<1>11. /\ FlightsOK(o, arrived, G, NoBundle, sendTodo[x]) /\ ~Unsent(G, sendTodo[x])
       /\ SendAt(o, G, sendTodo[x]) = SenderPlace(x, o)
       /\ AckedAt(o, G, sendTodo[x]) = AckedPlace(x, o)
  <2> HIDE DEF F, G
  <2> QED
    BY <1>4, <1>6, <1>7, <1>10
<1> HIDE DEF y, F, G
<1> QED
  BY <1>2, <1>3, <1>4, <1>6, <1>8, <1>9, <1>10, <1>11, DoneStep

LEMMA CancelBundleStep ==
    ASSUME IInv, NEW x \in Sides, NEW b \in Cancels, CancelBundle(x, b)
    PROVE  StepOK(x)
<1> DEFINE y == Peer(x)
           F == inflight[x]
<1>1. TypeOK /\ Transfers(x) /\ Local(x) /\ y \in Sides /\ y # x
  BY StepFrom
<1>2. /\ pc[x] = "loop" /\ Running(x) /\ current' = Put(current, x, NoBundle)
      /\ cancelled' = cancelled \cup {b}
      /\ UNCHANGED <<queue, sendTodo, sendbuf, wire, receiving, conn, contacts>>
      /\ UNCHANGED <<transmitted, received, arrived>> /\ pc' = pc
  BY DEF CancelBundle
<1>3. PICK k \in DOMAIN F : /\ F[k].sent = 0 /\ sendTodo[x] = 0
                            /\ inflight' = Put(inflight, x, RemoveAt(F, k))
  BY DEF CancelBundle, Cancellable
<1> DEFINE G == RemoveAt(F, k)
<1>4. PICK o \in Seq(Bundles), a \in Nat : InStep(x, o, a) /\ SentOnce(x, o) /\ NotYetGiven(x, o, a)
  BY <1>1 DEF Transfers
<1>5. /\ F \in Seq(Flights) /\ current[x] \in Bundles \cup {NoBundle}
      /\ arrived \in [Bundles -> Nat] /\ k \in 1..Len(F)
  <2>1. /\ F \in Seq(Flights) /\ current[x] \in Bundles \cup {NoBundle}
        /\ arrived \in [Bundles -> Nat]
    BY <1>1, EndsType
  <2> QED
    BY <1>3, <2>1
<1>6. FlightsOK(o, arrived, F, current[x], 0)
  BY <1>3, <1>4 DEF InStep, EndsOK
<1>7. /\ k = Len(F) /\ G \in Seq(Flights) /\ Len(G) = k - 1
      /\ (\A j \in 1..(k - 1) : G[j] = F[j])
      /\ FlightsOK(o, arrived, G, NoBundle, 0) /\ ~Unsent(G, 0)
      /\ SendAt(o, G, 0) = SendAt(o, F, 0) /\ AckedAt(o, G, 0) = AckedAt(o, F, 0)
  <2> HIDE DEF F
  <2> QED
    BY <1>3, <1>4, <1>5, <1>6, CancelFlight
<1>8. Apart(queue[x], G)
  <2>1. Apart(queue[x], F)
    BY <1>1 DEF Local, QueueOK, Apart
  <2> HIDE DEF F, G
  <2>2. DOMAIN G = 1..(k - 1) /\ DOMAIN F = 1..k
    BY <1>5, <1>7
  <2>3. \A j \in 1..(k - 1) : j \in 1..k
    BY <1>5
  <2> QED
    BY <1>7, <2>1, <2>2, <2>3 DEF Apart
<1>9. /\ pc' \in [Sides -> {"loop", "acks", "next", "process"}] /\ pc'[y] = pc[y]
      /\ pc'[x] = "loop" /\ cancelled' \in SUBSET Bundles
  BY <1>1, <1>2, ParamsAssumption DEF TypeOK
<1>10. y = Peer(x) /\ SenderPlace(x, o) = SendAt(o, F, sendTodo[x])
       /\ AckedPlace(x, o) = AckedAt(o, F, sendTodo[x])
  BY DEF SenderPlace, AckedPlace
<1>11. /\ FlightsOK(o, arrived, G, NoBundle, sendTodo[x]) /\ ~Unsent(G, sendTodo[x])
       /\ SendAt(o, G, sendTodo[x]) = SenderPlace(x, o)
       /\ AckedAt(o, G, sendTodo[x]) = AckedPlace(x, o)
  <2> HIDE DEF F, G
  <2> QED
    BY <1>3, <1>7, <1>10
<1>12. inflight' = Put(inflight, x, G)
  BY <1>3
<1> HIDE DEF y, F, G
<1> QED
  BY <1>2, <1>3, <1>4, <1>7, <1>8, <1>9, <1>10, <1>11, <1>12, DoneStep

\* The acknowledgements that fit are the smallest ones.
LEMMA FittingIs ==
    ASSUME TypeOK, NEW x \in Sides, NEW ends \in SUBSET Nat, IsFiniteSet(ends)
    PROVE  /\ Fitting(x, ends) \subseteq ends /\ IsFiniteSet(Fitting(x, ends))
           /\ \A m \in ends, n \in Fitting(x, ends) : m <= n => m \in Fitting(x, ends)
<1>1. Fitting(x, ends) \subseteq ends
  BY DEF Fitting
<1>2. IsFiniteSet(Fitting(x, ends))
  BY <1>1, FS_Subset
<1>3. TailBytes(x) \in Int
  <2>1. Len(sendbuf[x]) \in Nat
    BY DEF TypeOK
  <2> QED
    BY <2>1, LengthsAssumption DEF TailBytes
<1>4. ASSUME NEW m \in ends, NEW n \in Fitting(x, ends), m <= n PROVE m \in Fitting(x, ends)
  <2> DEFINE M == {k \in ends : k <= m}
             N == {k \in ends : k <= n}
  <2>1. n \in ends /\ Cardinality(N) <= TailBytes(x)
    BY DEF Fitting
  <2>2. M \subseteq N
    <3>1. ASSUME NEW k \in ends, k <= m PROVE k <= n
      <4>1. k \in Nat /\ m \in Nat /\ n \in Nat
        BY <2>1
      <4> QED
        BY <1>4, <3>1, <4>1
    <3> QED
      BY <3>1
  <2>3. IsFiniteSet(N) /\ N \subseteq ends
    BY FS_Subset
  <2> HIDE DEF M, N
  <2>4. Cardinality(M) <= Cardinality(N) /\ Cardinality(M) \in Nat /\ Cardinality(N) \in Nat
    BY <2>2, <2>3, FS_Subset, FS_CardinalityType
  <2>5. Cardinality(M) <= TailBytes(x)
    BY <1>3, <2>1, <2>4
  <2> QED
    BY <2>5 DEF Fitting, M
<1> QED
  BY <1>1, <1>2, <1>4

LEMMA PendingAcksIs ==
    ASSUME TypeOK, NEW x \in Sides, incoming[x] # <<>>
    PROVE  LET I == incoming[x]
               S == PendingAcks(x)
           IN  /\ S \in SUBSET {n \in Head(I).acks : n <= Len(Head(I).data)} /\ IsFiniteSet(S)
               /\ \A m \in Head(I).acks, n \in S : m <= n => m \in S
<1> DEFINE h == Head(incoming[x])
           d == Len(h.data)
           ends == {n \in h.acks : n <= d}
<1>1. incoming[x] \in Seq(Incomings)
  BY DEF TypeOK
<1>2. h \in Incomings
  BY <1>1, TailIs
<1>3. h.acks \in SUBSET Nat /\ d \in Nat
  BY <1>2 DEF Incomings
<1> HIDE DEF h, d
<1>4. ends \in SUBSET Nat /\ ends \subseteq 0..d
  BY <1>3
<1>5. IsFiniteSet(ends)
  <2>1. IsFiniteSet(0..d)
    BY <1>3, FS_Interval
  <2> QED
    BY <1>4, <2>1, FS_Subset
<1> DEFINE S == PendingAcks(x)
<1>6. S = Fitting(x, ends)
  BY DEF PendingAcks, h, d
<1>7. S \subseteq ends /\ IsFiniteSet(S) /\ \A m \in ends, n \in S : m <= n => m \in S
  <2> HIDE DEF ends, S
  <2> QED
    BY <1>4, <1>5, <1>6, FittingIs
<1>8. ASSUME NEW m \in h.acks, NEW n \in S, m <= n PROVE m \in S
  <2> HIDE DEF S
  <2>1. n \in Nat /\ n <= d /\ m \in Nat
    BY <1>3, <1>7
  <2>2. m <= d
    BY <1>3, <1>8, <2>1
  <2> QED
    BY <1>7, <1>8, <2>2
<1> QED
  BY <1>7, <1>8 DEF h, d

LEMMA SendPendingAcksStep ==
    ASSUME IInv, NEW x \in Sides, SendPendingAcks(x)
    PROVE  StepOK(x)
<1> DEFINE y == Peer(x)
           I == incoming[x]
<1>1. TypeOK /\ Transfers(x) /\ Transfers(y) /\ Local(x) /\ y \in Sides /\ y # x /\ Peer(y) = x
  BY StepFrom
<1>2. /\ Running(x) /\ sendTodo[x] = 0 /\ pc' = Put(pc, x, "next")
      /\ queue' = queue /\ inflight' = inflight /\ current' = current /\ sendTodo' = sendTodo
      /\ recvbuf' = recvbuf /\ recvTodo' = recvTodo /\ conn' = conn /\ contacts' = contacts
      /\ transmitted' = transmitted /\ received' = received /\ arrived' = arrived
      /\ cancelled' = cancelled
  BY <1>1 DEF SendPendingAcks, sending, posted, Local, ThreadOK
<1>3. I \in Seq(Incomings) /\ incoming \in [Sides -> Seq(Incomings)] /\ recvTodo[x] \in Nat
  BY <1>1 DEF TypeOK
<1>4. PICK o \in Seq(Bundles), a \in Nat : InStep(y, o, a) /\ SentOnce(y, o) /\ NotYetGiven(y, o, a)
  BY <1>1 DEF Transfers
<1>5. IncomingOK(o, arrived, a, I, recvTodo[x]) /\ arrived \in [Bundles -> Nat]
  BY <1>1, <1>4 DEF InStep, EndsOK, TypeOK
<1>6. \E xs \in Seq(Items), J \in Seq(Incomings), b \in Nat :
         /\ \A j \in 1..Len(xs) : xs[j].type = "ack"
         /\ incoming' = Put(incoming, x, J)
         /\ IF xs = <<>> THEN UNCHANGED <<sendbuf, wire>> ELSE FillAndSend(x, xs)
         /\ (I = <<>> => J = <<>> /\ b = a)
         /\ IncomingOK(o, arrived, b, J, recvTodo[x])
         /\ ReceiveAt(o, b, J, recvTodo[x]) = ReceiveAt(o, a, I, recvTodo[x])
         /\ AckRun(o, arrived, AcksAt(a, I), xs, AcksAt(b, J))
  <2>1. CASE I = <<>>
    <3>1. incoming' = Put(incoming, x, I) /\ UNCHANGED <<sendbuf, wire>>
      BY <1>3, <2>1 DEF SendPendingAcks, Put
    <3>2. AcksAt(a, I) \in AckPlaces
      BY <1>3, <1>4, <1>5, ReceiveAtType
    <3>3. <<>> \in Seq(Items) /\ \A j \in 1..Len(<<>>) : <<>>[j].type = "ack" /\ <<>>[j].type # "ack"
      OBVIOUS
    <3>4. AckRun(o, arrived, AcksAt(a, I), <<>>, AcksAt(a, I))
      BY <3>2, <3>3, NoAckRun
    <3> HIDE DEF I
    <3> QED
      BY <1>3, <1>4, <1>5, <2>1, <3>1, <3>3, <3>4
  <2>2. CASE I # <<>>
    <3> DEFINE S == PendingAcks(x)
               front(acks) == [Head(I) EXCEPT !.acks = @ \ Range(acks),
                                  !.acked = IF acks = <<>> THEN @ ELSE Last(acks)]
               J(acks) == IF front(acks).total # 0 /\ front(acks).total = front(acks).acked
                          THEN Tail(I) ELSE <<front(acks)>> \o Tail(I)
               ys(acks) == [j \in DOMAIN acks |-> Ack(acks[j])]
    <3>1. PICK acks \in InOrder(S) :
             /\ IF acks = <<>> THEN UNCHANGED <<sendbuf, wire>> ELSE FillAndSend(x, ys(acks))
             /\ incoming' = Put(incoming, x, J(acks))
      BY <2>2 DEF SendPendingAcks
    <3>2. /\ S \in SUBSET {n \in Head(I).acks : n <= Len(Head(I).data)} /\ IsFiniteSet(S)
          /\ \A m \in Head(I).acks, n \in S : m <= n => m \in S
      BY <1>1, <2>2, PendingAcksIs
    <3>3. /\ J(acks) \in Seq(Incomings) /\ (acks = <<>> => J(acks) = I) /\ ys(acks) \in Seq(Items)
          /\ \E b \in Nat :
                /\ IncomingOK(o, arrived, b, J(acks), recvTodo[x])
                /\ ReceiveAt(o, b, J(acks), recvTodo[x]) = ReceiveAt(o, a, I, recvTodo[x])
                /\ AckRun(o, arrived, AcksAt(a, I), ys(acks), AcksAt(b, J(acks)))
      <4> HIDE DEF I, S
      <4> QED
        BY <1>3, <1>4, <1>5, <2>2, <3>1, <3>2, SendAcks
    <3>4. \A j \in 1..Len(ys(acks)) : ys(acks)[j].type = "ack"
      <4>1. acks \in [1..Cardinality(S) -> S]
        BY DEF InOrder
      <4>2. Cardinality(S) \in Nat
        BY <3>2, FS_CardinalityType
      <4> HIDE DEF S
      <4>3. Len(ys(acks)) = Cardinality(S) /\ DOMAIN ys(acks) = 1..Cardinality(S)
        BY <4>1, <4>2
      <4> QED
        BY <4>1, <4>3 DEF Ack
    <3>5. acks = <<>> <=> ys(acks) = <<>>
      <4>1. acks \in Seq(S)
        <5>1. S \in SUBSET Nat
          <6> HIDE DEF I, S
          <6>1. Head(I) \in Incomings
            BY <1>3, <2>2, TailIs
          <6>2. Head(I).acks \in SUBSET Nat
            BY <6>1 DEF Incomings
          <6> QED
            BY <3>2, <6>2
        <5> HIDE DEF S
        <5> QED
          BY <3>1, <3>2, <5>1, InOrderIs
      <4> HIDE DEF S
      <4>2. DOMAIN acks = 1..Len(acks) /\ DOMAIN ys(acks) = 1..Len(acks) /\ Len(ys(acks)) = Len(acks)
        BY <4>1
      <4> DEFINE zs == ys(acks)
      <4>3. zs \in Seq(Items) /\ Len(zs) = Len(acks)
        BY <3>3, <4>2
      <4> HIDE DEF zs
      <4> QED
        BY <4>1, <4>3 DEF zs
    <3> DEFINE xs == ys(acks)
               K == J(acks)
    <3>6. /\ xs \in Seq(Items) /\ K \in Seq(Incomings)
          /\ \A j \in 1..Len(xs) : xs[j].type = "ack"
          /\ incoming' = Put(incoming, x, K)
          /\ IF xs = <<>> THEN UNCHANGED <<sendbuf, wire>> ELSE FillAndSend(x, xs)
      BY <3>1, <3>3, <3>4, <3>5
    <3>7. PICK b \in Nat :
             /\ IncomingOK(o, arrived, b, K, recvTodo[x])
             /\ ReceiveAt(o, b, K, recvTodo[x]) = ReceiveAt(o, a, I, recvTodo[x])
             /\ AckRun(o, arrived, AcksAt(a, I), xs, AcksAt(b, K))
      BY <3>3
    <3> HIDE DEF I, S, ys, J, front, xs, K
    <3> QED
      BY <2>2, <3>6, <3>7
  <2> QED
    BY <2>1, <2>2
<1>7. PICK xs \in Seq(Items), J \in Seq(Incomings), b \in Nat :
         /\ \A j \in 1..Len(xs) : xs[j].type = "ack"
         /\ incoming' = Put(incoming, x, J)
         /\ IF xs = <<>> THEN UNCHANGED <<sendbuf, wire>> ELSE FillAndSend(x, xs)
         /\ (I = <<>> => J = <<>> /\ b = a)
         /\ IncomingOK(o, arrived, b, J, recvTodo[x])
         /\ ReceiveAt(o, b, J, recvTodo[x]) = ReceiveAt(o, a, I, recvTodo[x])
         /\ AckRun(o, arrived, AcksAt(a, I), xs, AcksAt(b, J))
  BY <1>6
<1>8. incoming'[x] = J /\ incoming'[y] = incoming[y] /\ incoming' \in [Sides -> Seq(Incomings)]
  BY <1>1, <1>3, <1>7 DEF Put
<1>9. /\ Pipe(y)' = Pipe(y) \o xs /\ Pipe(x)' = Pipe(x)
      /\ wire' \in [Sides -> Seq(Items)] /\ sendbuf' \in [Sides -> Seq(Items)]
      /\ sendbuf'[y] = sendbuf[y]
  <2>1. CASE xs = <<>>
    <3>1. wire' = wire /\ sendbuf' = sendbuf
      BY <1>7, <2>1
    <3>2. Pipe(y) \in Seq(Items)
      BY <1>1, PipeType
    <3>3. Pipe(y) \o <<>> = Pipe(y)
      BY <3>2, ConcatEmptySeq
    <3>4. Pipe(y)' = Pipe(y) /\ Pipe(x)' = Pipe(x)
      BY <1>2, <3>1 DEF Pipe
    <3> QED
      BY <1>1, <2>1, <3>1, <3>3, <3>4 DEF TypeOK
  <2>2. CASE xs # <<>>
    <3>1. FillAndSend(x, xs)
      BY <1>7, <2>2
    <3> QED
      BY <1>1, <1>2, <3>1, SendPipe, WritesOnly
  <2> QED
    BY <2>1, <2>2
<1>10. pc' \in [Sides -> {"loop", "acks", "next", "process"}] /\ pc'[y] = pc[y] /\ pc'[x] = "next"
  BY <1>1, <1>2 DEF TypeOK, Put
<1>11. TypeOK'
  BY <1>1, <1>2, <1>8, <1>9, <1>10 DEF TypeOK
<1>12. Kept(y)
  BY <1>2, <1>8, <1>9, <1>10 DEF Kept
<1>13. Local(x)'
  BY <1>1, <1>2, <1>10 DEF Local, ThreadOK, ClosedOK, QueueOK, Running
<1>14. y = Peer(x)
  OBVIOUS
<1> HIDE DEF y, I
<1>15. Transfers(x)'
  <2>1. \A j \in 1..Len(xs) : xs[j].type \in {"ack", "keepalive", "shutdown"}
    BY <1>7
  <2>2. incoming'[y] = incoming[y] /\ recvTodo'[y] = recvTodo[y]
    BY <1>2, <1>8
  <2> QED
    BY <1>1, <1>2, <1>9, <1>14, <2>1, <2>2, OwnStays
<1>16. Transfers(y)'
  <2>1. InStep(y, o, b)'
    <3>1. /\ inflight'[y] = inflight[y] /\ current'[y] = current[y] /\ sendTodo'[y] = sendTodo[y]
          /\ recvTodo'[x] = recvTodo[x] /\ incoming'[x] \in Seq(Incomings)
      BY <1>2, <1>8
    <3>2. IncomingOK(o, arrived, b, incoming'[x], recvTodo[x])
      BY <1>7, <1>8
    <3>3. incoming[x] = <<>> => incoming'[x] = <<>> /\ b = a
      BY <1>7, <1>8 DEF I
    <3>4. ReceiveAt(o, b, incoming'[x], recvTodo[x]) = ReceiveAt(o, a, incoming[x], recvTodo[x])
      BY <1>7, <1>8 DEF I
    <3>5. AckRun(o, arrived, AcksAt(a, incoming[x]), xs, AcksAt(b, incoming'[x]))
      BY <1>7, <1>8 DEF I
    <3> QED
      BY <1>1, <1>2, <1>4, <1>7, <1>9, <1>14, <3>1, <3>2, <3>3, <3>4, <3>5, ReceiverMoves
  <2>2. SentOnce(y, o)'
    <3>1. Running(y)' <=> Running(y)
      BY <1>2 DEF Running
    <3> QED
      BY <1>2, <1>4, <3>1 DEF SentOnce
  <2>3. NotYetGiven(y, o, b)'
    <3>1. x = Peer(y) /\ conn'[x] = conn[x]
      BY <1>1, <1>2
    <3>2. ReceiveAt(o, b, incoming'[x], recvTodo'[x]).i = ReceiveAt(o, a, incoming[x], recvTodo[x]).i
      BY <1>2, <1>7, <1>8 DEF I
    <3> QED
      BY <1>1, <1>2, <1>4, <1>7, <3>1, <3>2, NotYetGivenStays
  <2> QED
    BY <1>4, <1>7, <2>1, <2>2, <2>3 DEF Transfers
<1> QED
  BY <1>11, <1>12, <1>13, <1>14, <1>15, <1>16 DEF StepOK

-----------------------------------------------------------------------------
(* The steps of the receiver.                                              *)

\* The next message is one that both transfers of x go on with.
LEMMA NextItem ==
    ASSUME TypeOK, NEW x \in Sides, NEW y, y = Peer(x), Running(x), Pipe(x) # <<>>
    PROVE  /\ \A o \in Seq(Bundles), a \in Nat : InStep(y, o, a) =>
                 \E q \in DataPlaces : DataStep(o, ReceiverPlace(y, o, a), Head(Pipe(x)), q)
           /\ \A o \in Seq(Bundles), a \in Nat : InStep(x, o, a) =>
                 \E q \in AckPlaces :
                    /\ AckStep(o, arrived, AckedPlace(x, o), Head(Pipe(x)), q)
                    /\ NotAhead(q, SenderPlace(x, o))
<1>1. y \in Sides /\ Peer(y) = x /\ Pipe(x) \in Seq(Items)
  BY PeerIs, PipeType
<1>2. ASSUME NEW o \in Seq(Bundles), NEW a \in Nat, InStep(y, o, a)
      PROVE  \E q \in DataPlaces : DataStep(o, ReceiverPlace(y, o, a), Head(Pipe(x)), q)
  <2>1. PICK p \in DataPlaces : DataRun(o, ReceiverPlace(y, o, a), Pipe(x), p)
    BY <1>1, <1>2 DEF InStep, DataAgrees
  <2> QED
    BY <1>1, <2>1, DataRunHead
<1>3. ASSUME NEW o \in Seq(Bundles), NEW a \in Nat, InStep(x, o, a)
      PROVE  \E q \in AckPlaces : /\ AckStep(o, arrived, AckedPlace(x, o), Head(Pipe(x)), q)
                                  /\ NotAhead(q, SenderPlace(x, o))
  <2>1. PICK p \in AckPlaces : /\ AckRun(o, arrived, AckedPlace(x, o), Pipe(x), p)
                               /\ NotAhead(p, SenderPlace(x, o))
    BY <1>3 DEF InStep, AcksAgree
  <2>2. PICK q \in AckPlaces : /\ AckStep(o, arrived, AckedPlace(x, o), Head(Pipe(x)), q)
                               /\ AckRun(o, arrived, q, Tail(Pipe(x)), p)
    BY <1>1, <2>1, AckRunHead
  <2>3. Tail(Pipe(x)) \in Seq(Items) /\ SenderPlace(x, o) \in DataPlaces
    BY <1>1, <1>3, PlacesType, TailIs DEF InStep
  <2>4. NotAhead(q, SenderPlace(x, o))
    BY <2>1, <2>2, <2>3, AckRunBehind
  <2> QED
    BY <2>2, <2>4
<1> QED
  BY <1>2, <1>3

\* process_data takes the message that is at the head of the pipe.
Takes(x) == /\ recvbuf[x] # <<>> /\ recvbuf' = Put(recvbuf, x, Tail(recvbuf[x]))
            /\ sendbuf' = sendbuf /\ wire' = wire /\ queue' = queue
            /\ contacts' = contacts /\ cancelled' = cancelled
            /\ Running(x) /\ conn'[x] = "up" /\ conn'[Peer(x)] = conn[Peer(x)]

LEMMA TakesIs ==
    ASSUME TypeOK, NEW x \in Sides, Takes(x), NEW y, y = Peer(x)
    PROVE  /\ Pipe(y)' = Pipe(y) /\ Pipe(x) # <<>> /\ Pipe(x)' = Tail(Pipe(x))
           /\ Head(Pipe(x)) = Message(x) /\ Message(x) \in Items
           /\ recvbuf' \in [Sides -> Seq(Items)] /\ recvbuf'[y] = recvbuf[y]
           /\ \A s \in Sides : Running(s)' => Running(s)
<1>1. y \in Sides /\ y # x /\ Sides = {x, y}
  BY PeerIs
<1>2. /\ Pipe(y)' = Pipe(y) /\ Pipe(x) # <<>> /\ Pipe(x)' = Tail(Pipe(x))
      /\ Head(Pipe(x)) = Message(x) /\ Message(x) \in Items
      /\ recvbuf' \in [Sides -> Seq(Items)]
  BY TakePipe DEF Takes, Message
<1>3. recvbuf'[y] = recvbuf[y]
  BY <1>1 DEF Takes, Put, TypeOK
<1>4. Running(y)' <=> Running(y)
  BY DEF Takes, Running
<1> QED
  BY <1>1, <1>2, <1>3, <1>4 DEF Takes

\* The message is no acknowledgement.
LEMMA SenderUnmoved ==
    ASSUME TypeOK, NEW x \in Sides, Takes(x), NEW y, y = Peer(x), Transfers(x),
           Message(x).type # "ack", Grows(arrived, arrived'),
           inflight' = inflight, current' = current, sendTodo' = sendTodo,
           incoming'[y] = incoming[y], recvTodo'[y] = recvTodo[y], received'[y] = received[y]
    PROVE  Transfers(x)'
<1>1. PICK o \in Seq(Bundles), a \in Nat : InStep(x, o, a) /\ SentOnce(x, o) /\ NotYetGiven(x, o, a)
  BY DEF Transfers
<1>2. /\ Pipe(y)' = Pipe(y) /\ Pipe(x) # <<>> /\ Pipe(x)' = Tail(Pipe(x))
      /\ Head(Pipe(x)) = Message(x) /\ \A s \in Sides : Running(s)' => Running(s)
  BY TakesIs
<1>3. /\ inflight[x] \in Seq(Flights) /\ current[x] \in Bundles \cup {NoBundle}
      /\ sendTodo[x] \in Nat /\ y \in Sides
  BY EndsType
<1>4. /\ inflight'[x] = inflight[x] /\ current'[x] = current[x] /\ sendTodo'[x] = sendTodo[x]
      /\ queue'[x] = queue[x] /\ contacts' = contacts /\ conn'[y] = conn[y] /\ Running(x)
  BY DEF Takes
<1>5. FlightsOK(o, arrived', inflight[x], current[x], sendTodo[x])
  BY <1>1, <1>3, FlightsGrow DEF InStep, EndsOK
<1>6. SendAt(o, inflight'[x], sendTodo'[x]) = SenderPlace(x, o)
      /\ AckedAt(o, inflight'[x], sendTodo'[x]) = AckedPlace(x, o)
  BY <1>4 DEF SenderPlace, AckedPlace
<1>7. \A q \in AckPlaces :
         AckStep(o, arrived, AckedPlace(x, o), Head(Pipe(x)), q) /\ NotAhead(q, SenderPlace(x, o))
         => /\ FlightsOK(o, arrived', inflight'[x], current'[x], sendTodo'[x])
            /\ AckedAt(o, inflight'[x], sendTodo'[x]) = q
  BY <1>2, <1>4, <1>5, <1>6 DEF AckStep
<1>8. InStep(x, o, a)'
  BY <1>1, <1>2, <1>4, <1>6, <1>7, SenderTakes
<1>9. SentOnce(x, o)'
  BY <1>1, <1>2, <1>4 DEF SentOnce
<1>10. NotYetGiven(x, o, a)'
  <2>1. ReceiveAt(o, a, incoming'[y], recvTodo'[y]).i = ReceiveAt(o, a, incoming[y], recvTodo[y]).i
    OBVIOUS
  <2>2. conn'[y] # "closed" => conn[y] # "closed"
    BY <1>4
  <2> QED
    BY <1>1, <1>4, <2>1, <2>2, NotYetGivenStays
<1> QED
  BY <1>1, <1>8, <1>9, <1>10 DEF Transfers

\* The message does not move the place of the receiver.
LEMMA ReceiverUnmoved ==
    ASSUME TypeOK, NEW x \in Sides, Takes(x), conn[x] = "up", NEW y, y = Peer(x), Transfers(y),
           Message(x).type \in {"ack", "keepalive"}, arrived' = arrived, received' = received,
           inflight'[y] = inflight[y], current'[y] = current[y], sendTodo'[y] = sendTodo[y],
           incoming' = incoming, recvTodo' = recvTodo
    PROVE  Transfers(y)'
<1>1. PICK o \in Seq(Bundles), a \in Nat : InStep(y, o, a) /\ SentOnce(y, o) /\ NotYetGiven(y, o, a)
  BY DEF Transfers
<1>2. /\ Pipe(y)' = Pipe(y) /\ Pipe(x) # <<>> /\ Pipe(x)' = Tail(Pipe(x))
      /\ Head(Pipe(x)) = Message(x) /\ \A s \in Sides : Running(s)' => Running(s)
  BY TakesIs
<1>3. y \in Sides /\ Peer(y) = x /\ arrived \in [Bundles -> Nat]
      /\ incoming[x] \in Seq(Incomings) /\ recvTodo[x] \in Nat
  BY PeerIs DEF TypeOK
<1>4. /\ incoming'[x] = incoming[x] /\ recvTodo'[x] = recvTodo[x]
      /\ queue'[y] = queue[y] /\ contacts' = contacts /\ conn'[y] = conn[y] /\ Running(x)
      /\ conn'[x] = "up" /\ conn'[x] # "closed" /\ received'[x] = received[x]
  BY DEF Takes
<1>5. Grows(arrived, arrived')
  BY <1>3 DEF Grows
<1>6. IncomingOK(o, arrived, a, incoming[x], recvTodo[x])
  BY <1>1, <1>3 DEF InStep, EndsOK
<1>7. ReceiverPlace(y, o, a) = ReceiveAt(o, a, incoming[x], recvTodo[x])
  BY <1>3 DEF ReceiverPlace
<1>8. \A q \in DataPlaces :
         DataStep(o, ReceiverPlace(y, o, a), Head(Pipe(x)), q)
         => /\ IncomingOK(o, arrived', a, incoming'[x], recvTodo'[x])
            /\ ReceiveAt(o, a, incoming'[x], recvTodo'[x]) = q
            /\ AcksAt(a, incoming'[x]) = AcksAt(a, incoming[x])
  BY <1>2, <1>4, <1>6, <1>7 DEF DataStep
<1>9. InStep(y, o, a)'
  BY <1>1, <1>2, <1>4, <1>5, <1>8, ReceiverTakes
<1>10. SentOnce(y, o)'
  BY <1>1, <1>2, <1>3, <1>4 DEF SentOnce
<1>11. NotYetGiven(y, o, a)'
  <2>1. ReceiveAt(o, a, incoming'[x], recvTodo'[x]).i = ReceiveAt(o, a, incoming[x], recvTodo[x]).i
    BY <1>4
  <2>2. conn'[x] # "closed" => conn[x] # "closed"
    OBVIOUS
  <2>3. x = Peer(y)
    BY <1>3
  <2> QED
    BY <1>1, <1>3, <1>4, <2>1, <2>2, <2>3, NotYetGivenStays
<1> QED
  BY <1>1, <1>9, <1>10, <1>11 DEF Transfers

\* The thread goes on with the rest of what it has read.
GoesOn(x) == /\ pc' \in [Sides -> {"loop", "acks", "next", "process"}]
             /\ pc'[Peer(x)] = pc[Peer(x)] /\ pc'[x] \in {"loop", "process"}
             /\ pc'[x] = "process" => recvbuf'[x] # <<>>
             /\ conn' \in [Sides -> {"initiated", "up", "broken", "error", "closed"}]

LEMMA ConsumeIs ==
    ASSUME TypeOK, NEW x \in Sides, Local(x), NEW types, Consume(x, types), ~ProtocolError(x),
           sendbuf' = sendbuf, wire' = wire, queue' = queue, contacts' = contacts,
           cancelled' = cancelled
    PROVE  /\ Takes(x) /\ GoesOn(x) /\ conn[x] = "up" /\ recvTodo[x] = 0
           /\ Message(x).type \in types
<1>1. Peer(x) \in Sides /\ Peer(x) # x
  BY PeerIs
<1>2. /\ pc[x] = "process" /\ conn[x] = "up" /\ recvTodo[x] = 0 /\ Message(x).type \in types
      /\ recvbuf' = Put(recvbuf, x, Tail(recvbuf[x])) /\ conn' = Put(conn, x, "up")
      /\ pc' = Put(pc, x, IF Tail(recvbuf[x]) = <<>> THEN "loop" ELSE "process")
  BY DEF Consume
<1>3. recvbuf[x] # <<>> /\ Running(x)
  BY <1>2 DEF Local, ThreadOK, Running
<1>4. conn'[x] = "up" /\ conn'[Peer(x)] = conn[Peer(x)]
      /\ conn' \in [Sides -> {"initiated", "up", "broken", "error", "closed"}]
  BY <1>1, <1>2 DEF TypeOK, Put
<1>5. recvbuf'[x] = Tail(recvbuf[x])
  BY <1>2 DEF TypeOK, Put
<1>6. /\ pc' \in [Sides -> {"loop", "acks", "next", "process"}]
      /\ pc'[Peer(x)] = pc[Peer(x)] /\ pc'[x] \in {"loop", "process"}
      /\ pc'[x] = "process" => recvbuf'[x] # <<>>
  BY <1>1, <1>2, <1>5 DEF TypeOK, Put
<1> QED
  BY <1>2, <1>3, <1>4, <1>6 DEF Takes, GoesOn

\* What is left of the thread's own invariants.
LEMMA TookLocal ==
    ASSUME TypeOK, NEW x \in Sides, Takes(x), GoesOn(x), Apart(queue[x], inflight'[x])
    PROVE  Local(x)'
<1>1. ThreadOK(x)'
  BY DEF Takes, GoesOn, ThreadOK, Running
<1>2. ClosedOK(x)'
  BY DEF Takes, ClosedOK
<1>3. QueueOK(x)'
  BY DEF Takes, QueueOK, Apart
<1> QED
  BY <1>1, <1>2, <1>3 DEF Local

\* What the types of the messages a side waits for say of a place.
LEMMA StepTypes ==
    ASSUME NEW o, NEW p \in DataPlaces, NEW x \in Items, NEW q, DataStep(o, p, x, q)
    PROVE  /\ p.i > 0 => x.type # "header"
           /\ p.todo = 0 => x.type # "data"
           /\ p.todo > 0 => x.type = "data"
           /\ p = Start => x.type = "header" /\ q = Place(1, 0, 0)
<1>1. Start.i = 0 /\ Start.todo = 0 /\ p.i \in Nat /\ p.todo \in Nat
  BY DEF Start, Place, DataPlaces
<1>2. CASE x.type = "header"
  BY <1>1, <1>2 DEF DataStep
<1>3. CASE x.type \in {"ack", "keepalive", "shutdown"}
  BY <1>1, <1>3 DEF DataStep
<1>4. CASE x.type = "segment"
  BY <1>1, <1>4 DEF DataStep
<1>5. CASE x.type = "data"
  <2>1. p.todo > 0 /\ p.i > 0
    BY <1>1, <1>5 DEF DataStep
  <2> QED
    BY <1>1, <1>5, <2>1
<1>6. x.type \in {"header", "ack", "keepalive", "shutdown", "segment", "data"}
  BY DEF Items
<1> QED
  BY <1>2, <1>3, <1>4, <1>5, <1>6

LEMMA HandleContactInitiationStep ==
    ASSUME IInv, NEW x \in Sides, HandleContactInitiation(x)
    PROVE  StepOK(x)
<1> DEFINE y == Peer(x)
<1>1. TypeOK /\ Transfers(x) /\ Transfers(y) /\ Local(x) /\ y \in Sides /\ y # x /\ Peer(y) = x
  BY StepFrom
<1>2. /\ pc[x] = "process" /\ conn[x] = "initiated" /\ Message(x) = Header
      /\ conn' = Put(conn, x, "up") /\ pc' = Put(pc, x, "loop")
      /\ recvbuf' = Put(recvbuf, x, Tail(recvbuf[x]))
      /\ queue' = queue /\ inflight' = inflight /\ current' = current /\ sendTodo' = sendTodo
      /\ sendbuf' = sendbuf /\ wire' = wire /\ incoming' = incoming /\ recvTodo' = recvTodo
      /\ contacts' = contacts /\ transmitted' = transmitted /\ received' = received
      /\ cancelled' = cancelled /\ arrived' = arrived
  BY DEF HandleContactInitiation, Message, sending, posted
<1>3. /\ conn' \in [Sides -> {"initiated", "up", "broken", "error", "closed"}]
      /\ conn'[x] = "up" /\ conn'[y] = conn[y]
      /\ pc' \in [Sides -> {"loop", "acks", "next", "process"}] /\ pc'[x] = "loop"
      /\ pc'[y] = pc[y]
  BY <1>1, <1>2 DEF TypeOK, Put
<1>4. Takes(x) /\ GoesOn(x)
  BY <1>1, <1>2, <1>3 DEF Takes, GoesOn, Running, Local, ThreadOK
<1>5. y = Peer(x)
  OBVIOUS
<1>6. /\ Pipe(y)' = Pipe(y) /\ Pipe(x) # <<>> /\ Pipe(x)' = Tail(Pipe(x))
      /\ Head(Pipe(x)) = Message(x) /\ recvbuf' \in [Sides -> Seq(Items)] /\ recvbuf'[y] = recvbuf[y]
      /\ Message(x) \in Items
  BY <1>1, <1>4, TakesIs
<1> HIDE DEF y
<1>7. TypeOK'
  BY <1>1, <1>2, <1>3, <1>6 DEF TypeOK
<1>8. Kept(y)
  BY <1>2, <1>3, <1>6 DEF Kept
<1>9. arrived \in [Bundles -> Nat] /\ Grows(arrived, arrived')
  <2>1. arrived \in [Bundles -> Nat]
    BY <1>1 DEF TypeOK
  <2> QED
    BY <1>2, <2>1 DEF Grows
<1>10. Transfers(x)'
  <2>1. Message(x).type # "ack"
    BY <1>2 DEF Header
  <2>2. incoming'[y] = incoming[y] /\ recvTodo'[y] = recvTodo[y] /\ received'[y] = received[y]
    BY <1>2
  <2> QED
    BY <1>1, <1>2, <1>4, <1>5, <1>9, <2>1, <2>2, SenderUnmoved
<1>11. Transfers(y)'
  <2>1. PICK o \in Seq(Bundles), a \in Nat : InStep(y, o, a) /\ SentOnce(y, o) /\ NotYetGiven(y, o, a)
    BY <1>1 DEF Transfers
  <2>2. /\ incoming'[x] = incoming[x] /\ recvTodo'[x] = recvTodo[x]
        /\ inflight'[y] = inflight[y] /\ current'[y] = current[y] /\ sendTodo'[y] = sendTodo[y]
        /\ queue'[y] = queue[y] /\ received'[x] = received[x] /\ Running(x)
        /\ conn'[x] # "closed" /\ conn[x] # "closed"
    BY <1>2, <1>3 DEF Running
  <2>3. /\ incoming[x] = <<>> /\ a = 1 /\ IncomingOK(o, arrived, a, incoming[x], recvTodo[x])
        /\ ReceiverPlace(y, o, a) = Start
    BY <1>1, <1>2, <2>1 DEF InStep, EndsOK, ReceiverPlace
  <2>4. ReceiveAt(o, a, incoming[x], recvTodo[x]) = Place(1, 0, 0)
    BY <2>3 DEF ReceiveAt
  <2>5. ReceiverPlace(y, o, a) \in DataPlaces
    BY <1>1, <2>1, PlacesType DEF InStep
  <2>6. \A q \in DataPlaces :
           DataStep(o, ReceiverPlace(y, o, a), Head(Pipe(x)), q)
           => /\ IncomingOK(o, arrived', a, incoming'[x], recvTodo'[x])
              /\ ReceiveAt(o, a, incoming'[x], recvTodo'[x]) = q
              /\ AcksAt(a, incoming'[x]) = AcksAt(a, incoming[x])
    BY <1>2, <1>6, <2>2, <2>3, <2>4, <2>5, StepTypes
  <2>7. InStep(y, o, a)'
    BY <1>1, <1>3, <1>5, <1>6, <1>9, <2>1, <2>2, <2>6, ReceiverTakes
  <2>8. SentOnce(y, o)'
    <3>1. Running(y)' <=> Running(y)
      BY <1>3 DEF Running
    <3> QED
      BY <2>1, <2>2, <3>1 DEF SentOnce
  <2>9. NotYetGiven(y, o, a)'
    <3>1. ReceiveAt(o, a, incoming'[x], recvTodo'[x]).i = ReceiveAt(o, a, incoming[x], recvTodo[x]).i
      BY <2>2
    <3>2. x = Peer(y)
      BY <1>1
    <3> QED
      BY <1>1, <1>2, <2>1, <2>2, <3>1, <3>2, NotYetGivenStays
  <2> QED
    BY <2>1, <2>7, <2>8, <2>9 DEF Transfers
<1>12. Local(x)'
  <2>1. Apart(queue[x], inflight'[x])
    BY <1>1, <1>2 DEF Local, QueueOK, Apart
  <2> QED
    BY <1>1, <1>4, <2>1, TookLocal
<1> QED
  BY <1>5, <1>7, <1>8, <1>10, <1>11, <1>12 DEF StepOK

LEMMA HandleOtherStep ==
    ASSUME IInv, NEW x \in Sides, HandleOther(x)
    PROVE  StepOK(x)
<1> DEFINE y == Peer(x)
           types == {"keepalive", "header", "data"}
<1>1. TypeOK /\ Transfers(x) /\ Transfers(y) /\ Local(x) /\ y \in Sides /\ y # x /\ Peer(y) = x
  BY StepFrom
<1>2. /\ Consume(x, types)
      /\ queue' = queue /\ inflight' = inflight /\ current' = current /\ sendTodo' = sendTodo
      /\ sendbuf' = sendbuf /\ wire' = wire /\ incoming' = incoming /\ recvTodo' = recvTodo
      /\ contacts' = contacts /\ transmitted' = transmitted /\ received' = received
      /\ cancelled' = cancelled /\ arrived' = arrived
  BY DEF HandleOther, sending, posted
<1>3. Message(x).type = "keepalive"
  <2>1. /\ conn[x] = "up" /\ recvTodo[x] = 0 /\ Running(x) /\ Message(x).type \in types
        /\ recvbuf[x] # <<>> /\ recvbuf' = Put(recvbuf, x, Tail(recvbuf[x]))
    BY <1>1, <1>2 DEF Consume, Running, Local, ThreadOK
  <2>2. PICK o \in Seq(Bundles), a \in Nat : InStep(y, o, a)
    BY <1>1 DEF Transfers
  <2>3. Pipe(x) # <<>> /\ Head(Pipe(x)) = Message(x) /\ Message(x) \in Items
    BY <1>1, <1>2, <2>1, TakePipe DEF Message
  <2>4. PICK q \in DataPlaces : DataStep(o, ReceiverPlace(y, o, a), Message(x), q)
    BY <1>1, <2>1, <2>2, <2>3, NextItem
  <2>5. ReceiverPlace(y, o, a) \in DataPlaces
    BY <1>1, <2>2, PlacesType DEF InStep
  <2>6. ReceiverPlace(y, o, a) = ReceiveAt(o, a, incoming[x], recvTodo[x])
    BY <1>1, <2>1 DEF ReceiverPlace
  <2>7. /\ IncomingOK(o, arrived, a, incoming[x], recvTodo[x]) /\ arrived \in [Bundles -> Nat]
        /\ incoming[x] \in Seq(Incomings) /\ recvTodo[x] \in Nat
    BY <1>1, <2>2 DEF InStep, EndsOK, TypeOK
  <2>8. ReceiverPlace(y, o, a).i > 0
    BY <2>2, <2>6, <2>7, ReceiveAtType
  <2>9. ReceiverPlace(y, o, a).todo = 0 \/ ReceiverPlace(y, o, a).todo > 0
    BY <2>5 DEF DataPlaces
  <2>10. ReceiverPlace(y, o, a).todo = 0
    <3>1. ReceiverPlace(y, o, a).todo = recvTodo[x] \/ ReceiverPlace(y, o, a).todo = 0
      BY <2>6 DEF ReceiveAt, After, Place
    <3> QED
      BY <2>1, <3>1
  <2> QED
    BY <2>1, <2>3, <2>4, <2>5, <2>8, <2>10, StepTypes
<1>4. ~ProtocolError(x)
  BY <1>3 DEF ProtocolError
<1>5. Takes(x) /\ GoesOn(x) /\ conn[x] = "up"
  BY <1>1, <1>2, <1>4, ConsumeIs
<1>6. y = Peer(x)
  OBVIOUS
<1> HIDE DEF y
<1>7. /\ recvbuf' \in [Sides -> Seq(Items)] /\ recvbuf'[y] = recvbuf[y]
      /\ conn'[y] = conn[y]
      /\ conn' \in [Sides -> {"initiated", "up", "broken", "error", "closed"}]
      /\ pc' \in [Sides -> {"loop", "acks", "next", "process"}] /\ pc'[y] = pc[y]
  BY <1>1, <1>5, <1>6, TakesIs DEF Takes, GoesOn
<1>8. TypeOK'
  BY <1>1, <1>2, <1>7 DEF TypeOK
<1>9. Kept(y)
  BY <1>2, <1>7 DEF Kept
<1>10. Transfers(x)'
  <2>1. arrived \in [Bundles -> Nat]
    BY <1>1 DEF TypeOK
  <2>2. Grows(arrived, arrived')
    BY <1>2, <2>1 DEF Grows
  <2>3. incoming'[y] = incoming[y] /\ recvTodo'[y] = recvTodo[y] /\ received'[y] = received[y]
    BY <1>2
  <2>4. Message(x).type # "ack"
    BY <1>3
  <2> QED
    BY <1>1, <1>2, <1>5, <1>6, <2>2, <2>3, <2>4, SenderUnmoved
<1>11. Transfers(y)'
  <2>1. inflight'[y] = inflight[y] /\ current'[y] = current[y] /\ sendTodo'[y] = sendTodo[y]
        /\ Message(x).type \in {"ack", "keepalive"}
    BY <1>2, <1>3
  <2> QED
    BY <1>1, <1>2, <1>5, <1>6, <2>1, ReceiverUnmoved
<1>12. Local(x)'
  <2>1. Apart(queue[x], inflight'[x])
    BY <1>1, <1>2 DEF Local, QueueOK, Apart
  <2> QED
    BY <1>1, <1>5, <2>1, TookLocal
<1> QED
  BY <1>6, <1>8, <1>9, <1>10, <1>11, <1>12 DEF StepOK

\* The bundles in flight after an acknowledgement are among those before it.
LEMMA AckedApart ==
    ASSUME NEW F \in Seq(Flights), F # <<>>, NEW g \in Flights, g.bundle = Head(F).bundle,
           NEW G, G = Tail(F) \/ G = <<g>> \o Tail(F), NEW q, Apart(q, F)
    PROVE  /\ Apart(q, G)
           /\ G # <<>> => Last(G).bundle = Last(F).bundle
<1>1. /\ Len(F) \in Nat /\ Len(F) > 0 /\ Head(F) = F[1] /\ DOMAIN F = 1..Len(F)
      /\ Tail(F) \in Seq(Flights) /\ Len(Tail(F)) = Len(F) - 1
      /\ \A k \in 1..(Len(F) - 1) : k + 1 \in 1..Len(F) /\ Tail(F)[k] = F[k + 1]
      /\ (Tail(F) # <<>> => Last(Tail(F)) = Last(F))
  BY TailIs
<1>2. CASE G = Tail(F)
  <2>1. DOMAIN G = 1..(Len(F) - 1)
    BY <1>1, <1>2
  <2> QED
    BY <1>1, <1>2, <2>1 DEF Apart
<1>3. CASE G = <<g>> \o Tail(F)
  <2>1. /\ G \in Seq(Flights) /\ Len(G) = Len(F) /\ G[1] = g
        /\ \A k \in 1..Len(F) : k # 1 => G[k] = F[k]
        /\ (Len(F) > 1 => Last(G) = Last(F))
        /\ (Len(F) = 1 => Last(G) = g /\ Last(F) = Head(F))
    BY <1>3, NewHeadIs
  <2>2. DOMAIN G = 1..Len(F) /\ \A k \in 1..Len(F) : G[k].bundle = F[k].bundle
    BY <1>1, <2>1
  <2>3. Last(G).bundle = Last(F).bundle
    BY <1>1, <2>1
  <2> QED
    BY <1>1, <2>2, <2>3 DEF Apart
<1> QED
  BY <1>2, <1>3


\* What is the case when an acknowledgement x comes.
AckComes(o, r, F, cur, todo, x, q) ==
    /\ o \in Seq(Bundles) /\ r \in [Bundles -> Nat] /\ F \in Seq(Flights)
    /\ cur \in Bundles \cup {NoBundle} /\ todo \in Nat /\ FlightsOK(o, r, F, cur, todo)
    /\ x \in Items /\ x.type = "ack" /\ q \in AckPlaces
    /\ AckStep(o, r, AckedAt(o, F, todo), x, q) /\ NotAhead(q, SendAt(o, F, todo))

LEMMA AckTaken ==
    ASSUME NEW o, NEW r, NEW F, NEW cur, NEW todo, NEW x, NEW q, AckComes(o, r, F, cur, todo, x, q)
    PROVE  LET G == AfterAck(F, cur, x.len)
           IN  /\ F # <<>> /\ x.len > Head(F).acked /\ x.len \in Nat
               /\ G \in Seq(Flights) /\ FlightsOK(o, r, G, cur, todo)
               /\ SendAt(o, G, todo) = SendAt(o, F, todo) /\ AckedAt(o, G, todo) = q
               /\ (Unsent(G, todo) <=> Unsent(F, todo))
<1>1. /\ o \in Seq(Bundles) /\ r \in [Bundles -> Nat] /\ F \in Seq(Flights)
      /\ cur \in Bundles \cup {NoBundle} /\ todo \in Nat /\ FlightsOK(o, r, F, cur, todo)
      /\ x \in Items /\ x.type = "ack" /\ q \in AckPlaces
      /\ AckStep(o, r, AckedAt(o, F, todo), x, q) /\ NotAhead(q, SendAt(o, F, todo))
  BY DEF AckComes
<1> QED
  BY <1>1, AckFlight

LEMMA HandleAckSegmentStep ==
    ASSUME IInv, NEW x \in Sides, HandleAckSegment(x)
    PROVE  StepOK(x)
<1> DEFINE y == Peer(x)
           m == Message(x)
           F == inflight[x]
           f == [Head(F) EXCEPT !.acked = m.len]
           final == m.len = Length[f.bundle]
           g == [f EXCEPT !.posted = @ \/ final]
           G == IF final /\ current[x] # f.bundle THEN Tail(F) ELSE <<g>> \o Tail(F)
<1>1. TypeOK /\ Transfers(x) /\ Transfers(y) /\ Local(x) /\ y \in Sides /\ y # x /\ Peer(y) = x
  BY StepFrom
<1>2. /\ Consume(x, {"ack"})
      /\ queue' = queue /\ current' = current /\ sendTodo' = sendTodo
      /\ sendbuf' = sendbuf /\ wire' = wire /\ incoming' = incoming /\ recvTodo' = recvTodo
      /\ contacts' = contacts /\ received' = received
      /\ cancelled' = cancelled /\ arrived' = arrived
  BY DEF HandleAckSegment
<1>3. /\ conn[x] = "up" /\ recvTodo[x] = 0 /\ Running(x) /\ m.type = "ack" /\ recvbuf[x] # <<>>
      /\ recvbuf' = Put(recvbuf, x, Tail(recvbuf[x]))
  BY <1>1, <1>2 DEF Consume, Running, Local, ThreadOK
<1>4. PICK o \in Seq(Bundles), a \in Nat : InStep(x, o, a) /\ SentOnce(x, o) /\ NotYetGiven(x, o, a)
  BY <1>1 DEF Transfers
<1>5. /\ Pipe(x) # <<>> /\ Head(Pipe(x)) = m /\ m \in Items
      /\ Pipe(y)' = Pipe(y) /\ Pipe(x)' = Tail(Pipe(x))
  BY <1>1, <1>2, <1>3, TakePipe DEF Message
<1>6. /\ F \in Seq(Flights) /\ current[x] \in Bundles \cup {NoBundle} /\ sendTodo[x] \in Nat
      /\ arrived \in [Bundles -> Nat]
  BY <1>1, EndsType
<1>7. FlightsOK(o, arrived, F, current[x], sendTodo[x])
  BY <1>4 DEF InStep, EndsOK
<1>8. /\ SenderPlace(x, o) = SendAt(o, F, sendTodo[x])
      /\ AckedPlace(x, o) = AckedAt(o, F, sendTodo[x])
  BY DEF SenderPlace, AckedPlace
<1>9. ASSUME NEW q \in AckPlaces, AckStep(o, arrived, AckedPlace(x, o), m, q),
             NotAhead(q, SenderPlace(x, o))
      PROVE  /\ F # <<>> /\ m.len > Head(F).acked /\ m.len \in Nat
             /\ G \in Seq(Flights) /\ FlightsOK(o, arrived, G, current[x], sendTodo[x])
             /\ SendAt(o, G, sendTodo[x]) = SendAt(o, F, sendTodo[x])
             /\ AckedAt(o, G, sendTodo[x]) = q
             /\ (Unsent(G, sendTodo[x]) <=> Unsent(F, sendTodo[x]))
  <2>1. AckStep(o, arrived, AckedAt(o, F, sendTodo[x]), m, q)
        /\ NotAhead(q, SendAt(o, F, sendTodo[x]))
    BY <1>8, <1>9
  <2>2. G = AfterAck(F, current[x], m.len)
    BY DEF AfterAck
  <2> DEFINE cur == current[x]
             todo == sendTodo[x]
  <2> HIDE DEF F, m, G, cur, todo
  <2>3. AckComes(o, arrived, F, cur, todo, m, q)
    BY <1>3, <1>4, <1>5, <1>6, <1>7, <1>9, <2>1 DEF AckComes, cur, todo
  <2>4. G = AfterAck(F, cur, m.len)
    BY <2>2 DEF cur
  <2>5. /\ F # <<>> /\ m.len > Head(F).acked /\ m.len \in Nat
        /\ G \in Seq(Flights) /\ FlightsOK(o, arrived, G, cur, todo)
        /\ SendAt(o, G, todo) = SendAt(o, F, todo)
        /\ AckedAt(o, G, todo) = q
        /\ (Unsent(G, todo) <=> Unsent(F, todo))
    BY <2>3, <2>4, AckTaken
  <2> QED
    BY <2>5 DEF cur, todo
<1>10. \E q \in AckPlaces : AckStep(o, arrived, AckedPlace(x, o), m, q) /\ NotAhead(q, SenderPlace(x, o))
  <2>1. y = Peer(x)
    OBVIOUS
  <2> QED
    BY <1>1, <1>3, <1>4, <1>5, <2>1, NextItem
<1>11. /\ F # <<>> /\ m.len > Head(F).acked /\ m.len \in Nat /\ G \in Seq(Flights)
       /\ SendAt(o, G, sendTodo[x]) = SendAt(o, F, sendTodo[x])
       /\ (Unsent(G, sendTodo[x]) <=> Unsent(F, sendTodo[x]))
  <2> HIDE DEF F, G, m
  <2> QED
    BY <1>9, <1>10
<1>12. Head(F) \in Flights /\ Head(F).acked \in Nat
  <2>1. Head(F) \in Flights
    <3> HIDE DEF F
    <3> QED
      BY <1>6, <1>11, TailIs
  <2> QED
    BY <2>1 DEF Flights
<1>13. ~ProtocolError(x)
  <2>1. ~(m.len < Head(F).acked)
    <3> DEFINE u == m.len
               v == Head(F).acked
    <3>1. u \in Nat /\ v \in Nat /\ u > v
      BY <1>11, <1>12
    <3> HIDE DEF u, v
    <3>2. ~(u < v)
      BY <3>1
    <3> QED
      BY <3>2 DEF u, v
  <2> HIDE DEF f, G
  <2> QED
    BY <1>3, <1>11, <2>1 DEF ProtocolError
<1>14. Takes(x) /\ GoesOn(x)
  BY <1>1, <1>2, <1>13, ConsumeIs
<1>15. f \in Flights /\ f.bundle = Head(F).bundle /\ g \in Flights /\ g.bundle = Head(F).bundle
  <2> DEFINE h == Head(F)
             n == m.len
  <2>1. h \in Flights /\ n \in Nat
    BY <1>11, <1>12
  <2> HIDE DEF h, n, m
  <2>2. [h EXCEPT !.acked = n] \in Flights /\ [h EXCEPT !.acked = n].bundle = h.bundle
    BY <2>1 DEF Flights
  <2>3. f \in Flights /\ f.bundle = h.bundle
    BY <2>2 DEF h, n
  <2> HIDE DEF f, final
  <2>4. g \in Flights /\ g.bundle = f.bundle
    <3>1. (f.posted \/ final) \in BOOLEAN
      OBVIOUS
    <3> QED
      BY <2>3 DEF Flights
  <2> QED
    BY <2>3, <2>4 DEF h
<1>16. inflight' = Put(inflight, x, G)
       /\ transmitted' = IF final THEN Put(transmitted, x, Append(transmitted[x], Report(f)))
                         ELSE transmitted
  BY <1>13 DEF HandleAckSegment
<1>17. /\ inflight' \in [Sides -> Seq(Flights)] /\ inflight'[x] = G /\ inflight'[y] = inflight[y]
  <2> HIDE DEF G
  <2> QED
    BY <1>1, <1>11, <1>16 DEF TypeOK, Put
<1>18. transmitted' \in [Sides -> Seq([bundle : Bundles, sent : Nat, acked : Nat])]
  <2> DEFINE S == [bundle : Bundles, sent : Nat, acked : Nat]
             r == Report(f)
  <2>1. r \in S
    <3> HIDE DEF f
    <3> QED
      BY <1>15 DEF Report, Flights
  <2>2. transmitted \in [Sides -> Seq(S)]
    BY <1>1 DEF TypeOK
  <2> HIDE DEF S, r, final, f
  <2>3. Append(transmitted[x], r) \in Seq(S)
    BY <2>1, <2>2
  <2>4. Put(transmitted, x, Append(transmitted[x], r)) \in [Sides -> Seq(S)]
    BY <2>2, <2>3 DEF Put
  <2> QED
    BY <1>16, <2>2, <2>4 DEF r, S
<1>19. /\ Apart(queue[x], G) /\ (G # <<>> => Last(G).bundle = Last(F).bundle)
  <2>1. Apart(queue[x], F)
    BY <1>1 DEF Local, QueueOK, Apart
  <2>2. G = Tail(F) \/ G = <<g>> \o Tail(F)
    OBVIOUS
  <2> HIDE DEF F, G, g
  <2> QED
    BY <1>6, <1>11, <1>15, <2>1, <2>2, AckedApart
<1>20. y = Peer(x)
  OBVIOUS
<1> HIDE DEF y, F, G, f, g, m, final
<1>21. /\ recvbuf' \in [Sides -> Seq(Items)] /\ recvbuf'[y] = recvbuf[y]
       /\ conn'[y] = conn[y] /\ Running(x) /\ (\A s \in Sides : Running(s)' => Running(s))
       /\ conn' \in [Sides -> {"initiated", "up", "broken", "error", "closed"}]
       /\ pc' \in [Sides -> {"loop", "acks", "next", "process"}] /\ pc'[y] = pc[y]
  BY <1>1, <1>14, <1>20, TakesIs DEF Takes, GoesOn
<1>22. TypeOK'
  BY <1>1, <1>2, <1>17, <1>18, <1>21 DEF TypeOK
<1>23. Kept(y)
  BY <1>2, <1>17, <1>21 DEF Kept
<1>24. Transfers(x)'
  <2>1. Grows(arrived, arrived')
    BY <1>2, <1>6 DEF Grows
  <2>2. incoming'[y] = incoming[y] /\ recvTodo'[y] = recvTodo[y] /\ received'[y] = received[y]
        /\ queue'[x] = queue[x] /\ sendTodo'[x] = sendTodo[x] /\ current'[x] = current[x]
    BY <1>2
  <2>3. SendAt(o, inflight'[x], sendTodo'[x]) = SenderPlace(x, o)
    BY <1>8, <1>11, <1>17, <2>2
  <2>4. \A q \in AckPlaces :
           AckStep(o, arrived, AckedPlace(x, o), Head(Pipe(x)), q) /\ NotAhead(q, SenderPlace(x, o))
           => /\ FlightsOK(o, arrived', inflight'[x], current'[x], sendTodo'[x])
              /\ AckedAt(o, inflight'[x], sendTodo'[x]) = q
    BY <1>2, <1>5, <1>9, <1>17, <2>2
  <2>5. InStep(x, o, a)'
    BY <1>1, <1>4, <1>5, <1>20, <1>21, <2>1, <2>2, <2>3, <2>4, SenderTakes
  <2>6. SentOnce(x, o)'
    <3>1. Unsent(inflight'[x], sendTodo'[x]) =>
             Unsent(inflight[x], sendTodo[x]) /\ Last(inflight'[x]).bundle = Last(inflight[x]).bundle
      BY <1>11, <1>17, <1>19, <2>2 DEF Unsent, F
    <3> QED
      BY <1>4, <1>21, <2>2, <3>1, SentOnceStays
  <2>7. NotYetGiven(x, o, a)'
    <3>1. ReceiveAt(o, a, incoming'[y], recvTodo'[y]).i = ReceiveAt(o, a, incoming[y], recvTodo[y]).i
          /\ (conn'[y] # "closed" => conn[y] # "closed")
      BY <1>21, <2>2
    <3> QED
      BY <1>2, <1>4, <1>20, <2>2, <3>1, NotYetGivenStays
  <2> QED
    BY <1>4, <2>5, <2>6, <2>7 DEF Transfers
<1>25. Transfers(y)'
  <2>1. inflight'[y] = inflight[y] /\ current'[y] = current[y] /\ sendTodo'[y] = sendTodo[y]
        /\ Message(x).type \in {"ack", "keepalive"}
    BY <1>2, <1>3, <1>17 DEF m
  <2> QED
    BY <1>1, <1>2, <1>3, <1>14, <1>20, <2>1, ReceiverUnmoved
<1>26. Local(x)'
  <2>1. Apart(queue[x], inflight'[x])
    BY <1>17, <1>19
  <2> QED
    BY <1>1, <1>14, <2>1, TookLocal
<1> QED
  BY <1>20, <1>22, <1>23, <1>24, <1>25, <1>26 DEF StepOK

\* What is the case when the header m of a segment comes.
SegmentComes(o, r, a, I, m, q) ==
    /\ o \in Seq(Bundles) /\ r \in [Bundles -> Nat] /\ a \in Nat /\ I \in Seq(Incomings)
    /\ IncomingOK(o, r, a, I, 0) /\ m \in Items /\ m.type = "segment" /\ q \in DataPlaces
    /\ DataStep(o, ReceiveAt(o, a, I, 0), m, q)

LEMMA SegmentTaken ==
    ASSUME NEW o, NEW r, NEW a, NEW I, NEW m, NEW q, SegmentComes(o, r, a, I, m, q)
    PROVE  LET J == AfterSegment(I, m)
           IN  /\ IF m.start THEN I = <<>> \/ Last(I).total # 0 ELSE I # <<>>
               /\ m.len \in Nat
               /\ J \in Seq(Incomings) /\ IncomingOK(o, r, a, J, m.len)
               /\ ReceiveAt(o, a, J, m.len) = q /\ q.i = ReceiveAt(o, a, I, 0).i
               /\ AcksAt(a, J) = AcksAt(a, I)
<1>1. /\ o \in Seq(Bundles) /\ r \in [Bundles -> Nat] /\ a \in Nat /\ I \in Seq(Incomings)
      /\ IncomingOK(o, r, a, I, 0) /\ m \in Items /\ m.type = "segment" /\ q \in DataPlaces
      /\ DataStep(o, ReceiveAt(o, a, I, 0), m, q)
  BY DEF SegmentComes
<1> QED
  BY <1>1, ReceiveSegment

LEMMA HandleDataSegmentStep ==
    ASSUME IInv, NEW x \in Sides, HandleDataSegment(x)
    PROVE  StepOK(x)
<1> DEFINE y == Peer(x)
           m == Message(x)
           I == incoming[x]
           J == AfterSegment(I, m)
<1>1. TypeOK /\ Transfers(x) /\ Transfers(y) /\ Local(x) /\ y \in Sides /\ y # x /\ Peer(y) = x
  BY StepFrom
<1>2. /\ Consume(x, {"segment"})
      /\ queue' = queue /\ inflight' = inflight /\ current' = current /\ sendTodo' = sendTodo
      /\ sendbuf' = sendbuf /\ wire' = wire
      /\ contacts' = contacts /\ transmitted' = transmitted /\ received' = received
      /\ cancelled' = cancelled /\ arrived' = arrived
  BY DEF HandleDataSegment, sending, posted
<1>3. /\ conn[x] = "up" /\ recvTodo[x] = 0 /\ Running(x) /\ m.type = "segment"
      /\ recvbuf[x] # <<>> /\ recvbuf' = Put(recvbuf, x, Tail(recvbuf[x]))
  BY <1>1, <1>2 DEF Consume, Running, Local, ThreadOK
<1>4. PICK o \in Seq(Bundles), a \in Nat : InStep(y, o, a) /\ SentOnce(y, o) /\ NotYetGiven(y, o, a)
  BY <1>1 DEF Transfers
<1>5. /\ Pipe(x) # <<>> /\ Head(Pipe(x)) = m /\ m \in Items
      /\ Pipe(y)' = Pipe(y) /\ Pipe(x)' = Tail(Pipe(x))
  BY <1>1, <1>2, <1>3, TakePipe DEF Message
<1>6. /\ I \in Seq(Incomings) /\ arrived \in [Bundles -> Nat]
      /\ incoming \in [Sides -> Seq(Incomings)] /\ recvTodo \in [Sides -> Nat]
  BY <1>1 DEF TypeOK
<1>7. IncomingOK(o, arrived, a, I, 0)
  BY <1>1, <1>3, <1>4 DEF InStep, EndsOK
<1>8. ReceiverPlace(y, o, a) = ReceiveAt(o, a, I, 0)
  BY <1>1, <1>3 DEF ReceiverPlace
<1>9. ASSUME NEW q \in DataPlaces, DataStep(o, ReceiverPlace(y, o, a), m, q)
      PROVE  /\ IF m.start THEN I = <<>> \/ Last(I).total # 0 ELSE I # <<>>
             /\ m.len \in Nat
             /\ J \in Seq(Incomings) /\ IncomingOK(o, arrived, a, J, m.len)
             /\ ReceiveAt(o, a, J, m.len) = q /\ q.i = ReceiveAt(o, a, I, 0).i
             /\ AcksAt(a, J) = AcksAt(a, I)
  <2> HIDE DEF I, m, J
  <2>1. DataStep(o, ReceiveAt(o, a, I, 0), m, q)
    BY <1>8, <1>9
  <2>2. SegmentComes(o, arrived, a, I, m, q)
    BY <1>3, <1>4, <1>5, <1>6, <1>7, <1>9, <2>1 DEF SegmentComes
  <2>3. J = AfterSegment(I, m)
    BY DEF J
  <2> QED
    BY <2>2, <2>3, SegmentTaken
<1>10. \E q \in DataPlaces : DataStep(o, ReceiverPlace(y, o, a), m, q)
  <2>1. y = Peer(x)
    OBVIOUS
  <2> QED
    BY <1>1, <1>3, <1>4, <1>5, <2>1, NextItem
<1>11. /\ IF m.start THEN I = <<>> \/ Last(I).total # 0 ELSE I # <<>>
       /\ m.len \in Nat /\ J \in Seq(Incomings)
       /\ ReceiveAt(o, a, J, m.len).i = ReceiveAt(o, a, I, 0).i
  <2> HIDE DEF I, m, J
  <2> QED
    BY <1>9, <1>10
<1>12. ~ProtocolError(x)
  <2> HIDE DEF J
  <2> QED
    BY <1>3, <1>11 DEF ProtocolError
<1>13. Takes(x) /\ GoesOn(x)
  BY <1>1, <1>2, <1>12, ConsumeIs
<1>14. incoming' = Put(incoming, x, J) /\ recvTodo' = Put(recvTodo, x, m.len)
  BY <1>12 DEF HandleDataSegment, AfterSegment
<1>15. /\ incoming' \in [Sides -> Seq(Incomings)] /\ incoming'[x] = J /\ incoming'[y] = incoming[y]
       /\ recvTodo' \in [Sides -> Nat] /\ recvTodo'[x] = m.len /\ recvTodo'[y] = recvTodo[y]
  <2> HIDE DEF J, m
  <2> QED
    BY <1>1, <1>6, <1>11, <1>14 DEF Put
<1>16. y = Peer(x)
  OBVIOUS
<1> HIDE DEF y, m, I, J
<1>17. /\ recvbuf' \in [Sides -> Seq(Items)] /\ recvbuf'[y] = recvbuf[y]
       /\ conn'[y] = conn[y] /\ conn'[x] = "up" /\ Running(x)
       /\ conn' \in [Sides -> {"initiated", "up", "broken", "error", "closed"}]
       /\ pc' \in [Sides -> {"loop", "acks", "next", "process"}] /\ pc'[y] = pc[y]
  BY <1>1, <1>13, <1>16, TakesIs DEF Takes, GoesOn
<1>18. TypeOK'
  BY <1>1, <1>2, <1>15, <1>17 DEF TypeOK
<1>19. Kept(y)
  BY <1>2, <1>15, <1>17 DEF Kept
<1>20. Grows(arrived, arrived')
  BY <1>2, <1>6 DEF Grows
<1>21. Transfers(x)'
  <2>1. received'[y] = received[y] /\ Message(x).type # "ack"
    BY <1>2, <1>3 DEF m
  <2> QED
    BY <1>1, <1>2, <1>13, <1>15, <1>16, <1>20, <2>1, SenderUnmoved
<1>22. Transfers(y)'
  <2>1. /\ queue'[y] = queue[y] /\ inflight'[y] = inflight[y] /\ current'[y] = current[y]
        /\ sendTodo'[y] = sendTodo[y] /\ received'[x] = received[x]
    BY <1>2
  <2>2. \A q \in DataPlaces :
           DataStep(o, ReceiverPlace(y, o, a), Head(Pipe(x)), q)
           => /\ IncomingOK(o, arrived', a, incoming'[x], recvTodo'[x])
              /\ ReceiveAt(o, a, incoming'[x], recvTodo'[x]) = q
              /\ AcksAt(a, incoming'[x]) = AcksAt(a, incoming[x])
    BY <1>2, <1>5, <1>9, <1>15 DEF I
  <2>3. InStep(y, o, a)'
    BY <1>1, <1>4, <1>5, <1>16, <1>17, <1>20, <2>1, <2>2, ReceiverTakes
  <2>4. SentOnce(y, o)'
    <3>1. Running(y)' <=> Running(y)
      BY <1>17 DEF Running
    <3> QED
      BY <1>4, <2>1, <3>1 DEF SentOnce
  <2>5. NotYetGiven(y, o, a)'
    <3>1. ReceiveAt(o, a, incoming'[x], recvTodo'[x]).i = ReceiveAt(o, a, incoming[x], recvTodo[x]).i
      BY <1>3, <1>11, <1>15 DEF I
    <3>2. x = Peer(y) /\ (conn'[x] # "closed" => conn[x] # "closed")
      BY <1>1, <1>3
    <3> QED
      BY <1>1, <1>2, <1>4, <2>1, <3>1, <3>2, NotYetGivenStays
  <2> QED
    BY <1>4, <2>3, <2>4, <2>5 DEF Transfers
<1>23. Local(x)'
  <2>1. Apart(queue[x], inflight'[x])
    BY <1>1, <1>2 DEF Local, QueueOK, Apart
  <2> QED
    BY <1>1, <1>13, <2>1, TookLocal
<1> QED
  BY <1>16, <1>18, <1>19, <1>21, <1>22, <1>23 DEF StepOK

-----------------------------------------------------------------------------
(* What the daemon is given.                                               *)

ReceivedEvents == [data : Seq(Items), whole : BOOLEAN]

\* The peer's daemon has not been given more than it should.
GivenOK == /\ \A b \in Bundles : arrived[b] <= Length[b]
           /\ ReceivedIntact /\ OncePerContact

\* Side x gives its daemon (a part of) bundle b.
Gives(x, e, b) ==
    /\ e \in ReceivedEvents /\ b \in Bundles /\ e.data[1].bundle = b
    /\ e.data = Units(b, 1, Len(e.data)) /\ (e.whole <=> Len(e.data) = Length[b])
    /\ received' = Put(received, x, Append(received[x], e))

LEMMA EventsAre ==
    ASSUME TypeOK, NEW t \in Sides, NEW b
    PROVE  IsFiniteSet(Events(t, b)) /\ Cardinality(Events(t, b)) \in Nat
<1>1. received[t] \in Seq(ReceivedEvents)
  BY DEF TypeOK, ReceivedEvents
<1>2. DOMAIN received[t] = 1..Len(received[t]) /\ Len(received[t]) \in Nat
  BY <1>1
<1>3. IsFiniteSet(DOMAIN received[t])
  BY <1>2, FS_Interval
<1>4. Events(t, b) \subseteq DOMAIN received[t]
  BY DEF Events
<1>5. IsFiniteSet(Events(t, b))
  BY <1>3, <1>4, FS_Subset
<1> QED
  BY <1>5, FS_CardinalityType

LEMMA EventsGiven ==
    ASSUME TypeOK, NEW x \in Sides, NEW e, NEW b, Gives(x, e, b)
    PROVE  /\ received' \in [Sides -> Seq(ReceivedEvents)]
           /\ \A t \in Sides, c \in Bundles : t # x \/ c # b => Events(t, c)' = Events(t, c)
           /\ Cardinality(Events(x, b)') = Cardinality(Events(x, b)) + 1
           /\ \A t \in Sides : t # x => received'[t] = received[t]
<1> DEFINE r == received[x]
           n == Len(r)
<1>1. received \in [Sides -> Seq(ReceivedEvents)] /\ r \in Seq(ReceivedEvents)
  BY DEF TypeOK, ReceivedEvents
<1>2. e \in ReceivedEvents /\ b \in Bundles /\ e.data[1].bundle = b
      /\ received' = Put(received, x, Append(r, e))
  BY DEF Gives
<1>3. /\ Append(r, e) \in Seq(ReceivedEvents) /\ DOMAIN Append(r, e) = 1..(n + 1)
      /\ DOMAIN r = 1..n /\ n \in Nat /\ Append(r, e)[n + 1] = e
      /\ \A i \in 1..n : Append(r, e)[i] = r[i]
  <2> HIDE DEF r
  <2> QED
    BY <1>1, <1>2
<1>4. /\ received' \in [Sides -> Seq(ReceivedEvents)] /\ received'[x] = Append(r, e)
      /\ \A t \in Sides : t # x => received'[t] = received[t]
  <2> HIDE DEF r
  <2> QED
    BY <1>1, <1>2, <1>3 DEF Put
<1>5. ASSUME NEW t \in Sides, NEW c \in Bundles, t # x PROVE Events(t, c)' = Events(t, c)
  BY <1>4, <1>5 DEF Events
<1>6. /\ \A c : Events(x, c) = {i \in 1..n : r[i].data[1].bundle = c}
      /\ \A c : Events(x, c)' = {i \in 1..(n + 1) : Append(r, e)[i].data[1].bundle = c}
  BY <1>3, <1>4 DEF Events
<1> HIDE DEF r, n
<1>7. 1..(n + 1) = 1..n \cup {n + 1} /\ n + 1 \notin 1..n
  BY <1>3
<1>8. ASSUME NEW c \in Bundles, c # b PROVE Events(x, c)' = Events(x, c)
  <2> DEFINE s == Append(r, e)
  <2> HIDE DEF s
  <2>1. \A i \in 1..n : s[i] = r[i]
    BY <1>3 DEF s
  <2>2. s[n + 1].data[1].bundle # c
    BY <1>2, <1>3, <1>8 DEF s
  <2>3. {i \in 1..(n + 1) : s[i].data[1].bundle = c} = {i \in 1..n : r[i].data[1].bundle = c}
    BY <1>7, <2>1, <2>2
  <2> QED
    BY <1>6, <2>3 DEF s
<1>9. Events(x, b)' = Events(x, b) \cup {n + 1} /\ n + 1 \notin Events(x, b)
  <2> DEFINE s == Append(r, e)
  <2> HIDE DEF s
  <2>1. \A i \in 1..n : s[i] = r[i]
    BY <1>3 DEF s
  <2>2. s[n + 1].data[1].bundle = b
    BY <1>2, <1>3 DEF s
  <2>3. {i \in 1..(n + 1) : s[i].data[1].bundle = b} = {i \in 1..n : r[i].data[1].bundle = b} \cup {n + 1}
    BY <1>7, <2>1, <2>2
  <2> QED
    BY <1>6, <1>7, <2>3 DEF s
<1>10. Cardinality(Events(x, b)') = Cardinality(Events(x, b)) + 1
  BY <1>9, EventsAre, FS_AddElement
<1> QED
  BY <1>4, <1>5, <1>8, <1>10

LEMMA GivesOnce ==
    ASSUME TypeOK, GivenOK, NEW x \in Sides, NEW e, NEW b, Gives(x, e, b), contacts' = contacts,
           Cardinality(Events(x, b)) < contacts
    PROVE  ReceivedIntact' /\ OncePerContact'
<1> DEFINE r == received[x]
<1>1. received \in [Sides -> Seq(ReceivedEvents)] /\ r \in Seq(ReceivedEvents) /\ contacts \in Nat
  <2>1. contacts \in Nat
    BY ParamsAssumption DEF TypeOK
  <2>2. received \in [Sides -> Seq(ReceivedEvents)]
    BY DEF TypeOK, ReceivedEvents
  <2> QED
    BY <2>1, <2>2
<1>2. e \in ReceivedEvents /\ b \in Bundles /\ received' = Put(received, x, Append(r, e))
      /\ e.data = Units(b, 1, Len(e.data)) /\ (e.whole <=> Len(e.data) = Length[b])
  BY DEF Gives
<1> HIDE DEF r
<1>3. Range(Append(r, e)) \subseteq Range(r) \cup {e}
  BY <1>1, <1>2 DEF Range
<1>4. received'[x] = Append(r, e) /\ \A t \in Sides : t # x => received'[t] = received[t]
  BY <1>1, <1>2 DEF Put
<1>5. ReceivedIntact'
  <2> SUFFICES ASSUME NEW t \in Sides, NEW d \in Range(received'[t])
               PROVE  \E c \in Bundles : /\ d.data = Units(c, 1, Len(d.data))
                                         /\ d.whole <=> Len(d.data) = Length[c]
    BY DEF ReceivedIntact
  <2>1. d \in Range(received[t]) \/ d = e
    BY <1>3, <1>4 DEF r
  <2>2. CASE d = e
    BY <1>2, <2>2
  <2>3. CASE d \in Range(received[t])
    BY <2>3 DEF GivenOK, ReceivedIntact
  <2> QED
    BY <2>1, <2>2, <2>3
<1>6. OncePerContact'
  <2> SUFFICES ASSUME NEW t \in Sides, NEW c \in Bundles
               PROVE  Cardinality(Events(t, c)') <= contacts'
    BY DEF OncePerContact, Events
  <2>1. Cardinality(Events(t, c)) <= contacts
    BY DEF GivenOK, OncePerContact, Events
  <2>2. CASE t # x \/ c # b
    <3>1. Events(t, c)' = Events(t, c)
      BY <2>2, EventsGiven
    <3> QED
      BY <2>1, <3>1
  <2>3. CASE t = x /\ c = b
    <3> DEFINE k == Cardinality(Events(x, b))
    <3>1. k \in Nat /\ k < contacts /\ Cardinality(Events(t, c)') = k + 1
      BY <2>3, EventsAre, EventsGiven
    <3> HIDE DEF k
    <3> QED
      BY <1>1, <3>1
  <2> QED
    BY <2>2, <2>3
<1> QED
  BY <1>5, <1>6

\* A step that gives it nothing, in the same contact.
LEMMA GivesNone ==
    ASSUME GivenOK, received' = received, contacts' = contacts, arrived' = arrived
    PROVE  GivenOK'
BY DEF GivenOK, ReceivedIntact, OncePerContact

-----------------------------------------------------------------------------
(* A unit of data arrives.                                                 *)

\* What is the case when a unit m comes.
UnitComes(o, r, a, I, todo, m, q) ==
    /\ o \in Seq(Bundles) /\ r \in [Bundles -> Nat] /\ a \in Nat /\ I \in Seq(Incomings)
    /\ todo \in Nat /\ todo > 0 /\ IncomingOK(o, r, a, I, todo)
    /\ m \in Items /\ q \in DataPlaces /\ DataStep(o, ReceiveAt(o, a, I, todo), m, q)

LEMMA UnitTaken ==
    ASSUME NEW o, NEW r, NEW a, NEW I, NEW todo, NEW m, NEW q, UnitComes(o, r, a, I, todo, m, q)
    PROVE  LET R == ReceiveAt(o, a, I, todo)
               in == Longer(I, m)
               J == AfterUnit(I, m)
               b == in.data[1].bundle
           IN  /\ I # <<>> /\ J \in Seq(Incomings) /\ m.type = "data"
               /\ b \in Bundles /\ R.i \in 1..Len(o) /\ b = o[R.i]
               /\ in.data = Units(b, 1, Len(in.data)) /\ in.data \in Seq(Items)
               /\ Len(in.data) \in Nat /\ Len(in.data) <= Length[b]
               /\ (todo = 1 /\ in.total # 0 /\ Len(in.data) = in.total) <=> Len(in.data) = Length[b]
               /\ \A r2 \in [Bundles -> Nat] :
                     Grows(r, r2) /\ Len(in.data) <= r2[b] => IncomingOK(o, r2, a, J, todo - 1)
               /\ ReceiveAt(o, a, J, todo - 1) = q
               /\ q.i = IF Len(in.data) = Length[b] THEN R.i + 1 ELSE R.i
               /\ AcksAt(a, J) = AcksAt(a, I)
<1>1. /\ o \in Seq(Bundles) /\ r \in [Bundles -> Nat] /\ a \in Nat /\ I \in Seq(Incomings)
      /\ todo \in Nat /\ todo > 0 /\ IncomingOK(o, r, a, I, todo)
      /\ m \in Items /\ q \in DataPlaces /\ DataStep(o, ReceiveAt(o, a, I, todo), m, q)
  BY DEF UnitComes
<1> QED
  BY <1>1, ReceiveUnit

\* What handle_data_todo does to what has arrived.
LEMMA UnitArrives ==
    ASSUME NEW b \in Bundles, NEW data, NEW n \in Nat, n = Len(data), data = Units(b, 1, n),
           arrived \in [Bundles -> Nat], n <= Length[b], \A c \in Bundles : arrived[c] <= Length[c],
           arrived' = IF data = Units(b, 1, Len(data)) /\ Len(data) > arrived[b]
                      THEN Put(arrived, b, Len(data)) ELSE arrived
    PROVE  /\ arrived' \in [Bundles -> Nat] /\ Grows(arrived, arrived') /\ n <= arrived'[b]
           /\ \A c \in Bundles : arrived'[c] <= Length[c]
<1>1. CASE n > arrived[b]
  <2>1. arrived' = Put(arrived, b, n)
    BY <1>1
  <2>2. /\ arrived' \in [Bundles -> Nat] /\ arrived'[b] = n
        /\ \A c \in Bundles : c # b => arrived'[c] = arrived[c]
    BY <2>1 DEF Put
  <2>3. \A c \in Bundles : arrived[c] <= arrived'[c]
    <3> TAKE c \in Bundles
    <3>1. CASE c = b
      BY <1>1, <2>2, <3>1
    <3>2. CASE c # b
      BY <2>2, <3>2
    <3> QED
      BY <3>1, <3>2
  <2>4. \A c \in Bundles : arrived'[c] <= Length[c]
    BY <2>2
  <2> QED
    BY <2>2, <2>3, <2>4 DEF Grows
<1>2. CASE ~(n > arrived[b])
  <2>1. arrived' = arrived
    BY <1>2
  <2>2. n <= arrived[b] /\ \A c \in Bundles : arrived[c] <= arrived[c]
    BY <1>2
  <2> QED
    BY <2>1, <2>2 DEF Grows
<1> QED
  BY <1>1, <1>2

\* A bundle the peer has not finished was given less often than there were contacts.
LEMMA Ungiven ==
    ASSUME NEW s \in Sides, NEW t, t = Peer(s), NEW o \in Seq(Bundles), IsInjective(o), NEW a,
           NotYetGiven(s, o, a), conn[t] # "closed", NEW done \in Nat,
           done = ReceiveAt(o, a, incoming[t], recvTodo[t]).i, done \in 1..Len(o)
    PROVE  Cardinality(Events(t, o[done])) < contacts
<1>1. DOMAIN o = 1..Len(o) /\ o[done] \in Bundles
  OBVIOUS
<1>2. \A j \in 1..Len(o) : o[j] = o[done] => j = done
  BY <1>1 DEF IsInjective
<1>3. \A j \in 1..Len(o) : o[j] = o[done] => j >= done
  <2> TAKE j \in 1..Len(o)
  <2> QED
    BY <1>2
<1> QED
  BY <1>1, <1>3 DEF NotYetGiven

LEMMA HandleDataTodoStep ==
    ASSUME IInv, NEW x \in Sides, HandleDataTodo(x)
    PROVE  StepOK(x) /\ GivenOK'
<1> DEFINE y == Peer(x)
           m == Message(x)
           I == incoming[x]
           todo == recvTodo[x]
           in == Longer(I, m)
           J == AfterUnit(I, m)
           b == in.data[1].bundle
           n == Len(in.data)
           e == [data |-> in.data, whole |-> TRUE]
           full == todo = 1 /\ in.total # 0 /\ n = in.total
<1>1. TypeOK /\ Transfers(x) /\ Transfers(y) /\ Local(x) /\ y \in Sides /\ y # x /\ Peer(y) = x
  BY StepFrom
<1>2. /\ pc[x] = "process" /\ conn[x] = "up" /\ todo > 0
      /\ recvTodo' = Put(recvTodo, x, todo - 1)
      /\ recvbuf' = Put(recvbuf, x, Tail(recvbuf[x]))
      /\ pc' = Put(pc, x, IF Tail(recvbuf[x]) = <<>> THEN "loop" ELSE "process")
      /\ queue' = queue /\ inflight' = inflight /\ current' = current /\ sendTodo' = sendTodo
      /\ sendbuf' = sendbuf /\ wire' = wire /\ conn' = conn
      /\ contacts' = contacts /\ transmitted' = transmitted /\ cancelled' = cancelled
  BY DEF HandleDataTodo, sending
<1>3. /\ incoming' = Put(incoming, x, J)
      /\ received' = IF full THEN Put(received, x, Append(received[x], e)) ELSE received
      /\ arrived' = IF in.data = Units(b, 1, n) /\ n > arrived[b]
                    THEN Put(arrived, b, n) ELSE arrived
  BY DEF HandleDataTodo, Longer, AfterUnit
<1>4. GivenOK
  BY DEF IInv, GivenOK
<1>5. PICK o \in Seq(Bundles), a \in Nat : InStep(y, o, a) /\ SentOnce(y, o) /\ NotYetGiven(y, o, a)
  BY <1>1 DEF Transfers
<1>6. /\ recvbuf[x] # <<>> /\ Running(x) /\ conn'[x] = "up" /\ conn'[y] = conn[y]
      /\ conn' \in [Sides -> {"initiated", "up", "broken", "error", "closed"}]
      /\ pc' \in [Sides -> {"loop", "acks", "next", "process"}] /\ pc'[y] = pc[y]
      /\ pc'[x] \in {"loop", "process"} /\ (pc'[x] = "process" => Tail(recvbuf[x]) # <<>>)
  BY <1>1, <1>2 DEF TypeOK, Put, Local, ThreadOK, Running
<1>7. Takes(x) /\ GoesOn(x)
  <2>1. recvbuf'[x] = Tail(recvbuf[x])
    BY <1>1, <1>2 DEF TypeOK, Put
  <2> HIDE DEF todo
  <2> QED
    BY <1>2, <1>6, <2>1 DEF Takes, GoesOn
<1>8. y = Peer(x)
  OBVIOUS
<1>9. /\ Pipe(x) # <<>> /\ Head(Pipe(x)) = m /\ m \in Items
      /\ Pipe(y)' = Pipe(y) /\ Pipe(x)' = Tail(Pipe(x))
      /\ recvbuf' \in [Sides -> Seq(Items)] /\ recvbuf'[y] = recvbuf[y]
  BY <1>1, <1>7, TakesIs
<1>10. /\ I \in Seq(Incomings) /\ todo \in Nat /\ arrived \in [Bundles -> Nat]
       /\ incoming \in [Sides -> Seq(Incomings)] /\ recvTodo \in [Sides -> Nat]
       /\ contacts \in Nat
  <2>1. contacts \in Nat
    BY <1>1, ParamsAssumption DEF TypeOK
  <2> QED
    BY <1>1, <2>1 DEF TypeOK
<1>11. IncomingOK(o, arrived, a, I, todo) /\ ReceiverPlace(y, o, a) = ReceiveAt(o, a, I, todo)
  BY <1>1, <1>2, <1>5 DEF InStep, EndsOK, ReceiverPlace
<1> DEFINE R == ReceiveAt(o, a, I, todo)
<1> HIDE DEF y, m, I, todo, in, J, R
<1>12. ASSUME NEW q \in DataPlaces, DataStep(o, ReceiverPlace(y, o, a), m, q)
       PROVE  /\ J \in Seq(Incomings) /\ m.type = "data"
              /\ b \in Bundles /\ R.i \in 1..Len(o) /\ b = o[R.i]
              /\ in.data = Units(b, 1, n) /\ in.data \in Seq(Items)
              /\ n \in Nat /\ n <= Length[b] /\ (full <=> n = Length[b])
              /\ \A r2 \in [Bundles -> Nat] :
                    Grows(arrived, r2) /\ n <= r2[b] => IncomingOK(o, r2, a, J, todo - 1)
              /\ ReceiveAt(o, a, J, todo - 1) = q
              /\ q.i = IF n = Length[b] THEN R.i + 1 ELSE R.i
              /\ AcksAt(a, J) = AcksAt(a, I)
  <2>1. UnitComes(o, arrived, a, I, todo, m, q)
    BY <1>2, <1>5, <1>9, <1>10, <1>11, <1>12 DEF UnitComes
  <2>2. J = AfterUnit(I, m) /\ in = Longer(I, m) /\ R = ReceiveAt(o, a, I, todo)
    BY DEF J, in, R
  <2>3. LET S == ReceiveAt(o, a, I, todo)
            l == Longer(I, m)
            K == AfterUnit(I, m)
            c == l.data[1].bundle
        IN  /\ K \in Seq(Incomings) /\ m.type = "data"
            /\ c \in Bundles /\ S.i \in 1..Len(o) /\ c = o[S.i]
            /\ l.data = Units(c, 1, Len(l.data)) /\ l.data \in Seq(Items)
            /\ Len(l.data) \in Nat /\ Len(l.data) <= Length[c]
            /\ ((todo = 1 /\ l.total # 0 /\ Len(l.data) = l.total) <=> Len(l.data) = Length[c])
            /\ \A r2 \in [Bundles -> Nat] :
                  Grows(arrived, r2) /\ Len(l.data) <= r2[c] => IncomingOK(o, r2, a, K, todo - 1)
            /\ ReceiveAt(o, a, K, todo - 1) = q
            /\ q.i = (IF Len(l.data) = Length[c] THEN S.i + 1 ELSE S.i)
            /\ AcksAt(a, K) = AcksAt(a, I)
    BY <2>1, UnitTaken
  <2> QED
    BY <2>2, <2>3
<1>13. PICK q \in DataPlaces : DataStep(o, ReceiverPlace(y, o, a), m, q)
  BY <1>1, <1>5, <1>6, <1>8, <1>9, NextItem
<1>14. /\ J \in Seq(Incomings) /\ m.type = "data"
       /\ b \in Bundles /\ R.i \in 1..Len(o) /\ b = o[R.i]
       /\ in.data = Units(b, 1, n) /\ in.data \in Seq(Items)
       /\ n \in Nat /\ n <= Length[b] /\ (full <=> n = Length[b])
       /\ ReceiveAt(o, a, J, todo - 1).i = (IF n = Length[b] THEN R.i + 1 ELSE R.i)
  <2> HIDE DEF b, n, full
  <2> QED
    BY <1>12, <1>13
<1>15. /\ arrived' \in [Bundles -> Nat] /\ Grows(arrived, arrived') /\ n <= arrived'[b]
       /\ \A c \in Bundles : arrived'[c] <= Length[c]
  <2> DEFINE data == in.data
  <2>1. /\ data = Units(b, 1, n) /\ n = Len(data) /\ b \in Bundles /\ n \in Nat /\ n <= Length[b]
        /\ arrived' = IF data = Units(b, 1, Len(data)) /\ Len(data) > arrived[b]
                      THEN Put(arrived, b, Len(data)) ELSE arrived
    BY <1>3, <1>14
  <2>2. \A c \in Bundles : arrived[c] <= Length[c]
    BY <1>4 DEF GivenOK
  <2> HIDE DEF data, b, n
  <2> QED
    BY <1>10, <2>1, <2>2, UnitArrives
<1>16. /\ incoming' \in [Sides -> Seq(Incomings)] /\ incoming'[x] = J /\ incoming'[y] = incoming[y]
       /\ recvTodo' \in [Sides -> Nat] /\ recvTodo'[x] = todo - 1 /\ recvTodo'[y] = recvTodo[y]
  <2>1. todo - 1 \in Nat
    BY <1>2, <1>10
  <2> QED
    BY <1>1, <1>2, <1>3, <1>10, <1>14, <2>1 DEF Put
<1>17. full => Gives(x, e, b)
  <2>1. ASSUME full PROVE Gives(x, e, b)
    <3> DEFINE d == in.data
    <3>1. d \in Seq(Items) /\ b \in Bundles /\ d = Units(b, 1, Len(d)) /\ Len(d) = Length[b]
          /\ received' = Put(received, x, Append(received[x], e)) /\ b = d[1].bundle
          /\ e = [data |-> d, whole |-> TRUE]
      BY <1>3, <1>14, <2>1
    <3> HIDE DEF d, b, e
    <3>2. e.data = d /\ e.whole = TRUE /\ e \in ReceivedEvents
      BY <3>1 DEF ReceivedEvents
    <3> QED
      BY <3>1, <3>2 DEF Gives
  <2> QED
    BY <2>1
<1> HIDE DEF b, n, e, full
<1>18. Cardinality(Events(x, b)) < contacts
  <2>1. IsInjective(o)
    BY <1>5 DEF SentOnce
  <2>2. conn[x] # "closed" /\ x = Peer(y)
    BY <1>1, <1>2
  <2>3. R.i = ReceiveAt(o, a, incoming[x], recvTodo[x]).i /\ R.i \in 1..Len(o) /\ b = o[R.i]
    BY <1>14 DEF R, I, todo
  <2>4. R.i \in Nat
    BY <2>3
  <2> DEFINE k == R.i
  <2> HIDE DEF k
  <2>5. k \in Nat /\ k \in 1..Len(o) /\ b = o[k] /\ k = ReceiveAt(o, a, incoming[x], recvTodo[x]).i
    BY <2>3, <2>4 DEF k
  <2> QED
    BY <1>1, <1>5, <2>1, <2>2, <2>5, Ungiven
<1>19. received' \in [Sides -> Seq(ReceivedEvents)] /\ received'[y] = received[y]
  <2>1. CASE full
    BY <1>1, <1>17, <2>1, EventsGiven
  <2>2. CASE ~full
    BY <1>1, <1>3, <2>2 DEF TypeOK, ReceivedEvents
  <2> QED
    BY <2>1, <2>2
<1>20. GivenOK'
  <2>1. \A c \in Bundles : arrived'[c] <= Length[c]
    BY <1>15
  <2>2. CASE full
    <3>1. ReceivedIntact' /\ OncePerContact'
      BY <1>1, <1>2, <1>4, <1>17, <1>18, <2>2, GivesOnce
    <3> QED
      BY <2>1, <3>1 DEF GivenOK
  <2>3. CASE ~full
    <3>1. received' = received
      BY <1>3, <2>3
    <3> QED
      BY <1>2, <1>4, <2>1, <3>1 DEF GivenOK, ReceivedIntact, OncePerContact
  <2> QED
    BY <2>2, <2>3
<1>21. TypeOK'
  BY <1>1, <1>2, <1>6, <1>9, <1>15, <1>16, <1>19 DEF TypeOK, ReceivedEvents
<1>22. Kept(y)
  BY <1>2, <1>6, <1>9, <1>16 DEF Kept
<1>23. Transfers(x)'
  <2>1. Message(x).type # "ack"
    BY <1>14 DEF m
  <2> QED
    BY <1>1, <1>2, <1>7, <1>8, <1>15, <1>16, <1>19, <2>1, SenderUnmoved
<1>24. Transfers(y)'
  <2>1. /\ queue'[y] = queue[y] /\ inflight'[y] = inflight[y] /\ current'[y] = current[y]
        /\ sendTodo'[y] = sendTodo[y]
    BY <1>2
  <2>2. ASSUME NEW p \in DataPlaces, DataStep(o, ReceiverPlace(y, o, a), Head(Pipe(x)), p)
        PROVE  /\ IncomingOK(o, arrived', a, incoming'[x], recvTodo'[x])
               /\ ReceiveAt(o, a, incoming'[x], recvTodo'[x]) = p
               /\ AcksAt(a, incoming'[x]) = AcksAt(a, incoming[x])
    <3>1. DataStep(o, ReceiverPlace(y, o, a), m, p)
      BY <1>9, <2>2
    <3>2. /\ \A r2 \in [Bundles -> Nat] :
                Grows(arrived, r2) /\ n <= r2[b] => IncomingOK(o, r2, a, J, todo - 1)
          /\ ReceiveAt(o, a, J, todo - 1) = p /\ AcksAt(a, J) = AcksAt(a, I)
      BY <1>12, <3>1
    <3> QED
      BY <1>15, <1>16, <3>2 DEF I
  <2>3. InStep(y, o, a)'
    BY <1>1, <1>5, <1>6, <1>8, <1>9, <1>15, <2>1, <2>2, ReceiverTakes
  <2>4. SentOnce(y, o)'
    <3>1. Running(y)' <=> Running(y)
      BY <1>6 DEF Running
    <3> QED
      BY <1>5, <2>1, <3>1 DEF SentOnce
  <2>5. NotYetGiven(y, o, a)'
    <3>1. x = Peer(y) /\ conn[x] # "closed" /\ R = ReceiveAt(o, a, incoming[x], recvTodo[x])
      BY <1>1, <1>2 DEF R, I, todo
    <3>2. ReceiveAt(o, a, incoming'[x], recvTodo'[x]).i = IF n = Length[b] THEN R.i + 1 ELSE R.i
      BY <1>14, <1>16
    <3>3. R.i \in 1..Len(o) /\ b = o[R.i]
      BY <1>14
    <3>4. CASE full
      <4>1. ReceiveAt(o, a, incoming'[x], recvTodo'[x]).i = R.i + 1
        BY <1>14, <3>2, <3>4
      <4> SUFFICES ASSUME NEW c \in Bundles, \A j \in 1..Len(o) : o[j] = c => j >= R.i + 1
                   PROVE  Cardinality(Events(x, c)') < contacts'
        BY <1>1, <4>1 DEF NotYetGiven
      <4>2. c # b
        BY <3>3
      <4>3. Events(x, c)' = Events(x, c)
        BY <1>1, <1>17, <3>4, <4>2, EventsGiven
      <4>4. \A j \in 1..Len(o) : o[j] = c => j >= R.i
        BY <3>3
      <4> QED
        BY <1>2, <1>5, <3>1, <4>3, <4>4 DEF NotYetGiven
    <3>5. CASE ~full
      <4>1. received' = received
        BY <1>3, <3>5
      <4>2. ReceiveAt(o, a, incoming'[x], recvTodo'[x]).i = ReceiveAt(o, a, incoming[x], recvTodo[x]).i
        BY <1>14, <3>1, <3>2, <3>5
      <4> QED
        BY <1>1, <1>2, <1>5, <3>1, <4>1, <4>2, NotYetGivenStays
    <3> QED
      BY <3>4, <3>5
  <2> QED
    BY <1>5, <2>3, <2>4, <2>5 DEF Transfers
<1>25. Local(x)'
  <2>1. Apart(queue[x], inflight'[x])
    BY <1>1, <1>2 DEF Local, QueueOK, Apart
  <2> QED
    BY <1>1, <1>7, <2>1, TookLocal
<1> QED
  BY <1>8, <1>20, <1>21, <1>22, <1>23, <1>24, <1>25 DEF StepOK

-----------------------------------------------------------------------------
(* Breaking and closing the contact.                                       *)

\* What break_contact writes: the shutdown byte, but not into a segment.
LEMMA BreakWrites ==
    ASSUME TypeOK, NEW x \in Sides, NEW y, y = Peer(x), NEW polite, Break(x, polite),
           recvbuf'[y] = recvbuf[y]
    PROVE  /\ wire' \in [Sides -> Seq(Items)] /\ sendbuf' \in [Sides -> Seq(Items)]
           /\ sendbuf'[y] = sendbuf[y]
           /\ \E xs \in Seq(Items) :
                 /\ Pipe(y)' = Pipe(y) \o xs /\ (xs # <<>> => sendTodo[x] = 0)
                 /\ \A j \in 1..Len(xs) : xs[j].type = "shutdown"
<1>1. CASE polite /\ sendbuf[x] = <<>> /\ sendTodo[x] = 0
  <2> DEFINE xs == <<Shutdown>>
  <2>1. FillAndSend(x, xs)
    BY <1>1 DEF Break
  <2>2. Shutdown \in Items /\ Shutdown.type = "shutdown"
    BY DEF Shutdown, Items
  <2>3. xs \in Seq(Items) /\ \A j \in 1..Len(xs) : xs[j].type = "shutdown"
    BY <2>2
  <2> HIDE DEF xs
  <2>4. /\ Pipe(y)' = Pipe(y) \o xs
        /\ wire' \in [Sides -> Seq(Items)] /\ sendbuf' \in [Sides -> Seq(Items)]
        /\ sendbuf'[y] = sendbuf[y]
    <3>1. recvbuf'[Peer(x)] = recvbuf[Peer(x)]
      OBVIOUS
    <3> QED
      BY <2>1, <2>3, <3>1, WritePipe
  <2> QED
    BY <1>1, <2>3, <2>4
<1>2. CASE ~(polite /\ sendbuf[x] = <<>> /\ sendTodo[x] = 0)
  <2>1. sendbuf' = sendbuf /\ wire' = wire
    BY <1>2 DEF Break
  <2>2. Pipe(y) \in Seq(Items)
    BY PeerIs, PipeType
  <2>3. Pipe(y)' = Pipe(y) \o <<>>
    <3>1. Pipe(y)' = Pipe(y)
      BY <2>1 DEF Pipe
    <3>2. Pipe(y) \o <<>> = Pipe(y)
      BY <2>2, ConcatEmptySeq
    <3> QED
      BY <3>1, <3>2
  <2>4. <<>> \in Seq(Items) /\ \A j \in 1..Len(<<>>) : <<>>[j].type = "shutdown"
    OBVIOUS
  <2> QED
    BY <2>1, <2>3, <2>4 DEF TypeOK
<1> QED
  BY <1>1, <1>2

LEMMA BreakStep ==
    ASSUME IInv, NEW x \in Sides, Running(x), NEW polite, Break(x, polite),
           \/ recvbuf' = recvbuf
           \/ recvbuf' = Put(recvbuf, x, Tail(recvbuf[x])) /\ recvbuf[x] # <<>>
    PROVE  StepOK(x)
<1> DEFINE y == Peer(x)
<1>1. TypeOK /\ Transfers(x) /\ Transfers(y) /\ Local(x) /\ y \in Sides /\ y # x /\ Peer(y) = x
  BY StepFrom
<1>2. /\ conn' = Put(conn, x, "broken") /\ pc' = Put(pc, x, "loop")
      /\ queue' = queue /\ inflight' = inflight /\ current' = current /\ sendTodo' = sendTodo
      /\ incoming' = incoming /\ recvTodo' = recvTodo
      /\ contacts' = contacts /\ transmitted' = transmitted /\ received' = received
      /\ cancelled' = cancelled /\ arrived' = arrived
  BY DEF Break, sending, posted
<1>3. /\ conn' \in [Sides -> {"initiated", "up", "broken", "error", "closed"}]
      /\ conn'[x] = "broken" /\ conn'[y] = conn[y]
      /\ pc' \in [Sides -> {"loop", "acks", "next", "process"}] /\ pc'[x] = "loop"
      /\ pc'[y] = pc[y]
  BY <1>1, <1>2 DEF TypeOK, Put
<1>4. recvbuf' \in [Sides -> Seq(Items)] /\ recvbuf'[y] = recvbuf[y]
  <2>1. CASE recvbuf' = recvbuf
    BY <1>1, <2>1 DEF TypeOK
  <2>2. CASE recvbuf' = Put(recvbuf, x, Tail(recvbuf[x])) /\ recvbuf[x] # <<>>
    <3>1. recvbuf \in [Sides -> Seq(Items)]
      BY <1>1 DEF TypeOK
    <3>2. Tail(recvbuf[x]) \in Seq(Items)
      BY <2>2, <3>1
    <3> QED
      BY <1>1, <2>2, <3>1, <3>2 DEF Put
  <2> QED
    BY <2>1, <2>2
<1>5. y = Peer(x) /\ ~Running(x)' /\ conn'[x] # "initiated" /\ conn'[x] # "closed"
      /\ (Running(y)' <=> Running(y)) /\ conn[x] # "closed"
  BY <1>3 DEF Running
<1> HIDE DEF y
<1>6. /\ wire' \in [Sides -> Seq(Items)] /\ sendbuf' \in [Sides -> Seq(Items)]
      /\ sendbuf'[y] = sendbuf[y]
  BY <1>1, <1>4, <1>5, BreakWrites
<1>7. PICK xs \in Seq(Items) :
         /\ Pipe(y)' = Pipe(y) \o xs /\ (xs # <<>> => sendTodo[x] = 0)
         /\ \A j \in 1..Len(xs) : xs[j].type = "shutdown"
  BY <1>1, <1>4, <1>5, BreakWrites
<1>8. TypeOK'
  BY <1>1, <1>2, <1>3, <1>4, <1>6 DEF TypeOK
<1>9. Kept(y)
  BY <1>2, <1>3, <1>4, <1>6 DEF Kept
<1>10. Pipe(y) \in Seq(Items) /\ arrived \in [Bundles -> Nat]
  <2>1. Pipe(y) \in Seq(Items)
    BY <1>1, PipeType
  <2> QED
    BY <1>1, <2>1 DEF TypeOK
<1>11. Transfers(x)'
  <2>1. PICK o \in Seq(Bundles), a \in Nat : InStep(x, o, a) /\ SentOnce(x, o) /\ NotYetGiven(x, o, a)
    BY <1>1 DEF Transfers
  <2>2. /\ SenderPlace(x, o) \in DataPlaces /\ SenderPlace(x, o).i > 0
        /\ (sendTodo[x] = 0 => SenderPlace(x, o).todo = 0)
    BY <1>1, <2>1, PlacesType DEF InStep
  <2>3. DataRun(o, SenderPlace(x, o), xs, SenderPlace(x, o))
    <3>1. CASE xs = <<>>
      BY <2>2, <3>1, DataRunNone
    <3>2. CASE xs # <<>>
      <4>1. \A j \in 1..Len(xs) : xs[j].type \in {"ack", "keepalive", "shutdown"}
        BY <1>7
      <4>2. xs \in Seq(Items) /\ SenderPlace(x, o).todo = 0
        BY <1>7, <2>2, <3>2
      <4> QED
        BY <2>2, <4>1, <4>2, IdleRun
    <3> QED
      BY <3>1, <3>2
  <2>4. Running(y) => DataRun(o, ReceiverPlace(x, o, a), Pipe(y)', SenderPlace(x, o))
    <3>1. ASSUME Running(y) PROVE DataRun(o, ReceiverPlace(x, o, a), Pipe(y), SenderPlace(x, o))
      BY <1>5, <2>1, <3>1 DEF InStep, DataAgrees
    <3>2. xs \in Seq(Items) /\ Pipe(y)' = Pipe(y) \o xs
      BY <1>7
    <3> QED
      BY <1>10, <2>3, <3>1, <3>2, DataRunOn
  <2>5. incoming'[y] = incoming[y] /\ recvTodo'[y] = recvTodo[y] /\ queue'[x] = queue[x]
        /\ inflight'[x] = inflight[x] /\ sendTodo'[x] = sendTodo[x] /\ current'[x] = current[x]
        /\ received'[y] = received[y]
    BY <1>2
  <2>6. FlightsOK(o, arrived, inflight'[x], current'[x], sendTodo'[x])
    BY <2>1, <2>5 DEF InStep, EndsOK
  <2>7. InStep(x, o, a)'
    BY <1>1, <1>2, <1>3, <1>5, <2>1, <2>2, <2>4, <2>5, <2>6, SenderStops
  <2>8. SentOnce(x, o)'
    BY <1>5, <2>1 DEF SentOnce
  <2>9. NotYetGiven(x, o, a)'
    <3>1. ReceiveAt(o, a, incoming'[y], recvTodo'[y]).i = ReceiveAt(o, a, incoming[y], recvTodo[y]).i
          /\ (conn'[y] # "closed" => conn[y] # "closed")
      BY <1>3, <2>5
    <3> QED
      BY <1>2, <1>5, <2>1, <2>5, <3>1, NotYetGivenStays
  <2> QED
    BY <2>1, <2>7, <2>8, <2>9 DEF Transfers
<1>12. Transfers(y)'
  <2>1. PICK o \in Seq(Bundles), a \in Nat : InStep(y, o, a) /\ SentOnce(y, o) /\ NotYetGiven(y, o, a)
    BY <1>1 DEF Transfers
  <2>2. /\ incoming'[x] = incoming[x] /\ recvTodo'[x] = recvTodo[x] /\ queue'[y] = queue[y]
        /\ inflight'[y] = inflight[y] /\ sendTodo'[y] = sendTodo[y] /\ current'[y] = current[y]
        /\ received'[x] = received[x]
    BY <1>2
  <2>3. IncomingOK(o, arrived, a, incoming'[x], recvTodo'[x])
    BY <1>1, <2>1, <2>2 DEF InStep, EndsOK
  <2>4. Running(y) => \E q \in AckPlaces : /\ AckRun(o, arrived, AckedPlace(y, o), Pipe(y)', q)
                                          /\ NotAhead(q, SenderPlace(y, o))
    <3> SUFFICES ASSUME Running(y)
                 PROVE  \E q \in AckPlaces : /\ AckRun(o, arrived, AckedPlace(y, o), Pipe(y)', q)
                                             /\ NotAhead(q, SenderPlace(y, o))
      OBVIOUS
    <3>1. PICK q \in AckPlaces : /\ AckRun(o, arrived, AckedPlace(y, o), Pipe(y), q)
                                 /\ NotAhead(q, SenderPlace(y, o))
      BY <2>1 DEF InStep, AcksAgree
    <3>2. xs \in Seq(Items) /\ Pipe(y)' = Pipe(y) \o xs /\ \A j \in 1..Len(xs) : xs[j].type # "ack"
      BY <1>7
    <3>3. AckRun(o, arrived, q, xs, q)
      BY <3>1, <3>2, NoAckRun
    <3>4. AckRun(o, arrived, AckedPlace(y, o), Pipe(y) \o xs, q)
      BY <1>10, <3>1, <3>2, <3>3, AckRunOn
    <3> QED
      BY <3>1, <3>2, <3>4
  <2>5. InStep(y, o, a)'
    BY <1>1, <1>2, <1>3, <1>5, <2>1, <2>2, <2>3, <2>4, ReceiverStops
  <2>6. SentOnce(y, o)'
    BY <1>5, <2>1, <2>2 DEF SentOnce
  <2>7. NotYetGiven(y, o, a)'
    <3>1. ReceiveAt(o, a, incoming'[x], recvTodo'[x]).i = ReceiveAt(o, a, incoming[x], recvTodo[x]).i
          /\ x = Peer(y)
      BY <1>1, <2>2
    <3> QED
      BY <1>1, <1>2, <1>5, <2>1, <2>2, <3>1, NotYetGivenStays
  <2> QED
    BY <2>1, <2>5, <2>6, <2>7 DEF Transfers
<1>13. Local(x)'
  <2>1. ThreadOK(x)' /\ ClosedOK(x)'
    BY <1>3 DEF ThreadOK, ClosedOK
  <2>2. QueueOK(x)'
    BY <1>1, <1>2 DEF Local, QueueOK
  <2> QED
    BY <2>1, <2>2 DEF Local
<1> QED
  BY <1>5, <1>8, <1>9, <1>11, <1>12, <1>13 DEF StepOK

LEMMA BreakContactStep ==
    ASSUME IInv, NEW x \in Sides, NEW reason, BreakContact(x, reason)
    PROVE  StepOK(x)
<1>1. /\ Running(x)
      /\ \/ recvbuf' = recvbuf
         \/ recvbuf' = Put(recvbuf, x, Tail(recvbuf[x])) /\ recvbuf[x] # <<>>
  <2>1. Running(x) /\ recvbuf' = recvbuf
    BY DEF BreakContact
  <2> QED
    BY <2>1
<1>2. CASE reason = "broken"
  <2>1. Break(x, FALSE)
    BY <1>2 DEF BreakContact, Break
  <2> QED
    BY <1>1, <2>1, BreakStep
<1>3. CASE reason # "broken"
  <2>1. Break(x, TRUE)
    BY <1>3 DEF BreakContact, Break
  <2> QED
    BY <1>1, <2>1, BreakStep
<1> QED
  BY <1>2, <1>3

LEMMA HandleShutdownStep ==
    ASSUME IInv, NEW x \in Sides, HandleShutdown(x)
    PROVE  StepOK(x)
<1>1. recvbuf[x] # <<>> /\ Running(x)
  BY StepFrom DEF HandleShutdown, Local, ThreadOK, Running
<1> QED
  BY <1>1, BreakStep DEF HandleShutdown

\* Nothing is in flight any more.
LEMMA NoFlights ==
    ASSUME NEW o \in Seq(Bundles), NEW r
    PROVE  FlightsOK(o, r, <<>>, NoBundle, 0)
<1>1. Begun(<<>>, 0) = 0 /\ Len(o) \in Nat /\ Len(<<>>) = 0
  BY DEF Begun, Unsent
<1> QED
  BY <1>1 DEF FlightsOK

LEMMA NoIncoming ==
    ASSUME NEW o \in Seq(Bundles), NEW r, NEW a \in Nat, NEW I \in Seq(Incomings), NEW todo,
           IncomingOK(o, r, a, I, todo)
    PROVE  IncomingOK(o, r, a, <<>>, 0)
<1>1. a > 0 /\ (a + Len(I)) - 1 <= Len(o) /\ Len(I) \in Nat /\ Len(o) \in Nat
  BY DEF IncomingOK
<1>2. Len(<<>>) = 0 /\ (a + 0) - 1 <= Len(o)
  BY <1>1
<1> QED
  BY <1>1, <1>2 DEF IncomingOK

\* The bundles that go back to the link queue.
BundlesOf(t) == [i \in DOMAIN t |-> t[i].bundle]
ReportsOf(t) == [i \in DOMAIN t |-> Report(t[i])]

LEMMA GivenBackApart ==
    ASSUME NEW q \in Seq(Bundles), NEW F \in Seq(Flights), Apart(q, F), NEW S,
           \A j, k \in 1..Len(F) : F[j].bundle = F[k].bundle => j = k
    PROVE  LET back == SelectIn(F, S) IN
           /\ q \o BundlesOf(back) \in Seq(Bundles) /\ IsInjective(q \o BundlesOf(back))
           /\ ReportsOf(back) \in Seq([bundle : Bundles, sent : Nat, acked : Nat])
<1> DEFINE back == SelectIn(F, S)
           n == Len(back)
           t == BundlesOf(back)
<1>1. /\ back \in Seq(Flights) /\ n \in Nat /\ DOMAIN back = 1..n
      /\ (\A i \in 1..n : \E k \in 1..Len(F) : back[i] = F[k])
      /\ \A i, j \in 1..n :
            i # j => \E k, l \in 1..Len(F) : k # l /\ back[i] = F[k] /\ back[j] = F[l]
  <2>1. back \in Seq(Flights)
    BY ElementsOfSelectIn
  <2> QED
    BY <2>1, IndicesOfSelectIn
<1> HIDE DEF back, n
<1>2. \A i \in 1..n : back[i] \in Flights /\ back[i].bundle \in Bundles
  <2>1. \A i \in 1..n : back[i] \in Flights
    BY <1>1 DEF n
  <2> QED
    BY <2>1 DEF Flights
<1>3. t = [i \in 1..n |-> back[i].bundle]
  BY <1>1 DEF BundlesOf
<1>4. t \in Seq(Bundles) /\ Len(t) = n /\ \A i \in 1..n : t[i] = back[i].bundle
  <2> HIDE DEF t
  <2> QED
    BY <1>1, <1>2, <1>3
<1>5. ASSUME NEW i \in 1..n PROVE t[i] \notin ToSet(q)
  <2>1. PICK k \in 1..Len(F) : back[i] = F[k]
    BY <1>1
  <2> QED
    BY <1>4, <2>1 DEF Apart
<1>6. ASSUME NEW i \in 1..n, NEW j \in 1..n, t[i] = t[j] PROVE i = j
  <2> SUFFICES ASSUME i # j PROVE FALSE
    OBVIOUS
  <2>1. PICK k \in 1..Len(F), l \in 1..Len(F) : k # l /\ back[i] = F[k] /\ back[j] = F[l]
    BY <1>1
  <2> QED
    BY <1>4, <1>6, <2>1
<1> HIDE DEF t
<1>7. q \o t \in Seq(Bundles) /\ IsInjective(q \o t)
  <2>1. IsInjective(t)
    BY <1>4, <1>6 DEF IsInjective
  <2>2. \A i \in 1..Len(t) : t[i] \notin ToSet(q)
    BY <1>4, <1>5
  <2>3. IsInjective(q)
    BY DEF Apart
  <2> QED
    BY <1>4, <2>1, <2>2, <2>3, InjectiveConcat
<1>9. ReportsOf(back) \in Seq([bundle : Bundles, sent : Nat, acked : Nat])
  <2> DEFINE R == [bundle : Bundles, sent : Nat, acked : Nat]
             w == ReportsOf(back)
  <2>1. \A i \in 1..n : Report(back[i]) \in R
    BY <1>2 DEF Report, Flights
  <2>2. w = [i \in 1..n |-> Report(back[i])]
    BY <1>1 DEF ReportsOf
  <2> HIDE DEF w, R
  <2> QED
    BY <1>1, <2>1, <2>2 DEF w, R
<1> QED
  BY <1>7, <1>9 DEF t, back

\* The peer's last bundle is handed over in part, if at all.
Part(I) == [data |-> Last(I).data, whole |-> FALSE]

Halfway(o, r, a, I, todo) ==
    /\ o \in Seq(Bundles) /\ r \in [Bundles -> Nat] /\ a \in Nat /\ I \in Seq(Incomings)
    /\ todo \in Nat /\ IncomingOK(o, r, a, I, todo) /\ I # <<>> /\ HandedOver(Last(I))

LEMMA HandsOver ==
    ASSUME NEW o, NEW r, NEW a, NEW I, NEW todo, Halfway(o, r, a, I, todo)
    PROVE  LET e == Part(I)
               done == ReceiveAt(o, a, I, todo).i
           IN  /\ done \in 1..Len(o) /\ e \in ReceivedEvents
               /\ e.data[1].bundle = o[done] /\ e.data = Units(o[done], 1, Len(e.data))
               /\ (e.whole <=> Len(e.data) = Length[o[done]])
<1> USE DEF Part
<1>0. /\ o \in Seq(Bundles) /\ r \in [Bundles -> Nat] /\ a \in Nat /\ I \in Seq(Incomings)
      /\ todo \in Nat /\ IncomingOK(o, r, a, I, todo) /\ I # <<>> /\ HandedOver(Last(I))
  BY DEF Halfway
<1> DEFINE c == Len(I)
           in == I[c]
           d == Len(in.data)
           k == (a + c) - 1
           b == o[k]
<1>1. /\ Last(I) = in /\ c \in 1..Len(I) /\ c = Len(I)
  BY <1>0, TailIs
<1>2. /\ k \in 1..Len(o) /\ b \in Bundles /\ Length[b] \in Nat /\ d + todo \in Nat
      /\ in.data = Units(b, 1, d) /\ 0 < d + todo /\ d + todo <= Length[b]
      /\ in.total = (IF d + todo = Length[b] THEN d + todo ELSE 0)
  <2>1. IncomingOK1(o, r, a, I, todo, c)
    BY <1>0, <1>1 DEF IncomingOK
  <2>2. /\ in.data = Units(b, 1, d) /\ 0 < d + todo /\ d + todo <= Length[b]
        /\ in.total = (IF d + todo = Length[b] THEN d + todo ELSE 0)
    BY <2>1 DEF IncomingOK1
  <2>3. k \in 1..Len(o) /\ b \in Bundles /\ Length[b] \in Nat
    <3> DEFINE l == Len(I)
    <3>1. l \in 1..Len(I)
      BY <1>1
    <3> HIDE DEF l
    <3>2. (a + l) - 1 \in 1..Len(o) /\ o[(a + l) - 1] \in Bundles /\ Length[o[(a + l) - 1]] \in Nat
      BY <1>0, <3>1, IncomingIs
    <3> QED
      BY <3>2 DEF l
  <2>4. d \in Nat
    BY <1>0, <1>1, IncomingType
  <2>5. d + todo \in Nat
    BY <1>0, <2>4
  <2> QED
    BY <2>2, <2>3, <2>5
<1>3. /\ in.data \in Seq(Items) /\ d \in Nat
  BY <1>0, <1>1, IncomingType
<1>4. in.total = 0 /\ d > HeaderLength
  BY <1>0, <1>1 DEF HandedOver
<1>5. d # Length[b] => ReceiveAt(o, a, I, todo) = Place(k, d, todo)
  BY <1>0, <1>1 DEF ReceiveAt, After
<1> HIDE DEF in, d, k, b, c
<1>6. d > 0 /\ d + todo # Length[b]
  <2>1. HeaderLength \in Nat
    BY LengthsAssumption
  <2>2. d > 0
    BY <1>3, <1>4, <2>1
  <2>3. d + todo # 0
    BY <1>2
  <2>4. d + todo # Length[b]
    BY <1>2, <1>4, <2>3
  <2> QED
    BY <2>2, <2>4
<1>7. d # Length[b] /\ d \in 1..d
  <2>1. d \in 1..d
    BY <1>3, <1>6
  <2>2. todo = 0 => d + todo = d
    BY <1>3
  <2>3. todo > 0 => d + todo > d
    BY <1>0, <1>3
  <2>4. todo = 0 \/ todo > 0
    BY <1>0
  <2> QED
    BY <1>2, <1>3, <1>6, <2>1, <2>2, <2>3, <2>4
<1>8. ReceiveAt(o, a, I, todo).i = k
  BY <1>5, <1>7 DEF Place
<1>9. in.data[1].bundle = b
  <2>1. 1 \in 1..((d - 1) + 1)
    BY <1>3, <1>6
  <2>2. Units(b, 1, d)[1] = Unit(b, (1 + 1) - 1)
    BY <2>1 DEF Units
  <2> QED
    BY <1>2, <2>2 DEF Unit
<1>10. /\ [data |-> in.data, whole |-> FALSE] \in ReceivedEvents
  BY <1>3 DEF ReceivedEvents
<1>11. Len(in.data) = d
  BY DEF d
<1> QED
  BY <1>1, <1>2, <1>7, <1>8, <1>9, <1>10, <1>11 DEF b

LEMMA CloseContactStep ==
    ASSUME IInv, NEW x \in Sides, CloseContact(x)
    PROVE  StepOK(x) /\ GivenOK'
<1> DEFINE y == Peer(x)
           F == inflight[x]
           I == incoming[x]
           back == SelectIn(F, {f \in Range(F) : GivenBack(f)})
           partly == SelectIn(F, {f \in Range(F) : Reported(f)})
           e == Part(I)
           hands == I # <<>> /\ HandedOver(Last(I))
<1>1. TypeOK /\ Transfers(x) /\ Transfers(y) /\ Local(x) /\ y \in Sides /\ y # x /\ Peer(y) = x
  BY StepFrom
<1>2. /\ conn[x] \in {"broken", "error"}
      /\ queue' = Put(queue, x, queue[x] \o BundlesOf(back))
      /\ transmitted' = Put(transmitted, x, transmitted[x] \o ReportsOf(partly))
      /\ received' = IF hands THEN Put(received, x, Append(received[x], e)) ELSE received
      /\ conn' = Put(conn, x, "closed") /\ inflight' = Put(inflight, x, <<>>)
      /\ current' = Put(current, x, NoBundle) /\ sendTodo' = Put(sendTodo, x, 0)
      /\ sendbuf' = Put(sendbuf, x, <<>>) /\ recvbuf' = Put(recvbuf, x, <<>>)
      /\ incoming' = Put(incoming, x, <<>>) /\ recvTodo' = Put(recvTodo, x, 0)
      /\ wire' = wire /\ pc' = pc /\ contacts' = contacts /\ cancelled' = cancelled
      /\ arrived' = arrived
  BY DEF CloseContact, BundlesOf, ReportsOf, Part
<1>3. ~Running(x) /\ conn[x] # "closed" /\ conn[x] # "initiated"
  BY <1>2 DEF Running
<1>4. PICK o \in Seq(Bundles), a \in Nat : InStep(x, o, a) /\ SentOnce(x, o) /\ NotYetGiven(x, o, a)
  BY <1>1 DEF Transfers
<1>5. PICK o2 \in Seq(Bundles), a2 \in Nat :
         InStep(y, o2, a2) /\ SentOnce(y, o2) /\ NotYetGiven(y, o2, a2)
  BY <1>1 DEF Transfers
<1>6. F \in Seq(Flights) /\ I \in Seq(Incomings) /\ recvTodo[x] \in Nat /\ sendTodo[x] \in Nat
      /\ current[x] \in Bundles \cup {NoBundle} /\ arrived \in [Bundles -> Nat]
      /\ queue[x] \in Seq(Bundles)
  BY <1>1 DEF TypeOK
<1>7. FlightsOK(o, arrived, F, current[x], sendTodo[x])
  BY <1>4 DEF InStep, EndsOK
<1>8. IncomingOK(o2, arrived, a2, I, recvTodo[x])
  BY <1>1, <1>5 DEF InStep, EndsOK
<1>9. /\ queue[x] \o BundlesOf(back) \in Seq(Bundles) /\ IsInjective(queue[x] \o BundlesOf(back))
      /\ ReportsOf(partly) \in Seq([bundle : Bundles, sent : Nat, acked : Nat])
  <2>1. Apart(queue[x], F)
    BY <1>1 DEF Local, QueueOK, Apart
  <2>2. \A j, k \in 1..Len(F) : F[j].bundle = F[k].bundle => j = k
    BY <1>7 DEF FlightsOK
  <2> HIDE DEF F
  <2> QED
    BY <1>6, <2>1, <2>2, GivenBackApart
<1>10. GivenOK
  BY DEF IInv, GivenOK
<1> HIDE DEF back, partly
<1>11. hands => Gives(x, e, e.data[1].bundle) /\ Cardinality(Events(x, e.data[1].bundle)) < contacts
  <2> SUFFICES ASSUME hands
               PROVE  Gives(x, e, e.data[1].bundle) /\ Cardinality(Events(x, e.data[1].bundle)) < contacts
    OBVIOUS
  <2> DEFINE done == ReceiveAt(o2, a2, I, recvTodo[x]).i
             b == o2[done]
  <2>1. /\ done \in 1..Len(o2) /\ e \in ReceivedEvents
        /\ e.data[1].bundle = b /\ e.data = Units(b, 1, Len(e.data))
        /\ (e.whole <=> Len(e.data) = Length[b])
    <3>1. LET l == Part(I)
              n == ReceiveAt(o2, a2, I, recvTodo[x]).i
          IN  /\ n \in 1..Len(o2) /\ l \in ReceivedEvents
              /\ l.data[1].bundle = o2[n] /\ l.data = Units(o2[n], 1, Len(l.data))
              /\ (l.whole <=> Len(l.data) = Length[o2[n]])
      <4>1. Halfway(o2, arrived, a2, I, recvTodo[x])
        BY <1>6, <1>8 DEF Halfway
      <4> HIDE DEF I
      <4> QED
        BY <4>1, HandsOver
    <3> QED
      BY <3>1
  <2>2. done \in Nat /\ b \in Bundles
    BY <2>1
  <2>3. done = ReceiveAt(o2, a2, incoming[x], recvTodo[x]).i /\ x = Peer(y) /\ IsInjective(o2)
    BY <1>1, <1>5 DEF SentOnce
  <2>4. received' = Put(received, x, Append(received[x], e))
    BY <1>2
  <2> HIDE DEF done, e
  <2>5. Cardinality(Events(x, b)) < contacts
    BY <1>1, <1>3, <1>5, <2>1, <2>2, <2>3, Ungiven
  <2>6. Gives(x, e, b)
    BY <2>1, <2>2, <2>4 DEF Gives
  <2> QED
    BY <2>1, <2>5, <2>6
<1> HIDE DEF y, F, I, e, hands
<1>12. received' \in [Sides -> Seq(ReceivedEvents)] /\ received'[y] = received[y]
  <2>1. CASE hands
    BY <1>1, <1>11, <2>1, EventsGiven
  <2>2. CASE ~hands
    BY <1>1, <1>2, <2>2 DEF TypeOK, ReceivedEvents
  <2> QED
    BY <2>1, <2>2
<1>13. GivenOK'
  <2>1. \A c \in Bundles : arrived'[c] <= Length[c]
    BY <1>2, <1>10 DEF GivenOK
  <2>2. CASE hands
    <3>1. ReceivedIntact' /\ OncePerContact'
      BY <1>1, <1>2, <1>10, <1>11, <2>2, GivesOnce
    <3> QED
      BY <2>1, <3>1 DEF GivenOK
  <2>3. CASE ~hands
    <3>1. received' = received
      BY <1>2, <2>3
    <3> QED
      BY <1>2, <1>10, <3>1, GivesNone
  <2> QED
    BY <2>2, <2>3
<1>14. /\ queue' \in [Sides -> Seq(Bundles)] /\ queue'[y] = queue[y]
       /\ queue'[x] = queue[x] \o BundlesOf(back)
  BY <1>1, <1>2, <1>9 DEF TypeOK, Put
<1>15. transmitted' \in [Sides -> Seq([bundle : Bundles, sent : Nat, acked : Nat])]
  <2> DEFINE S == [bundle : Bundles, sent : Nat, acked : Nat]
             r == ReportsOf(partly)
  <2>1. transmitted \in [Sides -> Seq(S)] /\ r \in Seq(S)
        /\ transmitted' = Put(transmitted, x, transmitted[x] \o r)
    BY <1>1, <1>2, <1>9 DEF TypeOK
  <2> HIDE DEF S, r
  <2>2. transmitted[x] \o r \in Seq(S)
    BY <2>1, Concat
  <2>3. transmitted' \in [Sides -> Seq(S)]
    BY <2>1, <2>2 DEF Put
  <2> QED
    BY <2>3 DEF S
<1>16. /\ conn' \in [Sides -> {"initiated", "up", "broken", "error", "closed"}]
       /\ conn'[x] = "closed" /\ conn'[y] = conn[y]
       /\ current' \in [Sides -> Bundles \cup {NoBundle}] /\ current'[x] = NoBundle
       /\ current'[y] = current[y]
       /\ sendTodo' \in [Sides -> Nat] /\ sendTodo'[x] = 0 /\ sendTodo'[y] = sendTodo[y]
       /\ recvTodo' \in [Sides -> Nat] /\ recvTodo'[x] = 0 /\ recvTodo'[y] = recvTodo[y]
  BY <1>1, <1>2 DEF TypeOK, Put
<1>17. /\ inflight' \in [Sides -> Seq(Flights)] /\ inflight'[x] = <<>> /\ inflight'[y] = inflight[y]
       /\ incoming' \in [Sides -> Seq(Incomings)] /\ incoming'[x] = <<>> /\ incoming'[y] = incoming[y]
       /\ sendbuf' \in [Sides -> Seq(Items)] /\ sendbuf'[x] = <<>> /\ sendbuf'[y] = sendbuf[y]
       /\ recvbuf' \in [Sides -> Seq(Items)] /\ recvbuf'[x] = <<>> /\ recvbuf'[y] = recvbuf[y]
  <2>1. /\ inflight \in [Sides -> Seq(Flights)] /\ incoming \in [Sides -> Seq(Incomings)]
        /\ sendbuf \in [Sides -> Seq(Items)] /\ recvbuf \in [Sides -> Seq(Items)]
    BY <1>1 DEF TypeOK
  <2>2. ASSUME NEW S, NEW f \in [Sides -> Seq(S)], NEW g, g = Put(f, x, <<>>)
        PROVE  g \in [Sides -> Seq(S)] /\ g[x] = <<>> /\ g[y] = f[y]
    <3>1. <<>> \in Seq(S)
      OBVIOUS
    <3> QED
      BY <1>1, <2>2, <3>1 DEF Put
  <2>3. /\ inflight' = Put(inflight, x, <<>>) /\ incoming' = Put(incoming, x, <<>>)
        /\ sendbuf' = Put(sendbuf, x, <<>>) /\ recvbuf' = Put(recvbuf, x, <<>>)
    BY <1>2
  <2>4. inflight' \in [Sides -> Seq(Flights)] /\ inflight'[x] = <<>> /\ inflight'[y] = inflight[y]
    BY <2>1, <2>2, <2>3
  <2>5. incoming' \in [Sides -> Seq(Incomings)] /\ incoming'[x] = <<>> /\ incoming'[y] = incoming[y]
    BY <2>1, <2>2, <2>3
  <2>6. sendbuf' \in [Sides -> Seq(Items)] /\ sendbuf'[x] = <<>> /\ sendbuf'[y] = sendbuf[y]
    BY <2>1, <2>2, <2>3
  <2>7. recvbuf' \in [Sides -> Seq(Items)] /\ recvbuf'[x] = <<>> /\ recvbuf'[y] = recvbuf[y]
    BY <2>1, <2>2, <2>3
  <2> QED
    BY <2>4, <2>5, <2>6, <2>7
<1>18. TypeOK'
  BY <1>1, <1>2, <1>12, <1>14, <1>15, <1>16, <1>17 DEF TypeOK, ReceivedEvents
<1>19. Kept(y)
  BY <1>2, <1>14, <1>16, <1>17 DEF Kept
<1>20. y = Peer(x) /\ ~Running(x)' /\ (Running(y)' <=> Running(y)) /\ conn'[x] # "initiated"
  BY <1>16 DEF Running, y
<1>21. Pipe(y) = Pipe(y)' \o sendbuf[x] /\ sendbuf[x] \in Seq(Items) /\ Pipe(y)' \in Seq(Items)
  BY <1>1, <1>2, <1>20, ClosePipe
<1>22. Transfers(x)'
  <2>1. FlightsOK(o, arrived, inflight'[x], current'[x], sendTodo'[x])
    BY <1>16, <1>17, NoFlights
  <2>2. Running(y) => \E q \in DataPlaces : DataRun(o, ReceiverPlace(x, o, a), Pipe(y)', q)
    <3> SUFFICES ASSUME Running(y)
                 PROVE  \E q \in DataPlaces : DataRun(o, ReceiverPlace(x, o, a), Pipe(y)', q)
      OBVIOUS
    <3>1. PICK q \in DataPlaces : DataRun(o, ReceiverPlace(x, o, a), Pipe(y), q)
      BY <1>4, <1>20 DEF InStep, DataAgrees
    <3> DEFINE u == Pipe(y)'
               v == sendbuf[x]
    <3>2. u \in Seq(Items) /\ v \in Seq(Items) /\ DataRun(o, ReceiverPlace(x, o, a), u \o v, q)
      BY <1>21, <3>1
    <3> HIDE DEF u, v
    <3>3. \E m \in DataPlaces : DataRun(o, ReceiverPlace(x, o, a), u, m)
      BY <3>2, DataRunPart
    <3> QED
      BY <3>3 DEF u
  <2>3. InStep(x, o, a)'
    BY <1>1, <1>2, <1>4, <1>16, <1>17, <1>20, <2>1, <2>2, SenderStops
  <2>4. SentOnce(x, o)'
    BY <1>4, <1>20 DEF SentOnce
  <2>5. NotYetGiven(x, o, a)'
    <3>1. ReceiveAt(o, a, incoming'[y], recvTodo'[y]).i = ReceiveAt(o, a, incoming[y], recvTodo[y]).i
          /\ (conn'[y] # "closed" => conn[y] # "closed")
      BY <1>16, <1>17
    <3> QED
      BY <1>2, <1>4, <1>12, <1>20, <3>1, NotYetGivenStays
  <2> QED
    BY <1>4, <2>3, <2>4, <2>5 DEF Transfers
<1>23. Transfers(y)'
  <2>1. IncomingOK(o2, arrived, a2, incoming'[x], recvTodo'[x])
    BY <1>6, <1>8, <1>16, <1>17, NoIncoming
  <2>2. Running(y) => \E q \in AckPlaces : /\ AckRun(o2, arrived, AckedPlace(y, o2), Pipe(y)', q)
                                          /\ NotAhead(q, SenderPlace(y, o2))
    <3> SUFFICES ASSUME Running(y)
                 PROVE  \E q \in AckPlaces : /\ AckRun(o2, arrived, AckedPlace(y, o2), Pipe(y)', q)
                                             /\ NotAhead(q, SenderPlace(y, o2))
      OBVIOUS
    <3>1. PICK q \in AckPlaces : /\ AckRun(o2, arrived, AckedPlace(y, o2), Pipe(y), q)
                                 /\ NotAhead(q, SenderPlace(y, o2))
      BY <1>5 DEF InStep, AcksAgree
    <3> DEFINE u == Pipe(y)'
               v == sendbuf[x]
               z == SenderPlace(y, o2)
    <3>2. u \in Seq(Items) /\ v \in Seq(Items) /\ AckRun(o2, arrived, AckedPlace(y, o2), u \o v, q)
      BY <1>21, <3>1
    <3>3. z \in DataPlaces /\ NotAhead(q, z)
      BY <1>1, <1>5, <3>1, PlacesType DEF InStep
    <3> HIDE DEF u, v, z
    <3>4. \E m \in AckPlaces : AckRun(o2, arrived, AckedPlace(y, o2), u, m) /\ NotAhead(m, z)
      BY <3>2, <3>3, AckRunPart
    <3> QED
      BY <3>4 DEF u, z
  <2>3. InStep(y, o2, a2)'
    BY <1>1, <1>2, <1>5, <1>16, <1>17, <1>20, <2>1, <2>2, ReceiverStops
  <2>4. SentOnce(y, o2)'
    BY <1>5, <1>14, <1>16, <1>17, <1>20 DEF SentOnce
  <2>5. NotYetGiven(y, o2, a2)'
    BY <1>1, <1>16 DEF NotYetGiven
  <2> QED
    BY <1>5, <2>3, <2>4, <2>5 DEF Transfers
<1>24. Local(x)'
  <2>1. pc'[x] = "loop"
    BY <1>1, <1>2, <1>3 DEF Local, ThreadOK
  <2>2. ThreadOK(x)' /\ ClosedOK(x)'
    BY <1>16, <1>17, <2>1 DEF ThreadOK, ClosedOK
  <2>3. QueueOK(x)'
    BY <1>9, <1>14, <1>17 DEF QueueOK
  <2> QED
    BY <2>2, <2>3 DEF Local
<1> QED
  BY <1>13, <1>18, <1>19, <1>20, <1>22, <1>23, <1>24 DEF StepOK

-----------------------------------------------------------------------------
(* A new contact.                                                          *)

\* Both connections have just been opened, and wrote their contact header.
Fresh ==
    /\ TypeOK
    /\ \A s \in Sides :
          /\ conn[s] = "initiated" /\ pc[s] = "loop"
          /\ wire[s] = <<Header>> /\ sendbuf[s] = <<>> /\ recvbuf[s] = <<>>
          /\ inflight[s] = <<>> /\ current[s] = NoBundle /\ sendTodo[s] = 0
          /\ incoming[s] = <<>> /\ recvTodo[s] = 0 /\ IsInjective(queue[s])
          /\ \A b \in Bundles : Cardinality(Events(s, b)) < contacts

LEMMA HeaderRuns ==
    /\ DataRun(<<>>, Start, <<Header>>, Place(1, 0, 0))
    /\ \A r : AckRun(<<>>, r, Mark(1, 0), <<Header>>, Mark(1, 0))
    /\ <<Header>> \in Seq(Items)
<1>1. Header \in Items /\ Header.type = "header"
  BY DEF Header, Items
<1>2. Start \in DataPlaces /\ Place(1, 0, 0) \in DataPlaces /\ Mark(1, 0) \in AckPlaces
  BY PlaceType DEF Start
<1>3. DataStep(<<>>, Start, Header, Place(1, 0, 0))
  BY <1>1 DEF DataStep
<1>4. ASSUME NEW r PROVE AckStep(<<>>, r, Mark(1, 0), Header, Mark(1, 0))
  BY <1>1 DEF AckStep
<1>5. ASSUME NEW r PROVE AckRun(<<>>, r, Mark(1, 0), <<Header>>, Mark(1, 0))
  BY <1>1, <1>2, <1>4, AckRunOne
<1> QED
  BY <1>1, <1>2, <1>3, <1>5, DataRunOne

LEMMA FirstPlaces ==
    /\ SendAt(<<>>, <<>>, 0) = Place(1, 0, 0) /\ AckedAt(<<>>, <<>>, 0) = Mark(1, 0)
    /\ AcksAt(1, <<>>) = Mark(1, 0)
    /\ \A r : FlightsOK(<<>>, r, <<>>, NoBundle, 0) /\ IncomingOK(<<>>, r, 1, <<>>, 0)
    /\ NotAhead(Mark(1, 0), Place(1, 0, 0))
<1>1. Len(<<>>) = 0 /\ 0 + 1 = 1 /\ Begun(<<>>, 0) = 0 /\ 0 - 0 = 0 /\ <<>> \in Seq(Bundles)
  BY DEF Begun, Unsent
<1>2. SendAt(<<>>, <<>>, 0) = Place(1, 0, 0)
  BY <1>1 DEF SendAt
<1>3. AckedAt(<<>>, <<>>, 0) = Mark(1, 0)
  BY <1>1 DEF AckedAt
<1>4. AcksAt(1, <<>>) = Mark(1, 0)
  BY DEF AcksAt
<1>5. ASSUME NEW r PROVE FlightsOK(<<>>, r, <<>>, NoBundle, 0)
  BY <1>1, NoFlights
<1>6. ASSUME NEW r PROVE IncomingOK(<<>>, r, 1, <<>>, 0)
  <2>1. (1 + 0) - 1 <= 0 /\ \A k \in 1..0 : FALSE
    OBVIOUS
  <2> QED
    BY <1>1, <2>1 DEF IncomingOK
<1>7. NotAhead(Mark(1, 0), Place(1, 0, 0))
  BY DEF NotAhead, Mark, Place
<1> QED
  BY <1>2, <1>3, <1>4, <1>5, <1>6, <1>7

LEMMA FreshGood == Fresh => \A s \in Sides : Local(s) /\ Transfers(s)
<1> SUFFICES ASSUME Fresh, NEW s \in Sides PROVE Local(s) /\ Transfers(s)
  OBVIOUS
<1> DEFINE t == Peer(s)
<1>1. t \in Sides /\ Peer(t) = s /\ t # s
  BY PeerIs
<1>2. ASSUME NEW u \in Sides
      PROVE  /\ conn[u] = "initiated" /\ pc[u] = "loop"
             /\ wire[u] = <<Header>> /\ sendbuf[u] = <<>> /\ recvbuf[u] = <<>>
             /\ inflight[u] = <<>> /\ current[u] = NoBundle /\ sendTodo[u] = 0
             /\ incoming[u] = <<>> /\ recvTodo[u] = 0 /\ IsInjective(queue[u])
             /\ \A b \in Bundles : Cardinality(Events(u, b)) < contacts
  BY DEF Fresh
<1>3. Running(s) /\ Running(t)
  BY <1>1, <1>2 DEF Running
<1>4. Local(s)
  BY <1>2, <1>3 DEF Local, ThreadOK, ClosedOK, QueueOK
<1>5. ASSUME NEW u \in Sides PROVE Pipe(u) = <<Header>>
  <2> DEFINE h == <<Header>>
  <2>1. Peer(u) \in Sides
    BY PeerIs
  <2>2. Pipe(u) = (<<>> \o h) \o <<>>
    BY <1>2, <2>1 DEF Pipe
  <2>3. h \in Seq(Items)
    BY HeaderRuns
  <2> HIDE DEF h
  <2>4. <<>> \o h = h /\ h \o <<>> = h
    BY <2>3, ConcatEmptySeq
  <2> QED
    BY <2>2, <2>4 DEF h
<1> HIDE DEF t
<1>6. /\ SenderPlace(s, <<>>) = Place(1, 0, 0) /\ AckedPlace(s, <<>>) = Mark(1, 0)
      /\ ReceiverPlace(s, <<>>, 1) = Start /\ AckingPlace(s, 1) = Mark(1, 0) /\ t = Peer(s)
  BY <1>1, <1>2, FirstPlaces DEF SenderPlace, AckedPlace, ReceiverPlace, AckingPlace, t
<1>7. EndsOK(s, <<>>, 1)
  BY <1>1, <1>2, <1>6, FirstPlaces DEF EndsOK
<1>8. DataAgrees(s, <<>>, 1)
  <2>1. Place(1, 0, 0) \in DataPlaces
    BY PlaceType
  <2> QED
    BY <1>1, <1>3, <1>5, <1>6, <2>1, HeaderRuns DEF DataAgrees
<1>9. AcksAgree(s, <<>>, 1)
  <2>1. Mark(1, 0) \in AckPlaces
    BY PlaceType
  <2> QED
    BY <1>1, <1>3, <1>5, <1>6, <2>1, HeaderRuns, FirstPlaces DEF AcksAgree
<1>10. SentOnce(s, <<>>)
  <2>1. ToSet(<<>>) = {} /\ IsInjective(<<>>)
    BY DEF ToSet, IsInjective
  <2> QED
    BY <1>2, <2>1 DEF SentOnce, Unsent
<1>11. NotYetGiven(s, <<>>, 1)
  BY <1>1, <1>2, <1>6 DEF NotYetGiven
<1>12. <<>> \in Seq(Bundles) /\ 1 \in Nat
  OBVIOUS
<1>13. Transfers(s)
  BY <1>7, <1>8, <1>9, <1>10, <1>11, <1>12 DEF Transfers, InStep
<1> QED
  BY <1>4, <1>13

\* What holds of the state at the start of any contact.
LEMMA FreshThen == Fresh' => (\A s \in Sides : Local(s) /\ Transfers(s))'
BY FreshGood, PTL

LEMMA InitFresh ==
    ASSUME Init PROVE Fresh /\ GivenOK
<1>1. TypeOK
  <2>1. <<Header>> \in Seq(Items)
    BY HeaderRuns
  <2>2. 1 \in 1..MaxContacts
    BY ParamsAssumption
  <2> QED
    BY <2>1, <2>2, QueuedAssumption DEF Init, TypeOK
<1>2. \A s \in Sides : \A b : Events(s, b) = {}
  BY DEF Init, Events
<1>3. Cardinality({}) = 0
  BY FS_EmptySet
<1>4. Fresh
  <2>1. \A s \in Sides : IsInjective(queue[s])
    BY QueuedAssumption DEF Init
  <2>2. \A s \in Sides, b \in Bundles : Cardinality(Events(s, b)) < contacts
    <3>1. contacts = 1 /\ 0 < 1
      BY DEF Init
    <3> QED
      BY <1>2, <1>3, <3>1
  <2>3. \A s \in Sides :
          /\ conn[s] = "initiated" /\ pc[s] = "loop"
          /\ wire[s] = <<Header>> /\ sendbuf[s] = <<>> /\ recvbuf[s] = <<>>
          /\ inflight[s] = <<>> /\ current[s] = NoBundle /\ sendTodo[s] = 0
          /\ incoming[s] = <<>> /\ recvTodo[s] = 0
    BY DEF Init
  <2> QED
    BY <1>1, <2>1, <2>2, <2>3 DEF Fresh
<1>5. GivenOK
  <2>1. \A b \in Bundles : arrived[b] <= Length[b]
    BY LengthType DEF Init
  <2>2. ReceivedIntact
    BY DEF Init, ReceivedIntact, Range
  <2>3. OncePerContact
    <3>1. contacts = 1 /\ 0 <= 1
      BY DEF Init
    <3>2. \A s \in Sides, b \in Bundles : Cardinality(Events(s, b)) <= contacts
      BY <1>2, <1>3, <3>1
    <3> QED
      BY <3>2 DEF OncePerContact, Events
  <2> QED
    BY <2>1, <2>2, <2>3 DEF GivenOK
<1> QED
  BY <1>4, <1>5

LEMMA ReconnectStep ==
    ASSUME IInv, Reconnect
    PROVE  IInv'
<1>1. TypeOK /\ GivenOK /\ \A s \in Sides : Local(s)
  BY DEF IInv, GivenOK, Local
<1>2. /\ \A s \in Sides : conn[s] = "closed"
      /\ contacts < MaxContacts /\ contacts' = contacts + 1
      /\ conn' = [s \in Sides |-> "initiated"] /\ wire' = [s \in Sides |-> <<Header>>]
      /\ queue' = queue /\ inflight' = inflight /\ current' = current /\ sendTodo' = sendTodo
      /\ sendbuf' = sendbuf /\ recvbuf' = recvbuf /\ incoming' = incoming
      /\ recvTodo' = recvTodo /\ pc' = pc /\ transmitted' = transmitted
      /\ received' = received /\ cancelled' = cancelled /\ arrived' = arrived
  BY DEF Reconnect, sending, receiving, posted
<1>3. contacts' \in 1..MaxContacts /\ contacts \in Nat
  BY <1>1, <1>2, ParamsAssumption DEF TypeOK
<1>4. wire' \in [Sides -> Seq(Items)]
        /\ conn' \in [Sides -> {"initiated", "up", "broken", "error", "closed"}]
  BY <1>2, HeaderRuns
<1>5. TypeOK'
  BY <1>1, <1>2, <1>3, <1>4 DEF TypeOK
<1>6. ASSUME NEW s \in Sides, NEW b \in Bundles
      PROVE  /\ Events(s, b)' = Events(s, b) /\ Cardinality(Events(s, b)) \in Nat
             /\ Cardinality(Events(s, b)) <= contacts
  <2>1. Events(s, b)' = Events(s, b)
    BY <1>2 DEF Events
  <2>2. Cardinality(Events(s, b)) <= contacts
    BY <1>1 DEF GivenOK, OncePerContact, Events
  <2> QED
    BY <1>1, <2>1, <2>2, EventsAre
<1>7. ASSUME NEW s \in Sides, NEW b \in Bundles
      PROVE  Cardinality(Events(s, b)') < contacts' /\ Cardinality(Events(s, b)') <= contacts'
  <2> DEFINE n == Cardinality(Events(s, b))
  <2>1. n \in Nat /\ n <= contacts /\ Cardinality(Events(s, b)') = n
    BY <1>6
  <2> HIDE DEF n
  <2> QED
    BY <1>2, <1>3, <2>1
<1>8. Fresh'
  <2>1. \A s \in Sides :
          /\ conn'[s] = "initiated" /\ pc'[s] = "loop"
          /\ wire'[s] = <<Header>> /\ sendbuf'[s] = <<>> /\ recvbuf'[s] = <<>>
          /\ inflight'[s] = <<>> /\ current'[s] = NoBundle /\ sendTodo'[s] = 0
          /\ incoming'[s] = <<>> /\ recvTodo'[s] = 0 /\ IsInjective(queue'[s])
    BY <1>1, <1>2 DEF Local, ThreadOK, ClosedOK, QueueOK, Running
  <2>2. \A s \in Sides, b \in Bundles : Cardinality(Events(s, b)') < contacts'
    BY <1>7
  <2> QED
    BY <1>5, <2>1, <2>2 DEF Fresh
<1>9. GivenOK'
  <2>1. OncePerContact'
    BY <1>7 DEF OncePerContact, Events
  <2>2. ReceivedIntact' /\ \A b \in Bundles : arrived'[b] <= Length[b]
    BY <1>1, <1>2 DEF GivenOK, ReceivedIntact
  <2> QED
    BY <2>1, <2>2 DEF GivenOK
<1> QED
  BY <1>5, <1>8, <1>9, FreshThen DEF IInv, GivenOK, Local

-----------------------------------------------------------------------------
(* The invariant.                                                          *)

LEMMA InitIInv ==
    ASSUME Init PROVE IInv
<1>1. Fresh /\ GivenOK
  BY InitFresh
<1> QED
  BY <1>1, FreshGood DEF IInv, Fresh, GivenOK, Local

LEMMA UnchangedIInv ==
    ASSUME IInv, UNCHANGED vars PROVE IInv'
<1>1. /\ queue' = queue /\ inflight' = inflight /\ current' = current /\ sendTodo' = sendTodo
      /\ sendbuf' = sendbuf /\ wire' = wire /\ recvbuf' = recvbuf /\ incoming' = incoming
      /\ recvTodo' = recvTodo /\ pc' = pc /\ conn' = conn /\ contacts' = contacts
      /\ transmitted' = transmitted /\ received' = received /\ cancelled' = cancelled
      /\ arrived' = arrived
  BY DEF vars, sending, receiving, posted
<1>2. TypeOK'
  BY <1>1 DEF IInv, TypeOK
<1>3. (\A b \in Bundles : arrived'[b] <= Length[b]) /\ ReceivedIntact' /\ OncePerContact'
  BY <1>1 DEF IInv, ReceivedIntact, OncePerContact
<1>4. ASSUME NEW s \in Sides PROVE ThreadOK(s)' /\ ClosedOK(s)' /\ QueueOK(s)'
  <2>1. ThreadOK(s) /\ ClosedOK(s) /\ QueueOK(s)
    BY DEF IInv
  <2> QED
    BY <1>1, <2>1 DEF ThreadOK, ClosedOK, QueueOK, Running
<1>5. ASSUME NEW s \in Sides PROVE Transfers(s)'
  <2>1. PICK o \in Seq(Bundles), a \in Nat : InStep(s, o, a) /\ SentOnce(s, o) /\ NotYetGiven(s, o, a)
    BY DEF IInv, Transfers
  <2>2. \A t : Pipe(t)' = Pipe(t) /\ (Running(t)' <=> Running(t))
    BY <1>1 DEF Pipe, Running
  <2>3. /\ SenderPlace(s, o)' = SenderPlace(s, o) /\ AckedPlace(s, o)' = AckedPlace(s, o)
        /\ ReceiverPlace(s, o, a)' = ReceiverPlace(s, o, a) /\ AckingPlace(s, a)' = AckingPlace(s, a)
    BY <1>1 DEF SenderPlace, AckedPlace, ReceiverPlace, AckingPlace
  <2>4. EndsOK(s, o, a)'
    BY <1>1, <2>1 DEF InStep, EndsOK
  <2>5. DataAgrees(s, o, a)'
    BY <2>1, <2>2, <2>3 DEF InStep, DataAgrees
  <2>6. AcksAgree(s, o, a)'
    BY <1>1, <2>1, <2>2, <2>3 DEF InStep, AcksAgree
  <2>7. SentOnce(s, o)'
    BY <1>1, <2>1, <2>2 DEF SentOnce
  <2>8. NotYetGiven(s, o, a)'
    BY <1>1, <2>1 DEF NotYetGiven, Events
  <2> QED
    BY <2>1, <2>4, <2>5, <2>6, <2>7, <2>8 DEF Transfers, InStep
<1> QED
  BY <1>2, <1>3, <1>4, <1>5 DEF IInv

\* From what a step of one side does to the whole invariant.
LEMMA SideStep ==
    ASSUME IInv, NEW x \in Sides, StepOK(x), GivenOK' PROVE IInv'
<1>1. Sides = {x, Peer(x)} /\ Peer(x) \in Sides
  BY PeerIs
<1>2. Local(Peer(x))
  BY <1>1 DEF IInv, Local
<1>3. Local(Peer(x))'
  BY <1>2, KeptLocal DEF StepOK
<1>4. ASSUME NEW s \in Sides PROVE Local(s)' /\ Transfers(s)'
  <2>1. CASE s = x
    BY <2>1 DEF StepOK
  <2>2. CASE s # x
    <3>1. s = Peer(x)
      BY <1>1, <2>2
    <3> QED
      BY <1>3, <3>1 DEF StepOK
  <2> QED
    BY <2>1, <2>2
<1> QED
  BY <1>4 DEF IInv, StepOK, GivenOK, Local

LEMMA QuietStep ==
    ASSUME IInv, NEW x \in Sides, StepOK(x),
           received' = received, contacts' = contacts, arrived' = arrived
    PROVE  IInv'
<1>1. GivenOK
  BY DEF IInv, GivenOK
<1> QED
  BY <1>1, GivesNone, SideStep

LEMMA NextIInv ==
    ASSUME IInv, [Next]_vars PROVE IInv'
<1> USE DEF sending, receiving, posted
<1>1. ASSUME NEW x \in Sides, ContinueSegment(x) PROVE IInv'
  <2>1. received' = received /\ contacts' = contacts /\ arrived' = arrived
    BY <1>1 DEF ContinueSegment
  <2> QED
    BY <1>1, <2>1, ContinueSegmentStep, QuietStep
<1>2. ASSUME NEW x \in Sides, SendPendingAcks(x) PROVE IInv'
  <2>1. received' = received /\ contacts' = contacts /\ arrived' = arrived
    BY <1>2 DEF SendPendingAcks
  <2> QED
    BY <1>2, <2>1, SendPendingAcksStep, QuietStep
<1>3. ASSUME NEW x \in Sides, StartNextBundle(x) PROVE IInv'
  <2>1. received' = received /\ contacts' = contacts /\ arrived' = arrived
    BY <1>3 DEF StartNextBundle
  <2> QED
    BY <1>3, <2>1, StartNextBundleStep, QuietStep
<1>4. ASSUME NEW x \in Sides, SendNextSegment(x) PROVE IInv'
  <2>1. received' = received /\ contacts' = contacts /\ arrived' = arrived
    BY <1>4 DEF SendNextSegment
  <2> QED
    BY <1>4, <2>1, SendNextSegmentStep, QuietStep
<1>5. ASSUME NEW x \in Sides, FinishBundle(x) PROVE IInv'
  <2>1. received' = received /\ contacts' = contacts /\ arrived' = arrived
    BY <1>5 DEF FinishBundle
  <2> QED
    BY <1>5, <2>1, FinishBundleStep, QuietStep
<1>6. ASSUME NEW x \in Sides, NothingToSend(x) PROVE IInv'
  <2>1. received' = received /\ contacts' = contacts /\ arrived' = arrived
    BY <1>6 DEF NothingToSend
  <2> QED
    BY <1>6, <2>1, NothingToSendStep, QuietStep
<1>7. ASSUME NEW x \in Sides, Flush(x) PROVE IInv'
  <2>1. received' = received /\ contacts' = contacts /\ arrived' = arrived
    BY <1>7 DEF Flush
  <2> QED
    BY <1>7, <2>1, FlushStep, QuietStep
<1>8. ASSUME NEW x \in Sides, SendKeepalive(x) PROVE IInv'
  <2>1. received' = received /\ contacts' = contacts /\ arrived' = arrived
    BY <1>8 DEF SendKeepalive
  <2> QED
    BY <1>8, <2>1, SendKeepaliveStep, QuietStep
<1>9. ASSUME NEW x \in Sides, Read(x) PROVE IInv'
  <2>1. received' = received /\ contacts' = contacts /\ arrived' = arrived
    BY <1>9 DEF Read
  <2> QED
    BY <1>9, <2>1, ReadStep, QuietStep
<1>10. ASSUME NEW x \in Sides, HandleContactInitiation(x) PROVE IInv'
  <2>1. received' = received /\ contacts' = contacts /\ arrived' = arrived
    BY <1>10 DEF HandleContactInitiation
  <2> QED
    BY <1>10, <2>1, HandleContactInitiationStep, QuietStep
<1>11. ASSUME NEW x \in Sides, HandleDataSegment(x) PROVE IInv'
  <2>1. received' = received /\ contacts' = contacts /\ arrived' = arrived
    BY <1>11 DEF HandleDataSegment
  <2> QED
    BY <1>11, <2>1, HandleDataSegmentStep, QuietStep
<1>12. ASSUME NEW x \in Sides, HandleDataTodo(x) PROVE IInv'
  BY <1>12, HandleDataTodoStep, SideStep
<1>13. ASSUME NEW x \in Sides, HandleAckSegment(x) PROVE IInv'
  <2>1. received' = received /\ contacts' = contacts /\ arrived' = arrived
    BY <1>13 DEF HandleAckSegment
  <2> QED
    BY <1>13, <2>1, HandleAckSegmentStep, QuietStep
<1>14. ASSUME NEW x \in Sides, HandleOther(x) PROVE IInv'
  <2>1. received' = received /\ contacts' = contacts /\ arrived' = arrived
    BY <1>14 DEF HandleOther
  <2> QED
    BY <1>14, <2>1, HandleOtherStep, QuietStep
<1>15. ASSUME NEW x \in Sides, HandleShutdown(x) PROVE IInv'
  <2>1. received' = received /\ contacts' = contacts /\ arrived' = arrived
    BY <1>15 DEF HandleShutdown, Break
  <2> QED
    BY <1>15, <2>1, HandleShutdownStep, QuietStep
<1>16. ASSUME NEW x \in Sides, CloseContact(x) PROVE IInv'
  BY <1>16, CloseContactStep, SideStep
<1>17. ASSUME NEW x \in Sides, NEW r \in Breaks, BreakContact(x, r) PROVE IInv'
  <2>1. received' = received /\ contacts' = contacts /\ arrived' = arrived
    BY <1>17 DEF BreakContact, Break
  <2> QED
    BY <1>17, <2>1, BreakContactStep, QuietStep
<1>18. ASSUME NEW x \in Sides, NEW b \in Cancels, CancelBundle(x, b) PROVE IInv'
  <2>1. received' = received /\ contacts' = contacts /\ arrived' = arrived
    BY <1>18 DEF CancelBundle
  <2> QED
    BY <1>18, <2>1, CancelBundleStep, QuietStep
<1>19. ASSUME Reconnect PROVE IInv'
  BY <1>19, ReconnectStep
<1>20. ASSUME UNCHANGED vars PROVE IInv'
  BY <1>20, UnchangedIInv
<1>21. ASSUME NEW x \in Sides, Thread(x) PROVE IInv'
  BY <1>21, <1>1, <1>2, <1>3, <1>4, <1>5, <1>6, <1>7, <1>8, <1>9, <1>10, <1>11, <1>12, <1>13,
     <1>14, <1>15 DEF Thread, SendNext, Process
<1> QED
  BY <1>16, <1>17, <1>18, <1>19, <1>20, <1>21 DEF Next

LEMMA Invariant == Spec => []IInv
<1>1. Init => IInv
  BY InitIInv
<1>2. IInv /\ [Next]_vars => IInv'
  BY NextIInv
<1> QED
  BY <1>1, <1>2, PTL DEF Spec

-----------------------------------------------------------------------------
(* What follows for every number and length of bundles and segments.       *)

\* The connections, their queues and the events they post keep their types.
THEOREM TypeCorrect == Spec => []TypeOK
<1>1. IInv => TypeOK
  BY DEF IInv
<1> QED
  BY <1>1, Invariant, PTL

\* Whatever part of a message each write and each read takes, and however
\* contacts break and bundles are cancelled, neither end of a connection finds
\* a message of the other one out of place (break_contact with CL_ERROR).
THEOREM NeverProtocolError == Spec => []NoProtocolError
<1>1. IInv => NoProtocolError
  BY DEF IInv, ThreadOK, NoProtocolError
<1> QED
  BY <1>1, Invariant, PTL

\* What a connection hands to its daemon is a bundle of the peer, or a prefix
\* of one if the contact broke, with its bytes in order.
THEOREM ReceivedAsSent == Spec => []ReceivedIntact
<1>1. IInv => ReceivedIntact
  BY DEF IInv
<1> QED
  BY <1>1, Invariant, PTL

\* In one contact no bundle is handed to the peer's daemon twice.
THEOREM GivenOncePerContact == Spec => []OncePerContact
<1>1. IInv => OncePerContact
  BY DEF IInv
<1> QED
  BY <1>1, Invariant, PTL

-----------------------------------------------------------------------------
(* Where the sender's side holds its bundles.                              *)

\* Bundle b is in flight with n units acknowledged.  When these are all of it,
\* the bundle has been reported although it may still be in the list.
GoesIn(F, b, n) == \E i \in 1..Len(F) : ~F[i].posted /\ F[i].bundle = b /\ F[i].acked = n
StopsIn(F, b, n) == \E i \in 1..Len(F) : F[i].posted /\ F[i].bundle = b /\ F[i].acked = n
\* Bundle b was reported with n units acknowledged.
ToldIn(R, b, n) == \E i \in 1..Len(R) : R[i].bundle = b /\ R[i].acked = n

Goes(s, b, n) == GoesIn(inflight[s], b, n)
Stops(s, b, n) == StopsIn(inflight[s], b, n)
Tells(s, b, n) == ToldIn(transmitted[s], b, n)

Waiting(s) == ToSet(queue[s])
Moving(s) == {b \in Bundles : \E n \in Nat : Goes(s, b, n)}
Told(s) == {b \in Bundles : \E n \in Nat : Tells(s, b, n)}

\* A bundle of Q waits, is in flight, was reported or was cancelled, and only
\* one of these.
Apportioned(Q, W, M, T, C) ==
    /\ W \cap M = {} /\ W \cap T = {} /\ W \cap C = {}
    /\ M \cap T = {} /\ M \cap C = {} /\ T \cap C = {}
    /\ W \subseteq Q /\ M \subseteq Q /\ T \subseteq Q /\ Q \subseteq ((W \cup M) \cup (T \cup C))

ToldOnce(R) == \A i, j \in 1..Len(R) : R[i].bundle = R[j].bundle => i = j

HeldOK(s) ==
    /\ Apportioned(Range(Queued[s]), Waiting(s), Moving(s), Told(s), cancelled)
    /\ ToldOnce(transmitted[s])
    /\ \A b, n : Stops(s, b, n) => Tells(s, b, n)

Held == \A s \in Sides : HeldOK(s)

\* What the invariant says of the flights of one side.
FlightsAre(s) ==
    LET F == inflight[s] IN
    /\ F \in Seq(Flights) /\ Len(F) \in Nat
    /\ \A k \in 1..Len(F) :
          /\ F[k] \in Flights /\ F[k].bundle \in Bundles /\ F[k].sent \in Nat /\ F[k].acked \in Nat
          /\ Length[F[k].bundle] \in Nat /\ Length[F[k].bundle] > 0
          /\ F[k].acked <= F[k].sent /\ F[k].sent <= Length[F[k].bundle]
          /\ F[k].posted <=> F[k].acked = Length[F[k].bundle]
          /\ F[k].posted => Len(F) = 1
          /\ k < Len(F) => F[k].sent > 0
          /\ F[k].bundle \notin Waiting(s)
    /\ \A j, k \in 1..Len(F) : F[j].bundle = F[k].bundle => j = k

LEMMA SideFlights ==
    ASSUME IInv, NEW s \in Sides
    PROVE  FlightsAre(s)
<1> DEFINE F == inflight[s]
           cur == current[s]
           todo == sendTodo[s]
<1>1. /\ F \in Seq(Flights) /\ cur \in Bundles \cup {NoBundle} /\ todo \in Nat
      /\ arrived \in [Bundles -> Nat] /\ QueueOK(s) /\ Transfers(s)
  BY DEF IInv, TypeOK
<1>2. PICK o \in Seq(Bundles), a \in Nat : InStep(s, o, a)
  BY <1>1 DEF Transfers
<1>3. FlightsOK(o, arrived, F, cur, todo)
  BY <1>2 DEF InStep, EndsOK
<1>4. Len(F) \in Nat /\ DOMAIN F = 1..Len(F)
  BY <1>1
<1>5. \A k \in 1..Len(F) : F[k].bundle \notin Waiting(s)
  BY <1>1, <1>4 DEF QueueOK, Waiting
<1> HIDE DEF F, cur, todo
<1>6. ASSUME NEW k \in 1..Len(F)
      PROVE  /\ F[k] \in Flights /\ F[k].bundle \in Bundles /\ F[k].sent \in Nat /\ F[k].acked \in Nat
             /\ Length[F[k].bundle] \in Nat /\ Length[F[k].bundle] > 0
             /\ F[k].acked <= F[k].sent /\ F[k].sent <= Length[F[k].bundle]
             /\ F[k].posted <=> F[k].acked = Length[F[k].bundle]
             /\ F[k].posted => Len(F) = 1
             /\ k < Len(F) => F[k].sent > 0
  <2>1. /\ F[k] \in Flights /\ F[k].bundle \in Bundles /\ F[k].sent \in Nat /\ F[k].acked \in Nat
        /\ Length[F[k].bundle] \in Nat /\ Length[F[k].bundle] > 0
        /\ F[k].acked <= F[k].sent /\ F[k].sent <= Length[F[k].bundle]
    BY <1>1, <1>2, <1>3, FlightIs
  <2>2. /\ k < Len(F) => F[k].sent = Length[F[k].bundle]
        /\ F[k].posted <=> F[k].acked = Length[F[k].bundle]
    BY <1>1, <1>2, <1>3, FlightIs
  <2>3. F[k].posted => Len(F) = 1
    BY <1>1, <1>2, <1>3, PostedAlone
  <2> QED
    BY <2>1, <2>2, <2>3
<1>7. \A j, k \in 1..Len(F) : F[j].bundle = F[k].bundle => j = k
  BY <1>3 DEF FlightsOK
<1> QED
  BY <1>1, <1>4, <1>5, <1>6, <1>7 DEF FlightsAre, F

\* A list of flights with the same bundles, acknowledged as far.
Alike(F, G) ==
    /\ G \in Seq(Flights) /\ Len(G) = Len(F)
    /\ \A k \in 1..Len(F) : /\ G[k].bundle = F[k].bundle /\ G[k].acked = F[k].acked
                            /\ G[k].posted = F[k].posted

\* Nothing the daemon would know of.
Unnoticed == /\ queue' = queue /\ transmitted' = transmitted /\ cancelled' = cancelled
             /\ \A s \in Sides : Alike(inflight[s], inflight'[s])

LEMMA AlikeGoes ==
    ASSUME NEW s, Alike(inflight[s], inflight'[s])
    PROVE  \A b, n : (Goes(s, b, n)' <=> Goes(s, b, n)) /\ (Stops(s, b, n)' <=> Stops(s, b, n))
BY DEF Alike, Goes, GoesIn, Stops, StopsIn

LEMMA UnnoticedSame ==
    ASSUME Unnoticed, NEW s \in Sides
    PROVE  /\ Waiting(s)' = Waiting(s) /\ Moving(s)' = Moving(s) /\ Told(s)' = Told(s)
           /\ \A b, n : /\ Goes(s, b, n)' <=> Goes(s, b, n)
                        /\ Stops(s, b, n)' <=> Stops(s, b, n)
                        /\ Tells(s, b, n)' <=> Tells(s, b, n)
<1>1. \A b, n : (Goes(s, b, n)' <=> Goes(s, b, n)) /\ (Stops(s, b, n)' <=> Stops(s, b, n))
  BY AlikeGoes DEF Unnoticed
<1>2. Waiting(s)' = Waiting(s) /\ \A b, n : Tells(s, b, n)' <=> Tells(s, b, n)
  BY DEF Unnoticed, Waiting, Tells, ToldIn
<1> QED
  BY <1>1, <1>2 DEF Moving, Told

LEMMA UnnoticedHeld ==
    ASSUME Held, Unnoticed PROVE Held'
<1> SUFFICES ASSUME NEW s \in Sides PROVE HeldOK(s)'
  BY DEF Held
<1>1. HeldOK(s) /\ cancelled' = cancelled /\ transmitted'[s] = transmitted[s]
  BY DEF Held, Unnoticed
<1> QED
  BY <1>1, UnnoticedSame DEF HeldOK

LEMMA AlikeSame ==
    ASSUME IInv, NEW s \in Sides, inflight'[s] = inflight[s]
    PROVE  Alike(inflight[s], inflight'[s])
BY DEF Alike, IInv, TypeOK

\* Data sent of the last bundle in flight.
LEMMA AlikeSent ==
    ASSUME NEW F \in Seq(Flights), F # <<>>, NEW n \in Nat
    PROVE  Alike(F, Append(Front(F), [Last(F) EXCEPT !.sent = @ + n]))
<1> DEFINE f == Last(F)
           g == [f EXCEPT !.sent = @ + n]
           c == Len(F)
           G == Append(Front(F), g)
<1>1. /\ c \in Nat /\ c > 0 /\ f = F[c] /\ f \in Flights /\ c \in 1..c
  BY DEF Last
<1>2. g \in Flights /\ g.bundle = f.bundle /\ g.acked = f.acked /\ g.posted = f.posted
  <2> DEFINE m == f.sent + n
  <2> HIDE DEF f
  <2>1. m \in Nat
    BY <1>1 DEF Flights
  <2>2. g = [f EXCEPT !.sent = m]
    OBVIOUS
  <2> HIDE DEF m, g
  <2> QED
    BY <1>1, <2>1, <2>2 DEF Flights
<1> HIDE DEF g, f
<1>3. G \in Seq(Flights) /\ Len(G) = c /\ G[c] = g /\ \A k \in 1..c : k # c => G[k] = F[k]
  BY <1>2, NewLastIs
<1> HIDE DEF G, c
<1> QED
  BY <1>1, <1>2, <1>3 DEF Alike, G, g, f, c

\* The flights and reports of a side, as its daemon knows them.
LEMMA SideGoes ==
    ASSUME IInv, NEW s \in Sides, NEW b, NEW n
    PROVE  /\ Goes(s, b, n) => b \in Bundles /\ n \in Nat /\ n < Length[b] /\ b \in Moving(s)
                               /\ b \notin Waiting(s)
           /\ Stops(s, b, n) => b \in Bundles /\ n \in Nat /\ n = Length[b] /\ Len(inflight[s]) = 1
           /\ Tells(s, b, n) => b \in Bundles /\ n \in Nat /\ b \in Told(s)
           /\ \A m : Goes(s, b, n) /\ Goes(s, b, m) => m = n
           /\ \A m : Goes(s, b, n) => ~Stops(s, b, m)
<1>1. FlightsAre(s)
  BY SideFlights
<1>2. Goes(s, b, n) => b \in Bundles /\ n \in Nat /\ n < Length[b] /\ b \notin Waiting(s)
  <2> SUFFICES ASSUME Goes(s, b, n)
               PROVE  b \in Bundles /\ n \in Nat /\ n < Length[b] /\ b \notin Waiting(s)
    OBVIOUS
  <2>1. PICK i \in 1..Len(inflight[s]) :
           ~inflight[s][i].posted /\ inflight[s][i].bundle = b /\ inflight[s][i].acked = n
    BY DEF Goes, GoesIn
  <2>2. /\ b \in Bundles /\ n \in Nat /\ Length[b] \in Nat /\ n # Length[b]
        /\ inflight[s][i].sent \in Nat /\ n <= inflight[s][i].sent
        /\ inflight[s][i].sent <= Length[b] /\ b \notin Waiting(s)
    BY <1>1, <2>1 DEF FlightsAre
  <2> QED
    BY <2>2
<1>3. Stops(s, b, n) => b \in Bundles /\ n \in Nat /\ n = Length[b] /\ Len(inflight[s]) = 1
  <2> SUFFICES ASSUME Stops(s, b, n)
               PROVE  b \in Bundles /\ n \in Nat /\ n = Length[b] /\ Len(inflight[s]) = 1
    OBVIOUS
  <2>1. PICK i \in 1..Len(inflight[s]) :
           inflight[s][i].posted /\ inflight[s][i].bundle = b /\ inflight[s][i].acked = n
    BY DEF Stops, StopsIn
  <2> QED
    BY <1>1, <2>1 DEF FlightsAre
<1>4. Tells(s, b, n) => b \in Bundles /\ n \in Nat
  <2>1. transmitted[s] \in Seq([bundle : Bundles, sent : Nat, acked : Nat])
    BY DEF IInv, TypeOK
  <2>2. \A i \in 1..Len(transmitted[s]) :
           transmitted[s][i].bundle \in Bundles /\ transmitted[s][i].acked \in Nat
    <3> DEFINE R == transmitted[s]
               S == [bundle : Bundles, sent : Nat, acked : Nat]
    <3>0. R \in Seq(S)
      BY <2>1
    <3> SUFFICES ASSUME NEW i \in 1..Len(R) PROVE R[i].bundle \in Bundles /\ R[i].acked \in Nat
      OBVIOUS
    <3> HIDE DEF R, S
    <3>1. R[i] \in S
      BY <3>0
    <3> QED
      BY <3>1 DEF S
  <2> QED
    BY <2>2 DEF Tells, ToldIn
<1>5. \A m : Goes(s, b, n) /\ Goes(s, b, m) => m = n
  BY <1>1 DEF Goes, GoesIn, FlightsAre
<1>6. \A m : Goes(s, b, n) => ~Stops(s, b, m)
  BY <1>1 DEF Goes, GoesIn, Stops, StopsIn, FlightsAre
<1>7. (Goes(s, b, n) => b \in Moving(s)) /\ (Tells(s, b, n) => b \in Told(s))
  BY <1>2, <1>4 DEF Moving, Told
<1> QED
  BY <1>2, <1>3, <1>4, <1>5, <1>6, <1>7

\* No other side has the bundles of a side.
LEMMA Others ==
    ASSUME Held, NEW s \in Sides, NEW t \in Sides, s # t
    PROVE  /\ Waiting(s) \cap ((Waiting(t) \cup Moving(t)) \cup Told(t)) = {}
           /\ Moving(s) \cap ((Waiting(t) \cup Moving(t)) \cup Told(t)) = {}
           /\ Told(s) \cap ((Waiting(t) \cup Moving(t)) \cup Told(t)) = {}
<1>1. Range(Queued[s]) \cap Range(Queued[t]) = {}
  BY QueuedAssumption
<1>2. HeldOK(s) /\ HeldOK(t)
  BY DEF Held
<1> QED
  BY <1>1, <1>2 DEF HeldOK, Apportioned

\* The other side's daemon sees nothing of a step of x.
Spared(y) == queue'[y] = queue[y] /\ inflight'[y] = inflight[y] /\ transmitted'[y] = transmitted[y]

LEMMA SparedSame ==
    ASSUME NEW y, Spared(y)
    PROVE  /\ Waiting(y)' = Waiting(y) /\ Moving(y)' = Moving(y) /\ Told(y)' = Told(y)
           /\ \A b, n : /\ Goes(y, b, n)' <=> Goes(y, b, n)
                        /\ Stops(y, b, n)' <=> Stops(y, b, n)
                        /\ Tells(y, b, n)' <=> Tells(y, b, n)
<1>1. \A b, n : /\ Goes(y, b, n)' <=> Goes(y, b, n)
                /\ Stops(y, b, n)' <=> Stops(y, b, n)
                /\ Tells(y, b, n)' <=> Tells(y, b, n)
  BY DEF Goes, GoesIn, Stops, StopsIn, Tells, ToldIn, Spared
<1> QED
  BY <1>1 DEF Waiting, Moving, Told, Spared

\* What a step of side x does to the bundles.
LEMMA HeldFrom ==
    ASSUME Held, NEW x \in Sides, Spared(Peer(x)), HeldOK(x)',
           NEW D, D \subseteq Moving(x), cancelled' = cancelled \cup D
    PROVE  Held'
<1> DEFINE y == Peer(x)
<1>1. y \in Sides /\ y # x /\ Sides = {x, y}
  BY PeerIs
<1>2. HeldOK(y) /\ HeldOK(x)
  BY <1>1 DEF Held
<1>3. Range(Queued[x]) \cap Range(Queued[y]) = {}
  BY <1>1, QueuedAssumption
<1>4. /\ Waiting(y)' = Waiting(y) /\ Moving(y)' = Moving(y) /\ Told(y)' = Told(y)
      /\ \A b, n : (Stops(y, b, n)' <=> Stops(y, b, n)) /\ (Tells(y, b, n)' <=> Tells(y, b, n))
  BY SparedSame
<1>5. ToldOnce(transmitted[y])'
  BY <1>2 DEF HeldOK, ToldOnce, Spared
<1> HIDE DEF y
<1>6. D \cap Range(Queued[y]) = {}
  BY <1>2, <1>3 DEF HeldOK, Apportioned
<1>7. Apportioned(Range(Queued[y]), Waiting(y), Moving(y), Told(y), cancelled')
  BY <1>2, <1>6 DEF HeldOK, Apportioned
<1>8. HeldOK(y)'
  BY <1>2, <1>4, <1>5, <1>7 DEF HeldOK
<1> QED
  BY <1>1, <1>8 DEF Held

LEMMA HeldStep ==
    ASSUME Held, NEW x \in Sides, Spared(Peer(x)), HeldOK(x)', cancelled' = cancelled
    PROVE  Held'
<1> DEFINE D == {b \in Moving(x) : FALSE}
<1>1. D \subseteq Moving(x) /\ cancelled' = cancelled \cup D
  OBVIOUS
<1> HIDE DEF D
<1> QED
  BY <1>1, HeldFrom

-----------------------------------------------------------------------------
(* What each step does to the bundles of its side.                         *)

LEMMA SendsAlike ==
    ASSUME IInv, NEW x \in Sides, inflight[x] # <<>>, NEW header, NEW todo \in Nat,
           SendDataTodo(x, Front(inflight[x]), Last(inflight[x]), header, todo),
           UNCHANGED <<queue, posted>>
    PROVE  Unnoticed
<1> DEFINE F == inflight[x]
<1>1. PICK n \in 0..todo :
         inflight' = Put(inflight, x, Append(Front(F), [Last(F) EXCEPT !.sent = @ + n]))
  BY DEF SendDataTodo
<1>2. inflight \in [Sides -> Seq(Flights)] /\ F \in Seq(Flights) /\ n \in Nat
  BY DEF IInv, TypeOK
<1> DEFINE G == Append(Front(F), [Last(F) EXCEPT !.sent = @ + n])
<1>3. Alike(F, G)
  <2> HIDE DEF F
  <2> QED
    BY <1>2, AlikeSent DEF F
<1> HIDE DEF G
<1>4. inflight'[x] = G /\ \A s \in Sides : s # x => inflight'[s] = inflight[s]
  BY <1>1, <1>2 DEF Put, G
<1>5. ASSUME NEW s \in Sides PROVE Alike(inflight[s], inflight'[s])
  <2>1. CASE s = x
    BY <1>3, <1>4, <2>1
  <2>2. CASE s # x
    BY <1>4, <2>2, AlikeSame
  <2> QED
    BY <2>1, <2>2
<1> QED
  BY <1>5 DEF Unnoticed, posted

LEMMA CurrentFlies ==
    ASSUME IInv, NEW x \in Sides, sendTodo[x] > 0 \/ current[x] # NoBundle
    PROVE  inflight[x] # <<>>
<1>1. PICK o \in Seq(Bundles), a \in Nat : InStep(x, o, a)
  BY DEF IInv, Transfers
<1>2. FlightsOK(o, arrived, inflight[x], current[x], sendTodo[x])
  BY <1>1 DEF InStep, EndsOK
<1>3. sendTodo[x] \in Nat
  BY DEF IInv, TypeOK
<1> QED
  BY <1>2, <1>3 DEF FlightsOK

LEMMA NoticesNone ==
    ASSUME IInv, inflight' = inflight, queue' = queue, transmitted' = transmitted,
           cancelled' = cancelled
    PROVE  Unnoticed
BY AlikeSame DEF Unnoticed

\* The steps of which the daemon of the sender learns nothing.
Silent(x) ==
    \/ ContinueSegment(x) \/ SendPendingAcks(x) \/ SendNextSegment(x) \/ NothingToSend(x)
    \/ Flush(x) \/ SendKeepalive(x) \/ Read(x)
    \/ HandleContactInitiation(x) \/ HandleDataSegment(x) \/ HandleDataTodo(x)
    \/ HandleOther(x) \/ HandleShutdown(x)
    \/ \E r \in Breaks : BreakContact(x, r)

LEMMA SilentSteps ==
    ASSUME IInv, NEW x \in Sides, Silent(x)
    PROVE  Unnoticed
<1> USE DEF sending, posted
<1>1. CASE ContinueSegment(x)
  <2>1. /\ sendTodo[x] > 0 /\ UNCHANGED <<queue, posted>>
        /\ SendDataTodo(x, Front(inflight[x]), Last(inflight[x]), <<>>, sendTodo[x])
    BY <1>1 DEF ContinueSegment
  <2>2. sendTodo[x] \in Nat /\ inflight[x] # <<>>
    BY <2>1, CurrentFlies DEF IInv, TypeOK
  <2> QED
    BY <2>1, <2>2, SendsAlike
<1>2. CASE SendNextSegment(x)
  <2> DEFINE f == Last(inflight[x])
             left == Length[f.bundle] - f.sent
             n == Least(SegmentLength, left)
             header == <<Segment(n, f.sent = 0, n = left)>>
  <2>1. /\ current[x] # NoBundle /\ UNCHANGED <<queue, posted>> /\ f.sent < Length[f.bundle]
        /\ SendDataTodo(x, Front(inflight[x]), f, header, n)
    BY <1>2 DEF SendNextSegment, SendSegment
  <2>2. inflight[x] # <<>> /\ inflight[x] \in Seq(Flights)
    BY <2>1, CurrentFlies DEF IInv, TypeOK
  <2>3. n \in Nat
    <3>1. f \in Flights
      BY <2>2, TailIs
    <3>2. f.sent \in Nat /\ Length[f.bundle] \in Nat /\ SegmentLength \in Nat
      BY <3>1, LengthsAssumption DEF Flights
    <3> HIDE DEF f
    <3> QED
      BY <2>1, <3>2 DEF Least
  <2> HIDE DEF n, header
  <2> QED
    BY <2>1, <2>2, <2>3, SendsAlike
<1>3. CASE SendPendingAcks(x) \/ NothingToSend(x) \/ Flush(x) \/ SendKeepalive(x) \/ Read(x)
  <2>1. inflight' = inflight /\ queue' = queue /\ transmitted' = transmitted /\ cancelled' = cancelled
    BY <1>3 DEF SendPendingAcks, NothingToSend, Flush, SendKeepalive, Read
  <2> QED
    BY <2>1, NoticesNone
<1>4. CASE \/ HandleContactInitiation(x) \/ HandleDataSegment(x) \/ HandleDataTodo(x)
           \/ HandleOther(x) \/ HandleShutdown(x)
  <2>1. inflight' = inflight /\ queue' = queue /\ transmitted' = transmitted /\ cancelled' = cancelled
    BY <1>4 DEF HandleContactInitiation, HandleDataSegment, HandleDataTodo, HandleOther,
                HandleShutdown, Break
  <2> QED
    BY <2>1, NoticesNone
<1>5. CASE \E r \in Breaks : BreakContact(x, r)
  <2>1. inflight' = inflight /\ queue' = queue /\ transmitted' = transmitted /\ cancelled' = cancelled
    BY <1>5 DEF BreakContact, Break
  <2> QED
    BY <2>1, NoticesNone
<1> QED
  BY <1>1, <1>2, <1>3, <1>4, <1>5 DEF Silent

\* A waiting bundle begins.
LEMMA StartIs ==
    ASSUME IInv, NEW x \in Sides, StartNextBundle(x)
    PROVE  LET c == Head(queue[x])
           IN  /\ Spared(Peer(x)) /\ transmitted' = transmitted /\ cancelled' = cancelled
               /\ c \in Waiting(x) /\ Waiting(x)' = Waiting(x) \ {c}
               /\ \A b, n : Goes(x, b, n)' <=> Goes(x, b, n) \/ (b = c /\ n = 0)
               /\ \A b, n : (Stops(x, b, n)' <=> Stops(x, b, n))
                            /\ (Tells(x, b, n)' <=> Tells(x, b, n))
<1> DEFINE c == Head(queue[x])
           F == inflight[x]
<1>1. Peer(x) \in Sides /\ Peer(x) # x
  BY PeerIs
<1>2. /\ queue[x] # <<>> /\ queue[x] \in Seq(Bundles) /\ IsInjective(queue[x])
      /\ queue \in [Sides -> Seq(Bundles)] /\ inflight \in [Sides -> Seq(Flights)]
      /\ F \in Seq(Flights)
  BY DEF IInv, TypeOK, QueueOK, StartNextBundle
<1>3. queue' = Put(queue, x, Tail(queue[x])) /\ transmitted' = transmitted /\ cancelled' = cancelled
  BY DEF StartNextBundle, posted
<1>4. c \in Bundles /\ c \in Waiting(x) /\ Waiting(x)' = Waiting(x) \ {c}
  <2>1. c \in Bundles /\ Waiting(x) = {c} \cup ToSet(Tail(queue[x]))
    BY <1>2, ElementsOfTail DEF Waiting
  <2>2. queue'[x] = Tail(queue[x])
    BY <1>2, <1>3 DEF Put
  <2>3. ToSet(Tail(queue[x])) = ToSet(queue[x]) \ {c}
    BY <1>2, InjectiveTail
  <2> QED
    BY <2>1, <2>2, <2>3 DEF Waiting
<1>5. PICK g : /\ inflight' = Put(inflight, x, Append(F, g))
               /\ g.bundle = c /\ g.acked = 0 /\ g.posted = FALSE
  <2> DEFINE f == Flight(c)
             left == Length[f.bundle] - f.sent
             n == Least(SegmentLength, left)
             header == <<Segment(n, f.sent = 0, n = left)>>
  <2>1. f.sent = 0 /\ f.bundle = c
    BY DEF Flight
  <2>2. CASE SendSegment(x, F, f)
    <3>1. SendDataTodo(x, F, f, header, n)
      BY <2>2 DEF SendSegment
    <3>2. PICK k \in 0..n : inflight' = Put(inflight, x, Append(F, [f EXCEPT !.sent = @ + k]))
      BY <3>1 DEF SendDataTodo
    <3> DEFINE g == [f EXCEPT !.sent = @ + k]
    <3>3. g.bundle = c /\ g.acked = 0 /\ g.posted = FALSE
      BY DEF Flight
    <3> HIDE DEF g
    <3> QED
      BY <3>2, <3>3 DEF g
  <2>3. CASE inflight' = Put(inflight, x, Append(F, f))
    <3>1. f.bundle = c /\ f.acked = 0 /\ f.posted = FALSE
      BY DEF Flight
    <3> HIDE DEF f
    <3> QED
      BY <2>3, <3>1
  <2> QED
    BY <2>2, <2>3 DEF StartNextBundle
<1> DEFINE G == Append(F, g)
<1> HIDE DEF c
<1>7. /\ Len(G) = Len(F) + 1 /\ Len(F) \in Nat /\ G[Len(F) + 1] = g
      /\ \A k \in 1..Len(F) : G[k] = F[k]
  BY <1>2
<1> HIDE DEF G
<1>8. inflight'[x] = G /\ inflight'[Peer(x)] = inflight[Peer(x)] /\ queue'[Peer(x)] = queue[Peer(x)]
  BY <1>1, <1>2, <1>3, <1>5 DEF Put, G
<1> HIDE DEF F
<1>10. \A k \in 1..(Len(F) + 1) : k \in 1..Len(F) \/ k = Len(F) + 1
  BY <1>7
<1>11. Len(F) + 1 \in 1..(Len(F) + 1) /\ \A k \in 1..Len(F) : k \in 1..(Len(F) + 1)
  BY <1>7
<1>12. ASSUME NEW b, NEW n PROVE Goes(x, b, n)' <=> Goes(x, b, n) \/ (b = c /\ n = 0)
  BY <1>5, <1>7, <1>8, <1>10, <1>11 DEF Goes, GoesIn, F
<1>13. ASSUME NEW b, NEW n PROVE Stops(x, b, n)' <=> Stops(x, b, n)
  BY <1>5, <1>7, <1>8, <1>10, <1>11 DEF Stops, StopsIn, F
<1>14. \A b, n : Tells(x, b, n)' <=> Tells(x, b, n)
  BY <1>3 DEF Tells, ToldIn
<1> QED
  BY <1>3, <1>4, <1>8, <1>12, <1>13, <1>14 DEF Spared, c

LEMMA AckFits ==
    ASSUME NEW o, NEW r, NEW F, NEW cur, NEW todo, NEW x, NEW q, AckComes(o, r, F, cur, todo, x, q)
    PROVE  /\ F # <<>> /\ x.len > Head(F).acked /\ x.len \in Nat /\ ~Head(F).posted
           /\ x.len <= r[Head(F).bundle] /\ x.len <= Length[Head(F).bundle]
<1>1. /\ o \in Seq(Bundles) /\ r \in [Bundles -> Nat] /\ F \in Seq(Flights)
      /\ cur \in Bundles \cup {NoBundle} /\ todo \in Nat /\ FlightsOK(o, r, F, cur, todo)
      /\ x \in Items /\ x.type = "ack" /\ q \in AckPlaces
      /\ AckStep(o, r, AckedAt(o, F, todo), x, q) /\ NotAhead(q, SendAt(o, F, todo))
  BY DEF AckComes
<1> QED
  BY <1>1, AckFlight

\* A bundle of which all is sent and acknowledged leaves the list.
LEMMA FinishIs ==
    ASSUME IInv, NEW x \in Sides, FinishBundle(x)
    PROVE  /\ queue' = queue /\ transmitted' = transmitted /\ cancelled' = cancelled
           /\ Spared(Peer(x))
           /\ \A b, n : /\ Goes(x, b, n)' <=> Goes(x, b, n)
                        /\ Stops(x, b, n)' => Stops(x, b, n)
                        /\ Tells(x, b, n)' <=> Tells(x, b, n)
<1> DEFINE F == inflight[x]
           f == Last(F)
           done == ~(f.acked < Length[f.bundle])
           G == IF done THEN Tail(F) ELSE F
<1>1. Peer(x) \in Sides /\ Peer(x) # x
  BY PeerIs
<1>2. /\ queue' = queue /\ transmitted' = transmitted /\ cancelled' = cancelled
      /\ current[x] # NoBundle /\ inflight' = Put(inflight, x, G)
  BY DEF FinishBundle, posted
<1>3. FlightsAre(x) /\ F # <<>> /\ inflight \in [Sides -> Seq(Flights)] /\ F \in Seq(Flights)
  BY <1>2, SideFlights, CurrentFlies DEF IInv, TypeOK
<1>4. inflight'[x] = G /\ inflight'[Peer(x)] = inflight[Peer(x)]
  BY <1>1, <1>2, <1>3 DEF Put
<1>5. /\ Len(F) \in Nat /\ Len(F) > 0 /\ Len(F) \in 1..Len(F) /\ f = F[Len(F)]
      /\ Tail(F) \in Seq(Flights) /\ Len(Tail(F)) = Len(F) - 1
  BY <1>3, TailIs
<1>6. done => f.posted /\ Len(F) = 1
  <2>1. /\ f.acked \in Nat /\ f.sent \in Nat /\ Length[f.bundle] \in Nat
        /\ f.acked <= f.sent /\ f.sent <= Length[f.bundle]
        /\ f.posted <=> f.acked = Length[f.bundle]
        /\ f.posted => Len(F) = 1
    BY <1>3, <1>5 DEF FlightsAre
  <2> HIDE DEF f
  <2> QED
    BY <2>1
<1> HIDE DEF G, done, f
<1>7. ASSUME NEW b, NEW n
      PROVE  /\ Goes(x, b, n)' <=> Goes(x, b, n)
             /\ Stops(x, b, n)' => Stops(x, b, n)
  <2>1. CASE done
    <3>1. G = Tail(F) /\ Len(G) = 0 /\ f.posted /\ Len(F) = 1 /\ F[1] = f
      BY <1>5, <1>6, <2>1 DEF G
    <3>2. \A k \in 1..Len(F) : F[k].posted
      BY <3>1
    <3>3. \A k : k \notin 1..Len(G)
      <4>1. 1..0 = {}
        OBVIOUS
      <4> QED
        BY <3>1, <4>1
    <3> QED
      BY <1>4, <3>2, <3>3 DEF Goes, GoesIn, Stops, StopsIn, F
  <2>2. CASE ~done
    BY <1>4, <2>2 DEF Goes, GoesIn, Stops, StopsIn, G, F
  <2> QED
    BY <2>1, <2>2
<1>8. \A b, n : Tells(x, b, n)' <=> Tells(x, b, n)
  BY <1>2 DEF Tells, ToldIn
<1> QED
  BY <1>2, <1>4, <1>7, <1>8 DEF Spared

\* What the acknowledgement that comes next acknowledges.
LEMMA AckIsNew ==
    ASSUME IInv, NEW x \in Sides, HandleAckSegment(x)
    PROVE  LET F == inflight[x]
               len == Message(x).len
           IN  /\ F # <<>> /\ ~Head(F).posted /\ len \in Nat /\ len > Head(F).acked
               /\ len <= arrived[Head(F).bundle] /\ len <= Length[Head(F).bundle]
               /\ ~ProtocolError(x)
<1> DEFINE y == Peer(x)
           m == Message(x)
           F == inflight[x]
           cur == current[x]
           todo == sendTodo[x]
<1>1. TypeOK /\ Transfers(x) /\ Local(x) /\ y \in Sides /\ y # x /\ Peer(y) = x
  BY StepFrom
<1>2. Consume(x, {"ack"}) /\ sendbuf' = sendbuf /\ wire' = wire
  BY DEF HandleAckSegment
<1>3. /\ Running(x) /\ m.type = "ack" /\ recvbuf[x] # <<>>
      /\ recvbuf' = Put(recvbuf, x, Tail(recvbuf[x]))
  BY <1>1, <1>2 DEF Consume, Running, Local, ThreadOK
<1>4. PICK o \in Seq(Bundles), a \in Nat : InStep(x, o, a)
  BY <1>1 DEF Transfers
<1>5. /\ Pipe(x) # <<>> /\ Head(Pipe(x)) = m /\ m \in Items
      /\ Pipe(y)' = Pipe(y) /\ Pipe(x)' = Tail(Pipe(x))
  BY <1>1, <1>2, <1>3, TakePipe DEF Message
<1>6. F \in Seq(Flights) /\ cur \in Bundles \cup {NoBundle} /\ todo \in Nat
      /\ arrived \in [Bundles -> Nat]
  BY <1>1, EndsType
<1>7. FlightsOK(o, arrived, F, cur, todo)
  BY <1>4 DEF InStep, EndsOK
<1>8. PICK q \in AckPlaces : AckStep(o, arrived, AckedPlace(x, o), m, q) /\ NotAhead(q, SenderPlace(x, o))
  <2>1. y = Peer(x)
    OBVIOUS
  <2> QED
    BY <1>1, <1>3, <1>4, <1>5, <2>1, NextItem
<1>9. AckStep(o, arrived, AckedAt(o, F, todo), m, q) /\ NotAhead(q, SendAt(o, F, todo))
  BY <1>8 DEF SenderPlace, AckedPlace
<1> HIDE DEF F, m, cur, todo
<1>10. AckComes(o, arrived, F, cur, todo, m, q)
  BY <1>3, <1>4, <1>5, <1>6, <1>7, <1>8, <1>9 DEF AckComes
<1>11. /\ F # <<>> /\ m.len > Head(F).acked /\ m.len \in Nat /\ ~Head(F).posted
       /\ m.len <= arrived[Head(F).bundle] /\ m.len <= Length[Head(F).bundle]
  BY <1>10, AckFits
<1>12. ~(m.len < Head(F).acked)
  <2>1. Head(F) \in Flights
    BY <1>6, <1>11, TailIs
  <2> DEFINE u == m.len
             v == Head(F).acked
  <2>2. u \in Nat /\ v \in Nat /\ u > v
    BY <1>11, <2>1 DEF Flights
  <2> HIDE DEF u, v
  <2>3. ~(u < v)
    BY <2>2
  <2> QED
    BY <2>3 DEF u, v
<1>13. ~ProtocolError(x)
  BY <1>3, <1>11, <1>12 DEF ProtocolError, F, m
<1> QED
  BY <1>11, <1>13 DEF F, m

\* The first of the flights, and one that takes its place.
LEMMA GoesFirst ==
    ASSUME NEW F \in Seq(Flights), F # <<>>, NEW g \in Flights
    PROVE  LET h == Head(F)
               T == Tail(F)
               G == <<g>> \o T
           IN  \A b, n :
               /\ GoesIn(F, b, n) <=> (~h.posted /\ h.bundle = b /\ h.acked = n) \/ GoesIn(T, b, n)
               /\ GoesIn(G, b, n) <=> (~g.posted /\ g.bundle = b /\ g.acked = n) \/ GoesIn(T, b, n)
               /\ StopsIn(F, b, n) <=> (h.posted /\ h.bundle = b /\ h.acked = n) \/ StopsIn(T, b, n)
               /\ StopsIn(G, b, n) <=> (g.posted /\ g.bundle = b /\ g.acked = n) \/ StopsIn(T, b, n)
<1> DEFINE h == Head(F)
           T == Tail(F)
           G == <<g>> \o T
           c == Len(F)
<1>1. /\ c \in Nat /\ c > 0 /\ h = F[1] /\ 1 \in 1..c /\ Len(T) = c - 1
      /\ \A k \in 1..(c - 1) : k + 1 \in 1..c /\ T[k] = F[k + 1]
  BY TailIs
<1>2. Len(G) = c /\ G[1] = g /\ \A k \in 1..c : k # 1 => G[k] = F[k]
  BY NewHeadIs
<1> HIDE DEF h, T, G, c
<1>3. \A k \in 1..c : k # 1 => k - 1 \in 1..(c - 1) /\ (k - 1) + 1 = k
  BY <1>1
<1>4. \A k \in 1..c : k # 1 => T[k - 1] = F[k] /\ k - 1 \in 1..Len(T)
  BY <1>1, <1>3
<1>5. \A k \in 1..Len(T) : k + 1 \in 1..c /\ k + 1 # 1 /\ T[k] = F[k + 1] /\ G[k + 1] = F[k + 1]
  BY <1>1, <1>2
<1> SUFFICES ASSUME NEW b, NEW n
             PROVE  /\ GoesIn(F, b, n) <=> (~h.posted /\ h.bundle = b /\ h.acked = n) \/ GoesIn(T, b, n)
                    /\ GoesIn(G, b, n) <=> (~g.posted /\ g.bundle = b /\ g.acked = n) \/ GoesIn(T, b, n)
                    /\ StopsIn(F, b, n) <=> (h.posted /\ h.bundle = b /\ h.acked = n) \/ StopsIn(T, b, n)
                    /\ StopsIn(G, b, n) <=> (g.posted /\ g.bundle = b /\ g.acked = n) \/ StopsIn(T, b, n)
  BY DEF h, T, G
<1>6. /\ GoesIn(F, b, n) <=> (~h.posted /\ h.bundle = b /\ h.acked = n) \/ GoesIn(T, b, n)
      /\ StopsIn(F, b, n) <=> (h.posted /\ h.bundle = b /\ h.acked = n) \/ StopsIn(T, b, n)
  <2>1. GoesIn(F, b, n) => (~h.posted /\ h.bundle = b /\ h.acked = n) \/ GoesIn(T, b, n)
    BY <1>1, <1>4 DEF GoesIn, c
  <2>2. GoesIn(T, b, n) => GoesIn(F, b, n)
    BY <1>5 DEF GoesIn, c
  <2>3. StopsIn(F, b, n) => (h.posted /\ h.bundle = b /\ h.acked = n) \/ StopsIn(T, b, n)
    BY <1>1, <1>4 DEF StopsIn, c
  <2>4. StopsIn(T, b, n) => StopsIn(F, b, n)
    BY <1>5 DEF StopsIn, c
  <2>5. /\ ~h.posted /\ h.bundle = b /\ h.acked = n => GoesIn(F, b, n)
        /\ h.posted /\ h.bundle = b /\ h.acked = n => StopsIn(F, b, n)
    BY <1>1 DEF GoesIn, StopsIn, c
  <2> QED
    BY <2>1, <2>2, <2>3, <2>4, <2>5
<1>7. \A k \in 1..c : k # 1 => T[k - 1] = G[k] /\ k - 1 \in 1..Len(T)
  BY <1>2, <1>4
<1>8. /\ GoesIn(G, b, n) <=> (~g.posted /\ g.bundle = b /\ g.acked = n) \/ GoesIn(T, b, n)
      /\ StopsIn(G, b, n) <=> (g.posted /\ g.bundle = b /\ g.acked = n) \/ StopsIn(T, b, n)
  <2>1. GoesIn(G, b, n) => (~g.posted /\ g.bundle = b /\ g.acked = n) \/ GoesIn(T, b, n)
    BY <1>2, <1>7 DEF GoesIn
  <2>2. GoesIn(T, b, n) => GoesIn(G, b, n)
    BY <1>2, <1>5 DEF GoesIn
  <2>3. StopsIn(G, b, n) => (g.posted /\ g.bundle = b /\ g.acked = n) \/ StopsIn(T, b, n)
    BY <1>2, <1>7 DEF StopsIn
  <2>4. StopsIn(T, b, n) => StopsIn(G, b, n)
    BY <1>2, <1>5 DEF StopsIn
  <2>5. /\ ~g.posted /\ g.bundle = b /\ g.acked = n => GoesIn(G, b, n)
        /\ g.posted /\ g.bundle = b /\ g.acked = n => StopsIn(G, b, n)
    BY <1>1, <1>2 DEF GoesIn, StopsIn
  <2> QED
    BY <2>1, <2>2, <2>3, <2>4, <2>5
<1> QED
  BY <1>6, <1>8

\* One report more.
TransmittedEvents == [bundle : Bundles, sent : Nat, acked : Nat]

LEMMA ToldMore ==
    ASSUME NEW R \in Seq(TransmittedEvents), NEW e \in TransmittedEvents
    PROVE  LET S == Append(R, e)
           IN  /\ \A b, n : ToldIn(S, b, n) <=> ToldIn(R, b, n) \/ (e.bundle = b /\ e.acked = n)
               /\ ToldOnce(R) /\ (\A n : ~ToldIn(R, e.bundle, n)) => ToldOnce(S)
<1> DEFINE S == Append(R, e)
           c == Len(R)
<1>1. /\ c \in Nat /\ Len(S) = c + 1 /\ S[c + 1] = e /\ \A k \in 1..c : S[k] = R[k]
  OBVIOUS
<1> HIDE DEF S, c
<1>2. /\ \A k \in 1..(c + 1) : k \in 1..c \/ k = c + 1
      /\ c + 1 \in 1..(c + 1) /\ \A k \in 1..c : k \in 1..(c + 1)
  BY <1>1
<1>3. \A b, n : ToldIn(S, b, n) <=> ToldIn(R, b, n) \/ (e.bundle = b /\ e.acked = n)
  BY <1>1, <1>2 DEF ToldIn, c
<1>4. ToldOnce(R) /\ (\A n : ~ToldIn(R, e.bundle, n)) => ToldOnce(S)
  <2> SUFFICES ASSUME ToldOnce(R), \A n : ~ToldIn(R, e.bundle, n) PROVE ToldOnce(S)
    OBVIOUS
  <2>1. \A k \in 1..c : R[k].bundle # e.bundle
    BY DEF ToldIn, c
  <2>2. \A i, j \in 1..c : R[i].bundle = R[j].bundle => i = j
    BY DEF ToldOnce, c
  <2> SUFFICES ASSUME NEW i \in 1..Len(S), NEW j \in 1..Len(S), S[i].bundle = S[j].bundle
               PROVE  i = j
    BY DEF ToldOnce
  <2>3. i \in 1..(c + 1) /\ j \in 1..(c + 1)
    BY <1>1
  <2>4. CASE i \in 1..c /\ j \in 1..c
    BY <1>1, <2>2, <2>4
  <2>5. CASE i = c + 1 \/ j = c + 1
    BY <1>1, <1>2, <2>1, <2>3, <2>5
  <2> QED
    BY <1>2, <2>3, <2>4, <2>5
<1> QED
  BY <1>3, <1>4 DEF S

\* An acknowledgement is taken in: of a part, or the final one.
LEMMA AckIs ==
    ASSUME IInv, NEW x \in Sides, HandleAckSegment(x)
    PROVE  LET h == Head(inflight[x])
               c == h.bundle
               n == Message(x).len
               final == n = Length[c]
           IN  /\ queue' = queue /\ cancelled' = cancelled /\ Spared(Peer(x))
               /\ Goes(x, c, h.acked) /\ h.acked \in Nat /\ n \in Nat /\ n > h.acked
               /\ n <= arrived[c] /\ n <= Length[c]
               /\ \A b, k : /\ Goes(x, b, k)' <=> \/ b # c /\ Goes(x, b, k)
                                                  \/ ~final /\ b = c /\ k = n
                            /\ Stops(x, b, k)' => Stops(x, b, k) \/ (final /\ b = c /\ k = n)
                            /\ Tells(x, b, k)' <=> Tells(x, b, k) \/ (final /\ b = c /\ k = n)
               /\ ToldOnce(transmitted[x]) /\ (\A k : ~Tells(x, c, k)) => ToldOnce(transmitted'[x])
<1> DEFINE F == inflight[x]
           h == Head(F)
           c == h.bundle
           n == Message(x).len
           f == [h EXCEPT !.acked = n]
           final == n = Length[c]
           g == [f EXCEPT !.posted = @ \/ (n = Length[f.bundle])]
           G == IF n = Length[f.bundle] /\ current[x] # f.bundle THEN Tail(F) ELSE <<g>> \o Tail(F)
           R == transmitted[x]
<1>1. Peer(x) \in Sides /\ Peer(x) # x
  BY PeerIs
<1>2. /\ F # <<>> /\ ~h.posted /\ n \in Nat /\ n > h.acked /\ n <= arrived[c] /\ n <= Length[c]
      /\ ~ProtocolError(x)
  BY AckIsNew
<1>3. /\ queue' = queue /\ cancelled' = cancelled
      /\ inflight' = Put(inflight, x, G)
      /\ transmitted' = IF n = Length[f.bundle] THEN Put(transmitted, x, Append(R, Report(f)))
                        ELSE transmitted
  BY <1>2 DEF HandleAckSegment, Consume
<1>4. /\ F \in Seq(Flights) /\ inflight \in [Sides -> Seq(Flights)] /\ FlightsAre(x)
      /\ R \in Seq(TransmittedEvents) /\ transmitted \in [Sides -> Seq(TransmittedEvents)]
  BY SideFlights DEF IInv, TypeOK, TransmittedEvents
<1>5. h \in Flights /\ h = F[1] /\ 1 \in 1..Len(F) /\ Len(F) \in Nat
  BY <1>2, <1>4, TailIs
<1>6. h.acked \in Nat /\ h.sent \in Nat /\ h.posted = FALSE /\ c \in Bundles
  <2> HIDE DEF h
  <2> QED
    BY <1>2, <1>5 DEF Flights
<1>7. /\ f \in Flights /\ f.bundle = c /\ f.acked = n /\ f.posted = FALSE
      /\ f.sent = h.sent
  <2> HIDE DEF h, n
  <2> QED
    BY <1>2, <1>5, <1>6 DEF Flights
<1> HIDE DEF f
<1>8. g \in Flights /\ g.bundle = c /\ g.acked = n /\ g.posted = final
  <2>1. (f.posted \/ (n = Length[f.bundle])) = final /\ final \in BOOLEAN
    BY <1>7
  <2>2. g = [f EXCEPT !.posted = final]
    BY <2>1
  <2> HIDE DEF g, h, n, c, final
  <2> QED
    BY <1>7, <2>1, <2>2 DEF Flights
<1>9. /\ Report(f) \in TransmittedEvents /\ Report(f).bundle = c /\ Report(f).acked = n
  BY <1>2, <1>6, <1>7 DEF Report, TransmittedEvents
<1>10. /\ inflight'[x] = G /\ inflight'[Peer(x)] = inflight[Peer(x)]
       /\ transmitted'[Peer(x)] = transmitted[Peer(x)]
       /\ transmitted'[x] = IF final THEN Append(R, Report(f)) ELSE R
  <2> HIDE DEF G, g
  <2> QED
    BY <1>1, <1>3, <1>4, <1>7 DEF Put
<1>11. (G = Tail(F) /\ final) \/ G = <<g>> \o Tail(F)
  BY <1>7
<1> HIDE DEF G
<1>12. Goes(x, c, h.acked)
  <2> HIDE DEF F, h, n
  <2>1. F[1] = h /\ ~h.posted
    BY <1>2, <1>5
  <2> QED
    BY <1>5, <2>1 DEF Goes, GoesIn, F
<1> HIDE DEF F, g, n, R, final
<1>13. \A b, k :
          /\ GoesIn(F, b, k) <=> (b = c /\ k = h.acked) \/ GoesIn(Tail(F), b, k)
          /\ GoesIn(<<g>> \o Tail(F), b, k) <=> (~final /\ b = c /\ k = n) \/ GoesIn(Tail(F), b, k)
          /\ StopsIn(F, b, k) <=> StopsIn(Tail(F), b, k)
          /\ StopsIn(<<g>> \o Tail(F), b, k) <=> (final /\ b = c /\ k = n) \/ StopsIn(Tail(F), b, k)
  BY <1>2, <1>4, <1>8, GoesFirst
<1>14. \A b, k : GoesIn(Tail(F), b, k) <=> b # c /\ GoesIn(F, b, k)
  <2>1. \A k : ~GoesIn(Tail(F), c, k)
    <3> SUFFICES ASSUME NEW k, GoesIn(Tail(F), c, k) PROVE FALSE
      OBVIOUS
    <3>1. PICK i \in 1..Len(Tail(F)) : Tail(F)[i].bundle = c
      BY DEF GoesIn
    <3>2. i + 1 \in 1..Len(F) /\ Tail(F)[i] = F[i + 1] /\ i + 1 # 1
      BY <1>2, <1>4, <3>1, TailIs
    <3>3. F[i + 1].bundle = F[1].bundle
      BY <1>5, <3>1, <3>2
    <3>4. \A j, k2 \in 1..Len(F) : F[j].bundle = F[k2].bundle => j = k2
      BY <1>4 DEF FlightsAre, F
    <3> QED
      BY <1>5, <3>2, <3>3, <3>4
  <2> QED
    BY <1>13, <2>1
<1>15. ASSUME NEW b, NEW k
       PROVE  /\ Goes(x, b, k)' <=> \/ b # c /\ Goes(x, b, k)
                                    \/ ~final /\ b = c /\ k = n
              /\ Stops(x, b, k)' => Stops(x, b, k) \/ (final /\ b = c /\ k = n)
  <2>1. /\ Goes(x, b, k)' <=> GoesIn(G, b, k)
        /\ Stops(x, b, k)' <=> StopsIn(G, b, k)
        /\ Goes(x, b, k) <=> GoesIn(F, b, k)
        /\ Stops(x, b, k) <=> StopsIn(F, b, k)
    BY <1>10 DEF Goes, Stops, F
  <2>2. CASE G = Tail(F) /\ final
    BY <1>13, <1>14, <2>1, <2>2
  <2>3. CASE G = <<g>> \o Tail(F)
    BY <1>13, <1>14, <2>1, <2>3
  <2> QED
    BY <1>11, <2>2, <2>3
<1>16. /\ \A b, k : Tells(x, b, k)' <=> Tells(x, b, k) \/ (final /\ b = c /\ k = n)
       /\ ToldOnce(transmitted[x]) /\ (\A k : ~Tells(x, c, k)) => ToldOnce(transmitted'[x])
  <2> DEFINE e == Report(f)
  <2> HIDE DEF e, c, h
  <2>1. e \in TransmittedEvents /\ e.bundle = c /\ e.acked = n
    BY <1>9 DEF e
  <2>2. /\ \A b, k : ToldIn(Append(R, e), b, k) <=> ToldIn(R, b, k) \/ (e.bundle = b /\ e.acked = k)
        /\ ToldOnce(R) /\ (\A k : ~ToldIn(R, e.bundle, k)) => ToldOnce(Append(R, e))
    BY <1>4, <2>1, ToldMore
  <2>3. CASE final
    <3>1. transmitted'[x] = Append(R, e)
      BY <1>10, <2>3 DEF e
    <3> QED
      BY <2>1, <2>2, <2>3, <3>1 DEF Tells, R
  <2>4. CASE ~final
    <3>1. transmitted'[x] = R
      BY <1>10, <2>4
    <3> QED
      BY <2>4, <3>1 DEF Tells, R
  <2> QED
    BY <2>3, <2>4
<1>17. Spared(Peer(x))
  BY <1>3, <1>10 DEF Spared
<1>18. Message(x).len = n /\ (final <=> n = Length[c]) /\ inflight[x] = F
  BY DEF n, final, F
<1> QED
  BY <1>2, <1>3, <1>6, <1>12, <1>15, <1>16, <1>17, <1>18

\* A bundle of which nothing was sent is cancelled.
LEMMA CancelIs ==
    ASSUME IInv, NEW x \in Sides, NEW c \in Cancels, CancelBundle(x, c)
    PROVE  /\ queue' = queue /\ transmitted' = transmitted /\ cancelled' = cancelled \cup {c}
           /\ Spared(Peer(x)) /\ Goes(x, c, 0)
           /\ \A b, n : /\ Goes(x, b, n)' <=> b # c /\ Goes(x, b, n)
                        /\ Stops(x, b, n)' => Stops(x, b, n)
                        /\ Tells(x, b, n)' <=> Tells(x, b, n)
<1> DEFINE F == inflight[x]
<1>1. Peer(x) \in Sides /\ Peer(x) # x
  BY PeerIs
<1>2. queue' = queue /\ transmitted' = transmitted /\ cancelled' = cancelled \cup {c}
  BY DEF CancelBundle
<1>3. PICK k \in DOMAIN F : /\ F[k].bundle = c /\ F[k].sent = 0 /\ sendTodo[x] = 0
                            /\ inflight' = Put(inflight, x, RemoveAt(F, k))
  BY DEF CancelBundle, Cancellable
<1> DEFINE G == RemoveAt(F, k)
<1>4. PICK o \in Seq(Bundles), a \in Nat : InStep(x, o, a)
  BY DEF IInv, Transfers
<1>5. /\ F \in Seq(Flights) /\ inflight \in [Sides -> Seq(Flights)] /\ k \in 1..Len(F)
      /\ current[x] \in Bundles \cup {NoBundle} /\ arrived \in [Bundles -> Nat] /\ FlightsAre(x)
  <2>1. /\ F \in Seq(Flights) /\ inflight \in [Sides -> Seq(Flights)]
        /\ current[x] \in Bundles \cup {NoBundle} /\ arrived \in [Bundles -> Nat]
    BY DEF IInv, TypeOK
  <2>2. FlightsAre(x)
    BY SideFlights
  <2> HIDE DEF F
  <2> QED
    BY <1>3, <2>1, <2>2
<1>6. FlightsOK(o, arrived, F, current[x], 0)
  BY <1>3, <1>4 DEF InStep, EndsOK
<1>7. /\ k = Len(F) /\ G \in Seq(Flights) /\ Len(G) = k - 1 /\ ~F[k].posted
      /\ \A j \in 1..(k - 1) : G[j] = F[j]
  <2> HIDE DEF F
  <2> QED
    BY <1>3, <1>4, <1>5, <1>6, CancelFlight
<1>8. inflight'[x] = G /\ inflight'[Peer(x)] = inflight[Peer(x)]
  <2> HIDE DEF G
  <2> QED
    BY <1>1, <1>3, <1>5 DEF Put, G
<1>9. F[k].acked = 0 /\ \A j \in 1..Len(F) : F[j].bundle = F[k].bundle => j = k
  <2>1. F[k].acked \in Nat /\ F[k].acked <= F[k].sent
        /\ \A j \in 1..Len(F) : F[j].bundle = F[k].bundle => j = k
    BY <1>5 DEF FlightsAre
  <2> QED
    BY <1>3, <2>1
<1> HIDE DEF G, F
<1>10. k \in Nat /\ \A j \in 1..k : j \in 1..(k - 1) \/ j = k
  BY <1>5, <1>7
<1>11. \A j \in 1..(k - 1) : j \in 1..k /\ j # k
  BY <1>10
<1>12. ASSUME NEW b, NEW n
       PROVE  /\ Goes(x, b, n)' <=> b # c /\ Goes(x, b, n)
              /\ Stops(x, b, n)' => Stops(x, b, n)
  <2>1. Goes(x, b, n)' => b # c /\ Goes(x, b, n)
    <3> SUFFICES ASSUME Goes(x, b, n)' PROVE b # c /\ Goes(x, b, n)
      OBVIOUS
    <3>1. PICK j \in 1..(k - 1) : ~G[j].posted /\ G[j].bundle = b /\ G[j].acked = n
      BY <1>7, <1>8 DEF Goes, GoesIn
    <3>2. G[j] = F[j] /\ j \in 1..Len(F) /\ j # k
      BY <1>7, <1>11
    <3> QED
      BY <1>3, <1>9, <3>1, <3>2 DEF Goes, GoesIn, F
  <2>2. b # c /\ Goes(x, b, n) => Goes(x, b, n)'
    BY <1>3, <1>7, <1>8, <1>10 DEF Goes, GoesIn, F
  <2>3. Stops(x, b, n)' => Stops(x, b, n)
    BY <1>7, <1>8, <1>11 DEF Stops, StopsIn, F
  <2> QED
    BY <2>1, <2>2, <2>3
<1>13. Goes(x, c, 0)
  BY <1>3, <1>5, <1>7, <1>9 DEF Goes, GoesIn, F
<1>14. \A b, n : Tells(x, b, n)' <=> Tells(x, b, n)
  BY <1>2 DEF Tells, ToldIn
<1> QED
  BY <1>2, <1>8, <1>12, <1>13, <1>14 DEF Spared

\* Several reports more.
LEMMA ToldJoined ==
    ASSUME NEW R \in Seq(TransmittedEvents), NEW S \in Seq(TransmittedEvents)
    PROVE  LET T == R \o S
           IN  /\ \A b, n : ToldIn(T, b, n) <=> ToldIn(R, b, n) \/ ToldIn(S, b, n)
               /\ /\ ToldOnce(R) /\ ToldOnce(S)
                  /\ \A b, m, n : ToldIn(R, b, m) => ~ToldIn(S, b, n)
                  => ToldOnce(T)
<1> DEFINE T == R \o S
           m == Len(R)
           n == Len(S)
<1>1. /\ Len(T) = m + n /\ m \in Nat /\ n \in Nat
      /\ \A i \in 1..m : T[i] = R[i]
      /\ \A i \in (m + 1)..(m + n) : T[i] = S[i - m] /\ i - m \in 1..n
  BY ConcatIs
<1> HIDE DEF T, m, n
<1>2. \A i \in 1..(m + n) : i \in 1..m \/ i \in (m + 1)..(m + n)
  BY <1>1
<1>3. /\ \A i \in 1..m : i \in 1..(m + n)
      /\ \A i \in 1..n : i + m \in (m + 1)..(m + n) /\ (i + m) - m = i /\ i + m \in 1..(m + n)
  BY <1>1
<1>4. ASSUME NEW b, NEW k
      PROVE  ToldIn(T, b, k) <=> ToldIn(R, b, k) \/ ToldIn(S, b, k)
  <2>1. ToldIn(T, b, k) => ToldIn(R, b, k) \/ ToldIn(S, b, k)
    BY <1>1, <1>2 DEF ToldIn, m, n
  <2>2. ToldIn(R, b, k) => ToldIn(T, b, k)
    BY <1>1, <1>3 DEF ToldIn, m
  <2>3. ToldIn(S, b, k) => ToldIn(T, b, k)
    <3> SUFFICES ASSUME ToldIn(S, b, k) PROVE ToldIn(T, b, k)
      OBVIOUS
    <3>1. PICK i \in 1..n : S[i].bundle = b /\ S[i].acked = k
      BY DEF ToldIn, n
    <3>2. T[i + m] = S[i] /\ i + m \in 1..Len(T)
      <4>1. T[i + m] = S[(i + m) - m]
        BY <1>1, <1>3
      <4> QED
        BY <1>1, <1>3, <4>1
    <3> QED
      BY <3>1, <3>2 DEF ToldIn
  <2> QED
    BY <2>1, <2>2, <2>3
<1>5. ASSUME ToldOnce(R), ToldOnce(S), \A b, j, k : ToldIn(R, b, j) => ~ToldIn(S, b, k)
      PROVE  ToldOnce(T)
  <2> SUFFICES ASSUME NEW i \in 1..Len(T), NEW j \in 1..Len(T), T[i].bundle = T[j].bundle
               PROVE  i = j
    BY DEF ToldOnce
  <2>1. i \in 1..(m + n) /\ j \in 1..(m + n)
    BY <1>1
  <2>2. \A k \in 1..m, l \in 1..n : R[k].bundle # S[l].bundle
    BY <1>5 DEF ToldIn, m, n
  <2>3. CASE i \in 1..m /\ j \in 1..m
    BY <1>1, <1>5, <2>3 DEF ToldOnce, m
  <2>4. CASE i \in 1..m /\ j \in (m + 1)..(m + n)
    BY <1>1, <2>2, <2>4
  <2>5. CASE i \in (m + 1)..(m + n) /\ j \in 1..m
    BY <1>1, <2>2, <2>5
  <2>6. CASE i \in (m + 1)..(m + n) /\ j \in (m + 1)..(m + n)
    <3>1. S[i - m].bundle = S[j - m].bundle /\ i - m \in 1..n /\ j - m \in 1..n
      BY <1>1, <2>6
    <3>2. i - m = j - m
      BY <1>5, <3>1 DEF ToldOnce, n
    <3> QED
      BY <1>1, <2>1, <3>2
  <2> QED
    BY <1>2, <2>1, <2>3, <2>4, <2>5, <2>6
<1> QED
  BY <1>4, <1>5 DEF T

\* What is reported and what is given back of the flights of a contact.
LEMMA SelectedAre ==
    ASSUME NEW F \in Seq(Flights), NEW S,
           \A j, k \in 1..Len(F) : F[j].bundle = F[k].bundle => j = k
    PROVE  LET t == SelectIn(F, S)
               R == ReportsOf(t)
           IN  /\ ToldOnce(R)
               /\ \A b, n : ToldIn(R, b, n) <=>
                     \E k \in 1..Len(F) : F[k] \in S /\ F[k].bundle = b /\ F[k].acked = n
               /\ \A b : b \in ToSet(BundlesOf(t)) <=>
                     \E k \in 1..Len(F) : F[k] \in S /\ F[k].bundle = b
<1> DEFINE t == SelectIn(F, S)
           R == ReportsOf(t)
           n == Len(t)
<1>1. t \in Seq(Flights) /\ ToSet(t) = ToSet(F) \cap S
  BY ElementsOfSelectIn
<1>2. \A i, j \in 1..n :
         i # j => \E k, l \in 1..Len(F) : k # l /\ t[i] = F[k] /\ t[j] = F[l]
  BY IndicesOfSelectIn
<1>3. /\ \A i \in 1..n : \E k \in 1..Len(F) : F[k] \in S /\ t[i] = F[k]
      /\ \A k \in 1..Len(F) : F[k] \in S => \E i \in 1..n : t[i] = F[k]
  <2> HIDE DEF t
  <2>1. /\ \A i \in 1..Len(t) : t[i] \in ToSet(t)
        /\ \A e \in ToSet(t) : \E i \in 1..Len(t) : t[i] = e
    BY <1>1, ElementsOf
  <2>2. /\ \A k \in 1..Len(F) : F[k] \in ToSet(F)
        /\ \A e \in ToSet(F) : \E k \in 1..Len(F) : F[k] = e
    BY ElementsOf
  <2> QED
    BY <1>1, <2>1, <2>2
<1>4. n \in Nat /\ DOMAIN t = 1..n
  BY <1>1
<1> HIDE DEF t, n
<1>5. /\ Len(R) = n
      /\ \A i \in 1..n : R[i].bundle = t[i].bundle /\ R[i].acked = t[i].acked
  <2>1. R = [i \in 1..n |-> Report(t[i])]
    BY <1>4 DEF ReportsOf
  <2> HIDE DEF R
  <2> QED
    BY <1>4, <2>1 DEF Report
<1> HIDE DEF R
<1>6. ToldOnce(R)
  <2> SUFFICES ASSUME NEW i \in 1..n, NEW j \in 1..n, R[i].bundle = R[j].bundle, i # j
               PROVE  FALSE
    BY <1>5 DEF ToldOnce
  <2>1. PICK k \in 1..Len(F), l \in 1..Len(F) : k # l /\ t[i] = F[k] /\ t[j] = F[l]
    BY <1>2
  <2> QED
    BY <1>5, <2>1
<1>7. \A b, m : ToldIn(R, b, m) <=>
         \E k \in 1..Len(F) : F[k] \in S /\ F[k].bundle = b /\ F[k].acked = m
  <2> SUFFICES ASSUME NEW b, NEW m
               PROVE  ToldIn(R, b, m) <=>
                        \E k \in 1..Len(F) : F[k] \in S /\ F[k].bundle = b /\ F[k].acked = m
    OBVIOUS
  <2>1. ASSUME ToldIn(R, b, m)
        PROVE  \E k \in 1..Len(F) : F[k] \in S /\ F[k].bundle = b /\ F[k].acked = m
    <3>1. PICK i \in 1..n : t[i].bundle = b /\ t[i].acked = m
      BY <1>5, <2>1 DEF ToldIn
    <3> QED
      BY <1>3, <3>1
  <2>2. ASSUME NEW k \in 1..Len(F), F[k] \in S, F[k].bundle = b, F[k].acked = m
        PROVE  ToldIn(R, b, m)
    <3>1. PICK i \in 1..n : t[i] = F[k]
      BY <1>3, <2>2
    <3> QED
      BY <1>5, <2>2, <3>1 DEF ToldIn
  <2> QED
    BY <2>1, <2>2
<1>8. \A b : b \in ToSet(BundlesOf(t)) <=> \E k \in 1..Len(F) : F[k] \in S /\ F[k].bundle = b
  <2>1. \A b : b \in ToSet(BundlesOf(t)) <=> \E i \in 1..n : t[i].bundle = b
    <3> DEFINE B == [i \in 1..n |-> t[i].bundle]
    <3>1. BundlesOf(t) = B /\ DOMAIN B = 1..n /\ Len(B) = n
      BY <1>4 DEF BundlesOf
    <3>2. ToSet(B) = {B[i] : i \in 1..n}
      BY <3>1 DEF ToSet
    <3>3. \A i \in 1..n : B[i] = t[i].bundle
      OBVIOUS
    <3> HIDE DEF B
    <3>4. \A b : b \in ToSet(B) <=> \E i \in 1..n : B[i] = b
      BY <3>2
    <3> QED
      BY <3>1, <3>3, <3>4
  <2> SUFFICES ASSUME NEW b
               PROVE  (\E i \in 1..n : t[i].bundle = b) <=>
                        \E k \in 1..Len(F) : F[k] \in S /\ F[k].bundle = b
    BY <2>1
  <2>2. ASSUME NEW i \in 1..n, t[i].bundle = b
        PROVE  \E k \in 1..Len(F) : F[k] \in S /\ F[k].bundle = b
    BY <1>3, <2>2
  <2>3. ASSUME NEW k \in 1..Len(F), F[k] \in S, F[k].bundle = b
        PROVE  \E i \in 1..n : t[i].bundle = b
    <3>1. PICK i \in 1..n : t[i] = F[k]
      BY <1>3, <2>3
    <3> QED
      BY <2>3, <3>1
  <2> QED
    BY <2>2, <2>3
<1> QED
  BY <1>6, <1>7, <1>8 DEF R, t

\* The contact is closed: what was acknowledged in part is reported, and the
\* rest of what was in flight goes back to the link queue.
LEMMA ClosedAre ==
    ASSUME Reactive, IInv, NEW x \in Sides
    PROVE  LET F == inflight[x]
               back == SelectIn(F, {f \in Range(F) : GivenBack(f)})
               partly == SelectIn(F, {f \in Range(F) : Reported(f)})
           IN  /\ \A b : b \in ToSet(BundlesOf(back)) <=> Goes(x, b, 0)
               /\ \A b, n : ToldIn(ReportsOf(partly), b, n) <=> Goes(x, b, n) /\ n > 0
               /\ ToldOnce(ReportsOf(partly))
               /\ BundlesOf(back) \in Seq(Bundles)
               /\ ReportsOf(partly) \in Seq(TransmittedEvents)
<1> DEFINE F == inflight[x]
           B == {f \in Range(F) : GivenBack(f)}
           P == {f \in Range(F) : Reported(f)}
           back == SelectIn(F, B)
           partly == SelectIn(F, P)
<1>1. FlightsAre(x) /\ F \in Seq(Flights) /\ queue[x] \in Seq(Bundles) /\ QueueOK(x)
  BY SideFlights DEF IInv, TypeOK
<1>2. \A j, k \in 1..Len(F) : F[j].bundle = F[k].bundle => j = k
  BY <1>1 DEF FlightsAre
<1>3. ASSUME NEW k \in 1..Len(F)
      PROVE  /\ F[k] \in B <=> ~F[k].posted /\ F[k].acked = 0
             /\ F[k] \in P <=> ~F[k].posted /\ F[k].acked > 0
  <2> DEFINE f == F[k]
             l == Length[f.bundle]
  <2>1. /\ f \in Flights /\ l \in Nat /\ l > 0 /\ f.acked \in Nat /\ f.sent \in Nat
        /\ f.acked <= f.sent /\ (f.posted <=> f.acked = l)
    BY <1>1 DEF FlightsAre
  <2>2. f \in Range(F) /\ f.posted \in BOOLEAN
    <3>1. DOMAIN F = 1..Len(F)
      BY <1>1
    <3> QED
      BY <2>1, <3>1 DEF Range, Flights
  <2> HIDE DEF f, l
  <2>3. f.acked = 0 <=> GivenBack(f)
    BY <2>1 DEF GivenBack
  <2>4. f.acked = 0 => ~f.posted
    BY <2>1
  <2>5. f.acked > 0 <=> ~(f.acked = 0)
    BY <2>1
  <2>6. (f \in B <=> GivenBack(f)) /\ (f \in P <=> Reported(f))
    BY <2>2
  <2> HIDE DEF B, P
  <2>7. (f \in B <=> ~f.posted /\ f.acked = 0) /\ (f \in P <=> ~f.posted /\ f.acked > 0)
    BY <2>3, <2>4, <2>5, <2>6 DEF Reported
  <2> QED
    BY <2>7 DEF f
<1>4. /\ BundlesOf(back) \in Seq(Bundles)
      /\ ReportsOf(partly) \in Seq(TransmittedEvents)
  <2>1. Apart(queue[x], F)
    BY <1>1 DEF QueueOK, Apart
  <2> HIDE DEF F, B, P
  <2>2. back \in Seq(Flights) /\ partly \in Seq(Flights)
    BY <1>1, ElementsOfSelectIn
  <2>3. ReportsOf(partly) \in Seq(TransmittedEvents)
    BY <1>1, <1>2, <2>1, GivenBackApart DEF TransmittedEvents
  <2>4. BundlesOf(back) \in Seq(Bundles)
    <3> HIDE DEF back
    <3>1. BundlesOf(back) = [i \in 1..Len(back) |-> back[i].bundle]
      BY <2>2 DEF BundlesOf
    <3>2. \A i \in 1..Len(back) : back[i] \in Flights
      BY <2>2
    <3>3. \A i \in 1..Len(back) : back[i].bundle \in Bundles
      BY <3>2 DEF Flights
    <3>4. Len(back) \in Nat
      BY <2>2
    <3> QED
      BY <3>1, <3>3, <3>4
  <2> QED
    BY <2>3, <2>4
<1> HIDE DEF F, B, P
<1>5. /\ \A b : b \in ToSet(BundlesOf(back)) <=> \E k \in 1..Len(F) : F[k] \in B /\ F[k].bundle = b
      /\ ToldOnce(ReportsOf(partly))
      /\ \A b, n : ToldIn(ReportsOf(partly), b, n) <=>
            \E k \in 1..Len(F) : F[k] \in P /\ F[k].bundle = b /\ F[k].acked = n
  BY <1>1, <1>2, SelectedAre
<1> HIDE DEF back, partly
<1>6. \A b : b \in ToSet(BundlesOf(back)) <=> Goes(x, b, 0)
  BY <1>3, <1>5 DEF Goes, GoesIn, F
<1>7. \A b, n : ToldIn(ReportsOf(partly), b, n) <=> Goes(x, b, n) /\ n > 0
  <2> SUFFICES ASSUME NEW b, NEW n
               PROVE  ToldIn(ReportsOf(partly), b, n) <=> Goes(x, b, n) /\ n > 0
    OBVIOUS
  <2>1. ASSUME ToldIn(ReportsOf(partly), b, n) PROVE Goes(x, b, n) /\ n > 0
    <3>1. PICK k \in 1..Len(F) : F[k] \in P /\ F[k].bundle = b /\ F[k].acked = n
      BY <1>5, <2>1
    <3> QED
      BY <1>3, <3>1 DEF Goes, GoesIn, F
  <2>2. ASSUME Goes(x, b, n), n > 0 PROVE ToldIn(ReportsOf(partly), b, n)
    <3>1. PICK k \in 1..Len(F) : ~F[k].posted /\ F[k].bundle = b /\ F[k].acked = n
      BY <2>2 DEF Goes, GoesIn, F
    <3> QED
      BY <1>3, <1>5, <2>2, <3>1
  <2> QED
    BY <2>1, <2>2
<1> QED
  BY <1>4, <1>5, <1>6, <1>7 DEF back, partly, B, P, F

LEMMA CloseIs ==
    ASSUME Reactive, IInv, NEW x \in Sides, CloseContact(x)
    PROVE  /\ cancelled' = cancelled /\ Spared(Peer(x))
           /\ Waiting(x)' = Waiting(x) \cup {b \in Bundles : Goes(x, b, 0)}
           /\ \A b, n : /\ ~Goes(x, b, n)' /\ ~Stops(x, b, n)'
                        /\ Tells(x, b, n)' <=> Tells(x, b, n) \/ (Goes(x, b, n) /\ n > 0)
           /\ /\ ToldOnce(transmitted[x])
              /\ \A b, m, n : Tells(x, b, m) => ~Goes(x, b, n)
              => ToldOnce(transmitted'[x])
<1> DEFINE y == Peer(x)
           F == inflight[x]
           back == SelectIn(F, {f \in Range(F) : GivenBack(f)})
           partly == SelectIn(F, {f \in Range(F) : Reported(f)})
           q == BundlesOf(back)
           S == ReportsOf(partly)
           R == transmitted[x]
<1>1. y \in Sides /\ y # x
  BY PeerIs
<1>2. /\ queue' = Put(queue, x, queue[x] \o q) /\ transmitted' = Put(transmitted, x, R \o S)
      /\ inflight' = Put(inflight, x, <<>>) /\ cancelled' = cancelled
  BY DEF CloseContact, BundlesOf, ReportsOf
<1>3. /\ \A b : b \in ToSet(q) <=> Goes(x, b, 0)
      /\ \A b, n : ToldIn(S, b, n) <=> Goes(x, b, n) /\ n > 0
      /\ ToldOnce(S) /\ q \in Seq(Bundles) /\ S \in Seq(TransmittedEvents)
  BY ClosedAre
<1>4. /\ queue \in [Sides -> Seq(Bundles)] /\ inflight \in [Sides -> Seq(Flights)]
      /\ transmitted \in [Sides -> Seq(TransmittedEvents)] /\ R \in Seq(TransmittedEvents)
  BY DEF IInv, TypeOK, TransmittedEvents
<1> HIDE DEF y, q, S
<1>5. /\ queue'[x] = queue[x] \o q /\ queue'[y] = queue[y]
      /\ transmitted'[x] = R \o S /\ transmitted'[y] = transmitted[y]
      /\ inflight'[x] = <<>> /\ inflight'[y] = inflight[y]
  <2>1. queue'[x] = queue[x] \o q /\ queue'[y] = queue[y]
    BY <1>1, <1>2, <1>4 DEF Put
  <2>2. transmitted'[x] = R \o S /\ transmitted'[y] = transmitted[y]
    BY <1>1, <1>2, <1>4 DEF Put
  <2>3. inflight'[x] = <<>> /\ inflight'[y] = inflight[y]
    BY <1>1, <1>2, <1>4 DEF Put
  <2> QED
    BY <2>1, <2>2, <2>3
<1>6. Waiting(x)' = Waiting(x) \cup {b \in Bundles : Goes(x, b, 0)}
  <2>1. ToSet(queue[x] \o q) = ToSet(queue[x]) \cup ToSet(q)
    BY <1>3, <1>4, ElementsOfConcat
  <2>2. \A b : Goes(x, b, 0) => b \in Bundles
    BY SideGoes
  <2> QED
    BY <1>3, <1>5, <2>1, <2>2 DEF Waiting
<1>7. \A b, n : ~Goes(x, b, n)' /\ ~Stops(x, b, n)'
  <2>1. Len(inflight'[x]) = 0
    BY <1>5
  <2>2. 1..0 = {}
    OBVIOUS
  <2> QED
    BY <2>1, <2>2 DEF Goes, GoesIn, Stops, StopsIn
<1> HIDE DEF R
<1>8. /\ \A b, n : ToldIn(R \o S, b, n) <=> ToldIn(R, b, n) \/ ToldIn(S, b, n)
      /\ /\ ToldOnce(R) /\ ToldOnce(S)
         /\ \A b, m, n : ToldIn(R, b, m) => ~ToldIn(S, b, n)
         => ToldOnce(R \o S)
  BY <1>3, <1>4, ToldJoined
<1>9. \A b, n : Tells(x, b, n)' <=> Tells(x, b, n) \/ (Goes(x, b, n) /\ n > 0)
  BY <1>3, <1>5, <1>8 DEF Tells, R
<1>10. ASSUME ToldOnce(R), \A b, m, n : Tells(x, b, m) => ~Goes(x, b, n)
       PROVE  ToldOnce(transmitted'[x])
  BY <1>3, <1>5, <1>8, <1>10 DEF Tells, R
<1> QED
  BY <1>2, <1>5, <1>6, <1>7, <1>9, <1>10 DEF Spared, y, R

-----------------------------------------------------------------------------
(* Each step keeps every bundle in one place.                              *)

LEMMA StartHeld ==
    ASSUME Held, IInv, NEW x \in Sides, StartNextBundle(x)
    PROVE  Held'
<1> DEFINE c == Head(queue[x])
<1>1. /\ Spared(Peer(x)) /\ transmitted' = transmitted /\ cancelled' = cancelled
      /\ c \in Waiting(x) /\ Waiting(x)' = Waiting(x) \ {c}
      /\ \A b, n : Goes(x, b, n)' <=> Goes(x, b, n) \/ (b = c /\ n = 0)
      /\ \A b, n : (Stops(x, b, n)' <=> Stops(x, b, n)) /\ (Tells(x, b, n)' <=> Tells(x, b, n))
  BY StartIs
<1>2. c \in Bundles
  BY DEF IInv, TypeOK, StartNextBundle
<1> HIDE DEF c
<1>3. HeldOK(x)
  BY DEF Held
<1>4. Moving(x)' = Moving(x) \cup {c} /\ Told(x)' = Told(x)
  <2>1. \A b \in Bundles : (\E n \in Nat : Goes(x, b, n)') <=> (\E n \in Nat : Goes(x, b, n)) \/ b = c
    BY <1>1
  <2> QED
    BY <1>1, <1>2, <2>1 DEF Moving, Told
<1>5. Apportioned(Range(Queued[x]), Waiting(x)', Moving(x)', Told(x)', cancelled')
  <2> DEFINE Q == Range(Queued[x])
             W == Waiting(x)
             M == Moving(x)
             T == Told(x)
  <2>1. Apportioned(Q, W, M, T, cancelled)
    BY <1>3 DEF HeldOK
  <2> HIDE DEF Q, W, M, T
  <2>2. Apportioned(Q, W \ {c}, M \cup {c}, T, cancelled)
    <3>1. c \in W
      BY <1>1 DEF W
    <3> QED
      BY <2>1, <3>1 DEF Apportioned
  <2> QED
    BY <1>1, <1>4, <2>2 DEF Q, W, M, T
<1>6. HeldOK(x)'
  BY <1>1, <1>3, <1>5 DEF HeldOK, ToldOnce
<1> QED
  BY <1>1, <1>6, HeldStep

LEMMA FinishHeld ==
    ASSUME Held, IInv, NEW x \in Sides, FinishBundle(x)
    PROVE  Held'
<1>1. /\ queue' = queue /\ transmitted' = transmitted /\ cancelled' = cancelled
      /\ Spared(Peer(x))
      /\ \A b, n : /\ Goes(x, b, n)' <=> Goes(x, b, n)
                   /\ Stops(x, b, n)' => Stops(x, b, n)
                   /\ Tells(x, b, n)' <=> Tells(x, b, n)
  BY FinishIs
<1>2. HeldOK(x)
  BY DEF Held
<1>3. Waiting(x)' = Waiting(x) /\ Moving(x)' = Moving(x) /\ Told(x)' = Told(x)
  BY <1>1 DEF Waiting, Moving, Told
<1>4. HeldOK(x)'
  BY <1>1, <1>2, <1>3 DEF HeldOK, ToldOnce
<1> QED
  BY <1>1, <1>4, HeldStep

LEMMA CancelHeld ==
    ASSUME Held, IInv, NEW x \in Sides, NEW c \in Cancels, CancelBundle(x, c)
    PROVE  Held'
<1>1. /\ queue' = queue /\ transmitted' = transmitted /\ cancelled' = cancelled \cup {c}
      /\ Spared(Peer(x)) /\ Goes(x, c, 0)
      /\ \A b, n : /\ Goes(x, b, n)' <=> b # c /\ Goes(x, b, n)
                   /\ Stops(x, b, n)' => Stops(x, b, n)
                   /\ Tells(x, b, n)' <=> Tells(x, b, n)
  BY CancelIs
<1>2. HeldOK(x) /\ c \in Moving(x)
  BY <1>1, SideGoes DEF Held
<1>3. Waiting(x)' = Waiting(x) /\ Moving(x)' = Moving(x) \ {c} /\ Told(x)' = Told(x)
  BY <1>1 DEF Waiting, Moving, Told
<1>4. Apportioned(Range(Queued[x]), Waiting(x)', Moving(x)', Told(x)', cancelled')
  <2> DEFINE Q == Range(Queued[x])
             W == Waiting(x)
             M == Moving(x)
             T == Told(x)
  <2>1. Apportioned(Q, W, M, T, cancelled) /\ c \in M
    BY <1>2 DEF HeldOK
  <2> HIDE DEF Q, W, M, T
  <2>2. Apportioned(Q, W, M \ {c}, T, cancelled \cup {c})
    BY <2>1 DEF Apportioned
  <2> QED
    BY <1>1, <1>3, <2>2 DEF Q, W, M, T
<1>5. HeldOK(x)'
  BY <1>1, <1>2, <1>4 DEF HeldOK, ToldOnce
<1>6. {c} \subseteq Moving(x)
  BY <1>2
<1> QED
  BY <1>1, <1>5, <1>6, HeldFrom

LEMMA AckHeld ==
    ASSUME Held, IInv, NEW x \in Sides, HandleAckSegment(x)
    PROVE  Held'
<1> DEFINE h == Head(inflight[x])
           c == h.bundle
           n == Message(x).len
           final == n = Length[c]
<1>1. /\ queue' = queue /\ cancelled' = cancelled /\ Spared(Peer(x))
      /\ Goes(x, c, h.acked) /\ n \in Nat
      /\ \A b, k : /\ Goes(x, b, k)' <=> \/ b # c /\ Goes(x, b, k)
                                         \/ ~final /\ b = c /\ k = n
                   /\ Stops(x, b, k)' => Stops(x, b, k) \/ (final /\ b = c /\ k = n)
                   /\ Tells(x, b, k)' <=> Tells(x, b, k) \/ (final /\ b = c /\ k = n)
      /\ ToldOnce(transmitted[x]) /\ (\A k : ~Tells(x, c, k)) => ToldOnce(transmitted'[x])
  BY AckIs
<1>2. HeldOK(x) /\ c \in Moving(x) /\ c \in Bundles
  BY <1>1, SideGoes DEF Held
<1> HIDE DEF h, c, n, final
<1>3. \A k : ~Tells(x, c, k)
  <2>1. c \notin Told(x)
    BY <1>2 DEF HeldOK, Apportioned
  <2> QED
    BY <2>1, SideGoes
<1>4. Waiting(x)' = Waiting(x)
  BY <1>1 DEF Waiting
<1>5. ToldOnce(transmitted'[x]) /\ \A b, k : Stops(x, b, k)' => Tells(x, b, k)'
  BY <1>1, <1>2, <1>3 DEF HeldOK
<1>6. Apportioned(Range(Queued[x]), Waiting(x)', Moving(x)', Told(x)', cancelled')
  <2> DEFINE Q == Range(Queued[x])
             W == Waiting(x)
             M == Moving(x)
             T == Told(x)
  <2>1. Apportioned(Q, W, M, T, cancelled) /\ c \in M
    BY <1>2 DEF HeldOK
  <2>2. CASE final
    <3>1. Moving(x)' = M \ {c}
      BY <1>1, <2>2 DEF Moving
    <3>2. Told(x)' = T \cup {c}
      <4>1. \A b, k : Tells(x, b, k)' <=> Tells(x, b, k) \/ (b = c /\ k = n)
        BY <1>1, <2>2
      <4>2. \A b \in Bundles : (\E k \in Nat : Tells(x, b, k)') <=> (\E k \in Nat : Tells(x, b, k)) \/ b = c
        BY <1>1, <4>1
      <4> QED
        BY <1>2, <4>2 DEF Told
    <3> HIDE DEF Q, W, M, T
    <3>3. Apportioned(Q, W, M \ {c}, T \cup {c}, cancelled)
      BY <2>1 DEF Apportioned
    <3> QED
      BY <1>1, <1>4, <3>1, <3>2, <3>3 DEF Q, W
  <2>3. CASE ~final
    <3>1. Moving(x)' = M
      <4>1. \A b, k : Goes(x, b, k)' <=> (b # c /\ Goes(x, b, k)) \/ (b = c /\ k = n)
        BY <1>1, <2>3
      <4>2. \A b \in Bundles : (\E k \in Nat : Goes(x, b, k)') <=> b = c \/ (\E k \in Nat : Goes(x, b, k))
        BY <1>1, <4>1
      <4> QED
        BY <1>2, <4>2 DEF Moving
    <3>2. Told(x)' = T
      BY <1>1, <2>3 DEF Told
    <3> HIDE DEF Q, W, M, T
    <3> QED
      BY <1>1, <1>4, <2>1, <3>1, <3>2 DEF Q, W
  <2> QED
    BY <2>2, <2>3
<1>7. HeldOK(x)'
  BY <1>5, <1>6 DEF HeldOK
<1> QED
  BY <1>1, <1>7, HeldStep

LEMMA CloseHeld ==
    ASSUME Reactive, Held, IInv, NEW x \in Sides, CloseContact(x)
    PROVE  Held'
<1> DEFINE Z == {b \in Bundles : Goes(x, b, 0)}
           P == {b \in Bundles : \E n \in Nat : Goes(x, b, n) /\ n > 0}
<1>1. /\ cancelled' = cancelled /\ Spared(Peer(x))
      /\ Waiting(x)' = Waiting(x) \cup Z
      /\ \A b, n : /\ ~Goes(x, b, n)' /\ ~Stops(x, b, n)'
                   /\ Tells(x, b, n)' <=> Tells(x, b, n) \/ (Goes(x, b, n) /\ n > 0)
      /\ /\ ToldOnce(transmitted[x])
         /\ \A b, m, n : Tells(x, b, m) => ~Goes(x, b, n)
         => ToldOnce(transmitted'[x])
  BY CloseIs
<1>2. HeldOK(x)
  BY DEF Held
<1>3. \A b, m, n : Tells(x, b, m) => ~Goes(x, b, n)
  <2>1. Moving(x) \cap Told(x) = {}
    BY <1>2 DEF HeldOK, Apportioned
  <2> QED
    BY <2>1, SideGoes
<1>4. ToldOnce(transmitted'[x])
  BY <1>1, <1>2, <1>3 DEF HeldOK
<1>5. Moving(x) = Z \cup P /\ Z \cap P = {}
  <2>1. \A n \in Nat : n = 0 \/ n > 0
    OBVIOUS
  <2>2. 0 \in Nat /\ ~(0 > 0)
    OBVIOUS
  <2>3. \A b, m, n : Goes(x, b, n) /\ Goes(x, b, m) => m = n
    BY SideGoes
  <2>4. Moving(x) = Z \cup P
    BY <2>1, <2>2 DEF Moving
  <2>5. Z \cap P = {}
    BY <2>2, <2>3
  <2> QED
    BY <2>4, <2>5
<1>6. Moving(x)' = {} /\ Told(x)' = Told(x) \cup P
  <2>1. Moving(x)' = {}
    BY <1>1 DEF Moving
  <2>2. Told(x)' = Told(x) \cup P
    <3>1. \A b \in Bundles : (\E n \in Nat : Tells(x, b, n)') <=>
             (\E n \in Nat : Tells(x, b, n)) \/ (\E n \in Nat : Goes(x, b, n) /\ n > 0)
      BY <1>1
    <3> QED
      BY <3>1 DEF Told
  <2> QED
    BY <2>1, <2>2
<1> HIDE DEF Z, P
<1>7. Apportioned(Range(Queued[x]), Waiting(x)', Moving(x)', Told(x)', cancelled')
  <2> DEFINE Q == Range(Queued[x])
             W == Waiting(x)
             M == Moving(x)
             T == Told(x)
  <2>1. Apportioned(Q, W, M, T, cancelled) /\ M = Z \cup P
    BY <1>2, <1>5 DEF HeldOK
  <2> HIDE DEF Q, W, M, T
  <2>2. Apportioned(Q, W \cup Z, {}, T \cup P, cancelled)
    BY <1>5, <2>1 DEF Apportioned
  <2> QED
    BY <1>1, <1>6, <2>2 DEF Q, W, T
<1>8. HeldOK(x)'
  BY <1>1, <1>4, <1>7 DEF HeldOK
<1> QED
  BY <1>1, <1>8, HeldStep

LEMMA InitHeld == Init => Held
<1> SUFFICES ASSUME Init PROVE Held
  OBVIOUS
<1> SUFFICES ASSUME NEW s \in Sides PROVE HeldOK(s)
  BY DEF Held
<1>1. /\ inflight[s] = <<>> /\ transmitted[s] = <<>> /\ queue[s] = Queued[s] /\ cancelled = {}
  BY DEF Init
<1>2. /\ \A b, n : ~Goes(s, b, n) /\ ~Stops(s, b, n) /\ ~Tells(s, b, n)
      /\ ToldOnce(transmitted[s])
  <2>1. 1..Len(<<>>) = {}
    OBVIOUS
  <2> QED
    BY <1>1, <2>1 DEF Goes, GoesIn, Stops, StopsIn, Tells, ToldIn, ToldOnce
<1>3. Moving(s) = {} /\ Told(s) = {}
  BY <1>2 DEF Moving, Told
<1>4. Waiting(s) = Range(Queued[s])
  BY <1>1 DEF Waiting, ToSet, Range
<1> HIDE DEF Waiting
<1>5. Apportioned(Range(Queued[s]), Waiting(s), Moving(s), Told(s), cancelled)
  BY <1>1, <1>3, <1>4 DEF Apportioned
<1> QED
  BY <1>2, <1>5 DEF HeldOK

LEMMA NextHeld ==
    ASSUME Reactive PROVE Held /\ IInv /\ [Next]_vars => Held'
<1> SUFFICES ASSUME Held, IInv, [Next]_vars PROVE Held'
  OBVIOUS
<1>1. ASSUME NEW x \in Sides, Thread(x) PROVE Held'
  <2>1. CASE Silent(x)
    BY <2>1, SilentSteps, UnnoticedHeld
  <2>2. CASE StartNextBundle(x)
    BY <2>2, StartHeld
  <2>3. CASE FinishBundle(x)
    BY <2>3, FinishHeld
  <2>4. CASE HandleAckSegment(x)
    BY <2>4, AckHeld
  <2> QED
    BY <1>1, <2>1, <2>2, <2>3, <2>4 DEF Thread, SendNext, Process, Silent
<1>2. ASSUME NEW x \in Sides, CloseContact(x) PROVE Held'
  BY <1>2, CloseHeld
<1>3. ASSUME NEW x \in Sides, NEW r \in Breaks, BreakContact(x, r) PROVE Held'
  <2>1. Silent(x)
    BY <1>3 DEF Silent
  <2> QED
    BY <2>1, SilentSteps, UnnoticedHeld
<1>4. ASSUME NEW x \in Sides, NEW b \in Cancels, CancelBundle(x, b) PROVE Held'
  BY <1>4, CancelHeld
<1>5. CASE Reconnect \/ UNCHANGED vars
  <2>1. inflight' = inflight /\ queue' = queue /\ transmitted' = transmitted /\ cancelled' = cancelled
    BY <1>5 DEF Reconnect, vars, sending, posted
  <2> QED
    BY <2>1, NoticesNone, UnnoticedHeld
<1> QED
  BY <1>1, <1>2, <1>3, <1>4, <1>5 DEF Next

LEMMA HeldInvariant ==
    ASSUME Reactive PROVE Spec => [](IInv /\ Held)
<1>1. Init => IInv /\ Held
  BY InitIInv, InitHeld
<1>2. (IInv /\ Held) /\ [Next]_vars => (IInv /\ Held)'
  BY NextIInv, NextHeld
<1> QED
  BY <1>1, <1>2, PTL DEF Spec

\* A set of one of these kinds of places has the other ones empty.
LEMMA OnePlace ==
    ASSUME NEW A, NEW k
    PROVE  /\ (\E i \in A : TRUE) /\ (\A i, j \in A : i = j) =>
                 Cardinality({<<k, i>> : i \in A}) = 1
<1> SUFFICES ASSUME NEW i \in A, \A j, l \in A : j = l PROVE Cardinality({<<k, j>> : j \in A}) = 1
  OBVIOUS
<1>1. {<<k, j>> : j \in A} = {<<k, i>>}
  OBVIOUS
<1> QED
  BY <1>1, FS_Singleton

\* Where a bundle is held.
LEMMA HeldPlaces ==
    ASSUME IInv, Held, NEW s \in Sides, NEW b \in Range(Queued[s])
    PROVE  Cardinality(Places(s, b)) = 1
<1> DEFINE A == {j \in DOMAIN queue[s] : queue[s][j] = b}
           B == {j \in DOMAIN inflight[s] : inflight[s][j].bundle = b /\ ~inflight[s][j].posted}
           C == {j \in DOMAIN transmitted[s] : transmitted[s][j].bundle = b}
           D == {j \in {0} : b \in cancelled}
           PA == {<<"queue", i>> : i \in A}
           PB == {<<"inflight", i>> : i \in B}
           PC == {<<"transmitted", i>> : i \in C}
           PD == {<<"cancelled", i>> : i \in D}
<1>1. Places(s, b) = ((PA \cup PB) \cup PC) \cup PD
  BY DEF Places
<1>2. /\ queue[s] \in Seq(Bundles) /\ inflight[s] \in Seq(Flights)
      /\ transmitted[s] \in Seq(TransmittedEvents) /\ QueueOK(s)
  BY DEF IInv, TypeOK, TransmittedEvents
<1>3. HeldOK(s) /\ FlightsAre(s)
  BY SideFlights DEF Held
<1>4. /\ DOMAIN queue[s] = 1..Len(queue[s]) /\ DOMAIN inflight[s] = 1..Len(inflight[s])
      /\ DOMAIN transmitted[s] = 1..Len(transmitted[s])
  BY <1>2
<1>5. /\ b \in Waiting(s) <=> A # {}
      /\ b \in Moving(s) <=> B # {}
      /\ b \in Told(s) <=> C # {}
      /\ b \in cancelled <=> D # {}
  <2>1. b \in Waiting(s) <=> A # {}
    BY DEF Waiting, ToSet
  <2>2. b \in Moving(s) <=> B # {}
    <3>1. b \in Moving(s) => B # {}
      BY <1>4 DEF Moving, Goes, GoesIn
    <3>2. ASSUME NEW i \in B PROVE b \in Moving(s)
      <4>1. Goes(s, b, inflight[s][i].acked)
        BY <1>4 DEF Goes, GoesIn
      <4> QED
        BY <4>1, SideGoes
    <3> QED
      BY <3>1, <3>2
  <2>3. b \in Told(s) <=> C # {}
    <3>1. b \in Told(s) => C # {}
      BY <1>4 DEF Told, Tells, ToldIn
    <3>2. ASSUME NEW i \in C PROVE b \in Told(s)
      <4>1. Tells(s, b, transmitted[s][i].acked)
        BY <1>4 DEF Tells, ToldIn
      <4> QED
        BY <4>1, SideGoes
    <3> QED
      BY <3>1, <3>2
  <2>4. b \in cancelled <=> D # {}
    OBVIOUS
  <2> QED
    BY <2>1, <2>2, <2>3, <2>4
<1>6. /\ \A i, j \in A : i = j
      /\ \A i, j \in B : i = j
      /\ \A i, j \in C : i = j
      /\ \A i, j \in D : i = j
  <2>1. \A i, j \in A : i = j
    BY <1>2 DEF QueueOK, IsInjective
  <2>2. \A i, j \in B : i = j
    BY <1>3, <1>4 DEF FlightsAre
  <2>3. \A i, j \in C : i = j
    BY <1>3, <1>4 DEF HeldOK, ToldOnce
  <2>4. \A i, j \in D : i = j
    OBVIOUS
  <2> QED
    BY <2>1, <2>2, <2>3, <2>4
<1>7. \/ A # {} /\ B = {} /\ C = {} /\ D = {}
      \/ A = {} /\ B # {} /\ C = {} /\ D = {}
      \/ A = {} /\ B = {} /\ C # {} /\ D = {}
      \/ A = {} /\ B = {} /\ C = {} /\ D # {}
  <2> HIDE DEF A, B, C, D
  <2>1. Apportioned(Range(Queued[s]), Waiting(s), Moving(s), Told(s), cancelled)
    BY <1>3 DEF HeldOK
  <2> QED
    BY <1>5, <2>1 DEF Apportioned
<1> HIDE DEF A, B, C, D
<1>8. /\ A = {} => PA = {}
      /\ B = {} => PB = {}
      /\ C = {} => PC = {}
      /\ D = {} => PD = {}
  OBVIOUS
<1>9. /\ A # {} => Cardinality(PA) = 1
      /\ B # {} => Cardinality(PB) = 1
      /\ C # {} => Cardinality(PC) = 1
      /\ D # {} => Cardinality(PD) = 1
  BY <1>6, OnePlace
<1> HIDE DEF PA, PB, PC, PD
<1> QED
  BY <1>1, <1>7, <1>8, <1>9

\* With reactive fragmentation negotiated, every bundle that the daemon gave to
\* the link is in one place: it waits, is in flight, was reported once or was
\* cancelled, whatever close_contact and cancel_bundle find on its way.
THEOREM EachHeldOnce ==
    ASSUME Reactive PROVE Spec => []HeldOnce
<1>1. IInv /\ Held => HeldOnce
  BY HeldPlaces DEF HeldOnce
<1> QED
  BY <1>1, HeldInvariant, PTL

-----------------------------------------------------------------------------
(* The bundles whose data is on the way.                                   *)

Data(q) == {b \in Bundles : \E i \in 1..Len(q) : q[i].type = "data" /\ q[i].bundle = b}

LEMMA DataJoined ==
    ASSUME NEW q \in Seq(Items), NEW r \in Seq(Items)
    PROVE  Data(q \o r) = Data(q) \cup Data(r)
<1> DEFINE t == q \o r
           m == Len(q)
           n == Len(r)
<1>1. /\ Len(t) = m + n /\ m \in Nat /\ n \in Nat
      /\ \A i \in 1..m : t[i] = q[i]
      /\ \A i \in (m + 1)..(m + n) : t[i] = r[i - m] /\ i - m \in 1..n
  BY ConcatIs
<1> HIDE DEF t, m, n
<1>2. \A i \in 1..(m + n) : i \in 1..m \/ i \in (m + 1)..(m + n)
  BY <1>1
<1>3. /\ \A i \in 1..m : i \in 1..(m + n)
      /\ \A i \in 1..n : i + m \in (m + 1)..(m + n) /\ (i + m) - m = i /\ i + m \in 1..(m + n)
  BY <1>1
<1>4. ASSUME NEW b \in Data(t) PROVE b \in Data(q) \cup Data(r)
  <2>1. PICK i \in 1..(m + n) : t[i].type = "data" /\ t[i].bundle = b
    BY <1>1 DEF Data
  <2>2. CASE i \in 1..m
    BY <1>1, <2>1, <2>2 DEF Data, m
  <2>3. CASE i \in (m + 1)..(m + n)
    BY <1>1, <2>1, <2>3 DEF Data, n
  <2> QED
    BY <1>2, <2>2, <2>3
<1>5. Data(q) \subseteq Data(t)
  BY <1>1, <1>3 DEF Data, m
<1>6. ASSUME NEW b \in Data(r) PROVE b \in Data(t)
  <2>1. PICK i \in 1..n : r[i].type = "data" /\ r[i].bundle = b
    BY DEF Data, n
  <2>2. t[i + m] = r[i] /\ i + m \in 1..Len(t)
    <3>1. t[i + m] = r[(i + m) - m]
      BY <1>1, <1>3
    <3> QED
      BY <1>1, <1>3, <3>1
  <2> QED
    BY <2>1, <2>2 DEF Data
<1> QED
  BY <1>4, <1>5, <1>6 DEF t

LEMMA DataOfTail ==
    ASSUME NEW q \in Seq(Items), q # <<>>
    PROVE  /\ Data(Tail(q)) \subseteq Data(q)
           /\ Head(q).type = "data" /\ Head(q).bundle \in Bundles => Head(q).bundle \in Data(q)
<1>1. /\ Len(q) \in Nat /\ Len(q) > 0 /\ Head(q) = q[1] /\ Len(Tail(q)) = Len(q) - 1
      /\ \A i \in 1..(Len(q) - 1) : Tail(q)[i] = q[i + 1]
  OBVIOUS
<1>2. 1 \in 1..Len(q) /\ \A i \in 1..(Len(q) - 1) : i + 1 \in 1..Len(q)
  BY <1>1
<1>3. ASSUME NEW b \in Data(Tail(q)) PROVE b \in Data(q)
  <2>1. PICK i \in 1..(Len(q) - 1) : Tail(q)[i].type = "data" /\ Tail(q)[i].bundle = b
    BY <1>1 DEF Data
  <2> QED
    BY <1>1, <1>2, <2>1 DEF Data
<1> QED
  BY <1>1, <1>2, <1>3 DEF Data

LEMMA NoData ==
    ASSUME NEW q, \A i \in 1..Len(q) : q[i].type # "data"
    PROVE  Data(q) = {}
BY DEF Data

LEMMA DataOfUnits ==
    ASSUME NEW b \in Bundles, NEW m \in Nat, NEW n \in Nat
    PROVE  Data(Units(b, m + 1, m + n)) \subseteq {b}
<1> DEFINE U == Units(b, m + 1, m + n)
<1>1. U \in Seq(Items) /\ Len(U) = n /\ \A i \in 1..n : U[i] = Unit(b, m + i)
  BY UnitsType
<1> HIDE DEF U
<1>2. \A i \in 1..n : U[i].bundle = b
  BY <1>1 DEF Unit
<1> QED
  BY <1>1, <1>2 DEF Data, U

\* What is on the way was begun in this contact.
LEMMA DataOfRun ==
    ASSUME NEW o \in Seq(Bundles), NEW p, NEW xs \in Seq(Items), NEW q, DataRun(o, p, xs, q)
    PROVE  Data(xs) \subseteq ToSet(o)
<1>1. PICK g \in [1..(Len(xs) + 1) -> DataPlaces] :
         \A j \in 1..Len(xs) : <<g[j], xs[j], g[j + 1]>> \in DataSteps(o)
  BY DEF DataRun, Leads
<1>2. ASSUME NEW b \in Data(xs) PROVE b \in ToSet(o)
  <2>1. PICK j \in 1..Len(xs) : xs[j].type = "data" /\ xs[j].bundle = b
    BY DEF Data
  <2>2. DataStep(o, g[j], xs[j], g[j + 1])
    BY <1>1 DEF DataSteps
  <2>3. g[j].i \in 1..Len(o) /\ xs[j] = Unit(o[g[j].i], g[j].at + 1)
    BY <2>1, <2>2 DEF DataStep
  <2>4. xs[j].bundle = o[g[j].i]
    BY <2>3 DEF Unit
  <2> QED
    BY <2>1, <2>3, <2>4, ElementsOf
<1> QED
  BY <1>2

-----------------------------------------------------------------------------
(* No data of a cancelled bundle comes to a connection that still runs.    *)

Sendable(s) == Range(Queued[s]) \ cancelled
Carried == \A s \in Sides : Running(Peer(s)) => Data(Pipe(Peer(s))) \subseteq Sendable(s)

\* A step of x puts data only of its bundles in flight on the way.
Carries(x) == /\ Data(Pipe(Peer(x)))' \subseteq Data(Pipe(Peer(x))) \cup Moving(x)'
              /\ Data(Pipe(x))' \subseteq Data(Pipe(x))
              /\ \A s \in Sides : Running(s)' => Running(s)

LEMMA CarriedFrom ==
    ASSUME Carried, Held', NEW x \in Sides, Carries(x), cancelled' = cancelled
    PROVE  Carried'
<1> DEFINE y == Peer(x)
<1>1. y \in Sides /\ y # x /\ Sides = {x, y} /\ Peer(y) = x
  BY PeerIs
<1>2. Moving(x)' \subseteq Range(Queued[x]) \ cancelled'
  BY DEF Held, HeldOK, Apportioned
<1>3. /\ Running(y) => Data(Pipe(y)) \subseteq Sendable(x)
      /\ Running(x) => Data(Pipe(x)) \subseteq Sendable(y)
  BY <1>1 DEF Carried
<1>4. /\ Data(Pipe(y))' \subseteq Data(Pipe(y)) \cup Moving(x)' /\ Data(Pipe(x))' \subseteq Data(Pipe(x))
      /\ Running(x)' => Running(x)
      /\ Running(y)' => Running(y)
  BY <1>1 DEF Carries
<1>5. Sendable(x)' = Sendable(x) /\ Sendable(y)' = Sendable(y)
  BY DEF Sendable
<1> HIDE DEF y
<1>6. /\ Running(y)' => Data(Pipe(y))' \subseteq Sendable(x)'
      /\ Running(x)' => Data(Pipe(x))' \subseteq Sendable(y)'
  BY <1>2, <1>3, <1>4, <1>5 DEF Sendable
<1>7. ASSUME NEW s \in Sides PROVE Running(Peer(s))' => Data(Pipe(Peer(s)))' \subseteq Sendable(s)'
  <2>1. CASE s = x
    BY <1>6, <2>1 DEF y
  <2>2. CASE s = y
    BY <1>1, <1>6, <2>2
  <2> QED
    BY <1>1, <2>1, <2>2
<1> QED
  BY <1>7 DEF Carried

\* What one write puts on the way.
LEMMA WriteCarries ==
    ASSUME TypeOK, NEW x \in Sides, NEW xs \in Seq(Items), FillAndSend(x, xs),
           recvbuf' = recvbuf, conn' = conn, Data(xs) \subseteq Moving(x)'
    PROVE  Carries(x)
<1>1. /\ Pipe(Peer(x))' = Pipe(Peer(x)) \o xs /\ Pipe(x)' = Pipe(x)
  BY SendPipe
<1>2. Pipe(Peer(x)) \in Seq(Items)
  BY PeerIs, PipeType
<1> DEFINE p == Pipe(Peer(x))
<1>3. Data(p \o xs) = Data(p) \cup Data(xs)
  <2> HIDE DEF p
  <2> QED
    BY <1>2, DataJoined DEF p
<1>4. \A s \in Sides : Running(s)' => Running(s)
  BY DEF Running
<1> QED
  BY <1>1, <1>3, <1>4 DEF Carries

\* A step that writes nothing.
LEMMA SameCarries ==
    ASSUME NEW x \in Sides, recvbuf' = recvbuf, wire' = wire, sendbuf' = sendbuf, conn' = conn
    PROVE  Carries(x)
BY DEF Carries, Pipe, Running

LEMMA TakeCarries ==
    ASSUME TypeOK, NEW x \in Sides, Takes(x)
    PROVE  Carries(x)
<1>1. /\ Pipe(Peer(x))' = Pipe(Peer(x)) /\ Pipe(x) # <<>> /\ Pipe(x)' = Tail(Pipe(x))
      /\ \A s \in Sides : Running(s)' => Running(s)
  BY TakesIs
<1>2. Pipe(x) \in Seq(Items)
  BY PipeType
<1> DEFINE p == Pipe(x)
<1>3. Data(Tail(p)) \subseteq Data(p)
  <2> HIDE DEF p
  <2> QED
    BY <1>1, <1>2, DataOfTail DEF p
<1> QED
  BY <1>1, <1>3 DEF Carries

\* Data is sent of a bundle in flight.
LEMMA SendsCarry ==
    ASSUME TypeOK, NEW x \in Sides, NEW H, NEW f, f.bundle \in Bundles, f.sent \in Nat,
           NEW header \in Seq(Items), Data(header) = {}, NEW todo \in Nat,
           SendDataTodo(x, H, f, header, todo), recvbuf' = recvbuf, conn' = conn,
           f.bundle \in Moving(x)'
    PROVE  Carries(x)
<1> DEFINE b == f.bundle
           at == f.sent
<1>1. PICK n \in 0..todo : FillAndSend(x, header \o Units(b, at + 1, at + n))
  BY DEF SendDataTodo
<1>2. n \in Nat /\ b \in Bundles /\ at \in Nat /\ b \in Moving(x)'
  OBVIOUS
<1> HIDE DEF b, at
<1> DEFINE U == Units(b, at + 1, at + n)
           xs == header \o U
<1>3. U \in Seq(Items) /\ Data(U) \subseteq {b}
  BY <1>2, UnitsType, DataOfUnits
<1> HIDE DEF U
<1>4. xs \in Seq(Items) /\ Data(xs) = Data(header) \cup Data(U)
  BY <1>3, Concat, DataJoined
<1>5. FillAndSend(x, xs)
  BY <1>1 DEF U
<1> HIDE DEF xs
<1>6. Data(xs) \subseteq Moving(x)'
  BY <1>2, <1>3, <1>4
<1> QED
  BY <1>4, <1>5, <1>6, WriteCarries

\* One item that is not data.
LEMMA OneItem ==
    ASSUME NEW e \in Items, e.type # "data"
    PROVE  <<e>> \in Seq(Items) /\ Data(<<e>>) = {}
<1> DEFINE q == <<e>>
<1>1. q \in Seq(Items) /\ Len(q) = 1 /\ q[1] = e
  OBVIOUS
<1>2. \A i \in 1..1 : i = 1
  OBVIOUS
<1> HIDE DEF q
<1>3. \A i \in 1..Len(q) : q[i].type # "data"
  BY <1>1, <1>2
<1>4. Data(q) = {}
  BY <1>3, NoData
<1> QED
  BY <1>1, <1>4 DEF q

LEMMA LastMoves ==
    ASSUME IInv, NEW x \in Sides, inflight[x] # <<>>,
           Last(inflight[x]).sent < Length[Last(inflight[x]).bundle]
    PROVE  LET f == Last(inflight[x])
           IN  /\ f.bundle \in Bundles /\ f.sent \in Nat /\ f \in Flights
               /\ f.bundle \in Moving(x)
<1> DEFINE F == inflight[x]
           f == Last(F)
           k == Len(F)
<1>1. FlightsAre(x)
  BY SideFlights
<1>2. F \in Seq(Flights) /\ k \in 1..Len(F) /\ f = F[k]
  <2>1. F \in Seq(Flights)
    BY <1>1 DEF FlightsAre
  <2> QED
    BY <2>1, TailIs DEF Last
<1>3. /\ f \in Flights /\ f.bundle \in Bundles /\ f.sent \in Nat /\ f.acked \in Nat
      /\ Length[f.bundle] \in Nat /\ f.acked <= f.sent
      /\ (f.posted <=> f.acked = Length[f.bundle])
  BY <1>1, <1>2 DEF FlightsAre
<1>4. ~f.posted
  <2> DEFINE u == f.sent
             v == f.acked
             l == Length[f.bundle]
  <2>1. u \in Nat /\ v \in Nat /\ l \in Nat /\ v <= u /\ u < l
    BY <1>3
  <2> HIDE DEF u, v, l
  <2>2. v # l
    BY <2>1
  <2> QED
    BY <1>3, <2>2 DEF v, l
<1>5. Goes(x, f.bundle, f.acked)
  BY <1>2, <1>4 DEF Goes, GoesIn
<1> QED
  BY <1>3, <1>5, SideGoes

LEMMA SegmentItem ==
    ASSUME NEW n \in Nat, NEW first \in BOOLEAN, NEW last \in BOOLEAN
    PROVE  LET h == <<Segment(n, first, last)>> IN h \in Seq(Items) /\ Data(h) = {}
<1> DEFINE e == Segment(n, first, last)
<1>1. e \in Items /\ e.type = "segment"
  BY DEF Segment, Items
<1> HIDE DEF e
<1> QED
  BY <1>1, OneItem DEF e

LEMMA SegmentCarries ==
    ASSUME TypeOK, NEW x \in Sides, NEW H, NEW f, f.bundle \in Bundles, f.sent \in Nat,
           f.sent <= Length[f.bundle],
           SendSegment(x, H, f), recvbuf' = recvbuf, conn' = conn, f.bundle \in Moving(x)'
    PROVE  Carries(x)
<1> DEFINE left == Length[f.bundle] - f.sent
           n == Least(SegmentLength, left)
           first == f.sent = 0
           last == n = left
           header == <<Segment(n, first, last)>>
<1>1. SendDataTodo(x, H, f, header, n)
  BY DEF SendSegment
<1>2. n \in Nat
  <2> DEFINE u == f.sent
             l == Length[f.bundle]
  <2>1. u \in Nat /\ l \in Nat /\ u <= l
    BY LengthType
  <2> HIDE DEF u, l
  <2>2. l - u \in Nat /\ SegmentLength \in Nat
    BY <2>1, LengthsAssumption
  <2> QED
    BY <2>2 DEF Least, u, l
<1>3. first \in BOOLEAN /\ last \in BOOLEAN
  OBVIOUS
<1> HIDE DEF n, first, last
<1>4. header \in Seq(Items) /\ Data(header) = {}
  BY <1>2, <1>3, SegmentItem
<1> HIDE DEF header
<1> QED
  BY <1>1, <1>2, <1>4, SendsCarry

-----------------------------------------------------------------------------
(* What each step puts on the way.                                         *)

LEMMA SilentMoving ==
    ASSUME IInv, NEW x \in Sides, Silent(x)
    PROVE  Moving(x)' = Moving(x)
BY SilentSteps, UnnoticedSame

LEMMA ContinueCarries ==
    ASSUME IInv, NEW x \in Sides, ContinueSegment(x)
    PROVE  Carries(x)
<1> DEFINE H == Front(inflight[x])
           f == Last(inflight[x])
           todo == sendTodo[x]
           header == <<>>
<1>1. /\ todo > 0 /\ SendDataTodo(x, H, f, header, todo) /\ recvbuf' = recvbuf /\ conn' = conn
  BY DEF ContinueSegment, receiving
<1>2. TypeOK /\ todo \in Nat /\ inflight[x] # <<>>
  BY <1>1, CurrentFlies DEF IInv, TypeOK
<1>3. inflight[x] \in Seq(Flights)
  BY <1>2 DEF TypeOK
<1>4. f.sent < Length[f.bundle]
  <2>1. PICK o \in Seq(Bundles), a \in Nat : InStep(x, o, a)
    BY DEF IInv, Transfers
  <2>2. f.sent + todo <= Length[f.bundle]
    BY <1>1, <2>1 DEF InStep, EndsOK, FlightsOK
  <2>3. f \in Flights
    BY <1>2, <1>3, TailIs
  <2> DEFINE u == f.sent
             l == Length[f.bundle]
  <2>4. u \in Nat /\ l \in Nat /\ u + todo <= l
    BY <2>2, <2>3, LengthType DEF Flights
  <2> HIDE DEF f, todo, u, l
  <2>5. u < l
    BY <1>1, <1>2, <2>4
  <2> QED
    BY <2>5 DEF u, l
<1>5. f.bundle \in Bundles /\ f.sent \in Nat /\ f.bundle \in Moving(x)
  BY <1>2, <1>4, LastMoves
<1>6. Moving(x)' = Moving(x)
  BY SilentMoving DEF Silent
<1>7. header \in Seq(Items) /\ Data(header) = {}
  <2>1. 1..Len(<<>>) = {}
    OBVIOUS
  <2> QED
    BY <2>1 DEF Data
<1> HIDE DEF header, H, f, todo
<1> QED
  BY <1>1, <1>2, <1>5, <1>6, <1>7, SendsCarry

LEMMA NextSegmentCarries ==
    ASSUME IInv, NEW x \in Sides, SendNextSegment(x)
    PROVE  Carries(x)
<1> DEFINE H == Front(inflight[x])
           f == Last(inflight[x])
<1>1. /\ current[x] # NoBundle /\ SendSegment(x, H, f) /\ recvbuf' = recvbuf /\ conn' = conn
      /\ f.sent < Length[f.bundle]
  BY DEF SendNextSegment, receiving
<1>2. TypeOK /\ inflight[x] # <<>>
  BY <1>1, CurrentFlies DEF IInv
<1>3. f.bundle \in Bundles /\ f.sent \in Nat /\ f.bundle \in Moving(x)
  BY <1>1, <1>2, LastMoves
<1>4. Moving(x)' = Moving(x)
  BY SilentMoving DEF Silent
<1>5. f.sent <= Length[f.bundle]
  <2> DEFINE u == f.sent
             l == Length[f.bundle]
  <2>1. u \in Nat /\ l \in Nat /\ u < l
    BY <1>1, <1>3, LengthType
  <2> HIDE DEF u, l
  <2>2. u <= l
    BY <2>1
  <2> QED
    BY <2>2 DEF u, l
<1> HIDE DEF H, f
<1> QED
  BY <1>1, <1>2, <1>3, <1>4, <1>5, SegmentCarries

LEMMA StartCarries ==
    ASSUME IInv, NEW x \in Sides, StartNextBundle(x)
    PROVE  Carries(x)
<1> DEFINE c == Head(queue[x])
           f == Flight(c)
           H == inflight[x]
<1>1. /\ recvbuf' = recvbuf /\ conn' = conn /\ queue[x] # <<>>
      /\ \/ SendSegment(x, H, f)
         \/ sendbuf' = sendbuf /\ wire' = wire
  BY DEF StartNextBundle, receiving
<1>2. TypeOK /\ c \in Bundles
  <2>1. queue[x] \in Seq(Bundles)
    BY DEF IInv, TypeOK
  <2> QED
    BY <1>1, <2>1 DEF IInv
<1>3. c \in Moving(x)'
  <2>1. \A b, n : Goes(x, b, n)' <=> Goes(x, b, n) \/ (b = c /\ n = 0)
    BY StartIs
  <2>2. Moving(x)' = {b \in Bundles : \E n \in Nat : Goes(x, b, n)'}
    BY DEF Moving
  <2> DEFINE z == 0
  <2>3. z \in Nat
    OBVIOUS
  <2>4. \A b : b = c => Goes(x, b, z)'
    BY <2>1
  <2> HIDE DEF z, c
  <2>5. \A b \in Bundles : b = c => b \in Moving(x)'
    BY <2>2, <2>3, <2>4
  <2> QED
    BY <1>2, <2>5
<1>4. f.bundle = c /\ f.sent = 0 /\ f.sent \in Nat
  BY DEF Flight
<1>5. f.sent <= Length[f.bundle]
  BY <1>2, <1>4, LengthType
<1>6. CASE SendSegment(x, H, f)
  <2>1. f.bundle \in Bundles /\ f.bundle \in Moving(x)'
    BY <1>2, <1>3, <1>4
  <2> HIDE DEF f, H
  <2> QED
    BY <1>1, <1>2, <1>4, <1>5, <1>6, <2>1, SegmentCarries
<1>7. CASE sendbuf' = sendbuf /\ wire' = wire
  BY <1>1, <1>7, SameCarries
<1> QED
  BY <1>1, <1>6, <1>7

\* What is not data.
LEMMA AcksOnly ==
    ASSUME NEW acks \in Seq(Nat)
    PROVE  LET xs == [i \in DOMAIN acks |-> Ack(acks[i])]
           IN  xs \in Seq(Items) /\ Data(xs) = {}
<1> DEFINE n == Len(acks)
           xs == [i \in 1..n |-> Ack(acks[i])]
<1>1. n \in Nat /\ DOMAIN acks = 1..n /\ \A i \in 1..n : acks[i] \in Nat
  OBVIOUS
<1>2. \A i \in 1..n : Ack(acks[i]) \in Items /\ Ack(acks[i]).type = "ack"
  BY <1>1 DEF Ack, Items
<1> HIDE DEF n
<1>3. xs \in Seq(Items) /\ Len(xs) = n /\ \A i \in 1..n : xs[i] = Ack(acks[i])
  BY <1>1, <1>2
<1> HIDE DEF xs
<1>4. \A i \in 1..Len(xs) : xs[i].type # "data"
  BY <1>2, <1>3
<1>5. Data(xs) = {}
  BY <1>4, NoData
<1> QED
  BY <1>1, <1>3, <1>5 DEF xs

LEMMA PlainWrite ==
    ASSUME TypeOK, NEW x \in Sides, NEW xs \in Seq(Items), Data(xs) = {}, FillAndSend(x, xs),
           recvbuf' = recvbuf, conn' = conn
    PROVE  Carries(x)
<1>1. Data(xs) \subseteq Moving(x)'
  OBVIOUS
<1> QED
  BY <1>1, WriteCarries

LEMMA AcksCarry ==
    ASSUME IInv, NEW x \in Sides, SendPendingAcks(x)
    PROVE  Carries(x)
<1>1. /\ recvbuf' = recvbuf /\ conn' = conn /\ TypeOK
      /\ \/ UNCHANGED <<sendbuf, wire>>
         \/ /\ incoming[x] # <<>>
            /\ \E acks \in InOrder(PendingAcks(x)) :
                  FillAndSend(x, [i \in DOMAIN acks |-> Ack(acks[i])])
  BY DEF SendPendingAcks, IInv
<1>2. CASE UNCHANGED <<sendbuf, wire>>
  BY <1>1, <1>2, SameCarries
<1>3. ASSUME incoming[x] # <<>>, NEW acks \in InOrder(PendingAcks(x)),
             FillAndSend(x, [i \in DOMAIN acks |-> Ack(acks[i])])
      PROVE  Carries(x)
  <2> DEFINE S == PendingAcks(x)
             I == incoming[x]
             xs == [i \in DOMAIN acks |-> Ack(acks[i])]
  <2>1. S \in SUBSET {n \in Head(I).acks : n <= Len(Head(I).data)} /\ IsFiniteSet(S)
    BY <1>1, <1>3, PendingAcksIs
  <2>2. Head(I).acks \in SUBSET Nat
    <3>1. I \in Seq(Incomings)
      BY <1>1 DEF TypeOK
    <3>2. Head(I) \in Incomings
      BY <1>3, <3>1, TailIs
    <3> HIDE DEF I
    <3> QED
      BY <3>2 DEF Incomings
  <2> HIDE DEF S, I
  <2>3. S \in SUBSET Nat /\ acks \in InOrder(S)
    BY <1>3, <2>1, <2>2 DEF S
  <2>4. acks \in Seq(Nat)
    BY <2>1, <2>3, InOrderIs
  <2>5. xs \in Seq(Items) /\ Data(xs) = {}
    BY <2>4, AcksOnly
  <2>6. FillAndSend(x, xs)
    BY <1>3
  <2> HIDE DEF xs
  <2> QED
    BY <1>1, <2>5, <2>6, PlainWrite
<1> QED
  BY <1>1, <1>2, <1>3

LEMMA FlushCarries ==
    ASSUME IInv, NEW x \in Sides, Flush(x)
    PROVE  Carries(x)
<1> DEFINE xs == <<>>
<1>1. /\ FillAndSend(x, xs) /\ recvbuf' = recvbuf /\ conn' = conn /\ TypeOK
  BY DEF Flush, receiving, IInv
<1>2. xs \in Seq(Items) /\ Data(xs) = {}
  <2>1. 1..Len(<<>>) = {}
    OBVIOUS
  <2> QED
    BY <2>1 DEF Data
<1> HIDE DEF xs
<1> QED
  BY <1>1, <1>2, PlainWrite

LEMMA KeepaliveCarries ==
    ASSUME IInv, NEW x \in Sides, SendKeepalive(x)
    PROVE  Carries(x)
<1> DEFINE e == Keepalive
           xs == <<e>>
<1>1. /\ FillAndSend(x, xs) /\ recvbuf' = recvbuf /\ conn' = conn /\ TypeOK
  BY DEF SendKeepalive, receiving, IInv
<1>2. e \in Items /\ e.type # "data"
  BY DEF Items, Keepalive
<1> HIDE DEF e
<1>3. xs \in Seq(Items) /\ Data(xs) = {}
  BY <1>2, OneItem
<1> HIDE DEF xs
<1> QED
  BY <1>1, <1>3, PlainWrite

LEMMA ReadCarries ==
    ASSUME IInv, NEW x \in Sides, Read(x)
    PROVE  Carries(x)
<1>1. /\ Pipe(Peer(x))' = Pipe(Peer(x)) /\ Pipe(x)' = Pipe(x) /\ conn' = conn
  BY ReadPipe DEF IInv, Read
<1> QED
  BY <1>1 DEF Carries, Running

\* The data of a pipe is that of its three parts.
LEMMA DataOfPipe ==
    ASSUME NEW r \in Seq(Items), NEW w \in Seq(Items), NEW b \in Seq(Items)
    PROVE  Data((r \o w) \o b) = Data(r) \cup Data(w) \cup Data(b)
<1>1. r \o w \in Seq(Items)
  BY Concat
<1> QED
  BY <1>1, DataJoined

\* A message is taken out of the receive buffer.
LEMMA ReceiveCarries ==
    ASSUME IInv, NEW x \in Sides,
           \/ HandleContactInitiation(x) \/ HandleDataSegment(x) \/ HandleDataTodo(x)
           \/ HandleAckSegment(x) \/ HandleOther(x)
    PROVE  Carries(x)
<1>1. TypeOK /\ Local(x)
  BY StepFrom
<1>2. /\ pc[x] = "process" /\ recvbuf' = Put(recvbuf, x, Tail(recvbuf[x]))
      /\ sendbuf' = sendbuf /\ wire' = wire
      /\ \/ conn' = conn
         \/ conn[x] = "initiated" /\ conn' = Put(conn, x, "up")
         \/ conn[x] = "up" /\ \E c : conn' = Put(conn, x, c)
  BY DEF HandleContactInitiation, HandleDataSegment, HandleDataTodo, HandleAckSegment,
         HandleOther, Consume
<1>3. recvbuf[x] # <<>>
  BY <1>1, <1>2 DEF Local, ThreadOK
<1>4. /\ Pipe(Peer(x))' = Pipe(Peer(x)) /\ Pipe(x) # <<>> /\ Pipe(x)' = Tail(Pipe(x))
      /\ Pipe(x) \in Seq(Items)
  BY <1>1, <1>2, <1>3, TakePipe
<1>5. \A s \in Sides : Running(s)' => Running(s)
  BY <1>1, <1>2 DEF Running, Put, TypeOK
<1> DEFINE p == Pipe(x)
<1>6. Data(Tail(p)) \subseteq Data(p)
  <2> HIDE DEF p
  <2> QED
    BY <1>4, DataOfTail DEF p
<1> QED
  BY <1>4, <1>5, <1>6 DEF Carries

\* Breaking writes a shutdown at most.
LEMMA BreakCarries ==
    ASSUME IInv, NEW x \in Sides, NEW polite, Break(x, polite),
           \/ recvbuf' = recvbuf
           \/ recvbuf' = Put(recvbuf, x, Tail(recvbuf[x])) /\ recvbuf[x] # <<>>
    PROVE  Carries(x)
<1> DEFINE y == Peer(x)
<1>1. TypeOK /\ y \in Sides /\ y # x /\ Peer(y) = x
  BY StepFrom
<1>2. recvbuf'[y] = recvbuf[y] /\ conn' = Put(conn, x, "broken")
  BY <1>1 DEF TypeOK, Put, Break
<1>3. \A s \in Sides : Running(s)' => Running(s)
  BY <1>1, <1>2 DEF Running, Put, TypeOK
<1>4. PICK xs \in Seq(Items) : /\ Pipe(y)' = Pipe(y) \o xs
                               /\ \A j \in 1..Len(xs) : xs[j].type = "shutdown"
  BY <1>1, <1>2, BreakWrites
<1>5. Data(xs) = {}
  BY <1>4, NoData
<1>6. Data(Pipe(y))' \subseteq Data(Pipe(y))
  <2> DEFINE p == Pipe(y)
  <2>1. p \in Seq(Items) /\ xs \in Seq(Items)
    BY <1>1, <1>4, PipeType
  <2>2. Data(p \o xs) = Data(p) \cup Data(xs)
    <3> HIDE DEF p
    <3> QED
      BY <2>1, DataJoined
  <2> QED
    BY <1>4, <1>5, <2>2
<1>7. wire'[y] = wire[y] /\ sendbuf'[y] = sendbuf[y]
  <2>1. CASE UNCHANGED <<sendbuf, wire>>
    BY <2>1
  <2>2. CASE FillAndSend(x, <<Shutdown>>)
    BY <1>1, <2>2, WritesOnly
  <2> QED
    BY <2>1, <2>2 DEF Break
<1>8. Data(Pipe(x))' \subseteq Data(Pipe(x))
  <2>1. CASE recvbuf' = recvbuf
    BY <1>7, <2>1 DEF Pipe
  <2>2. CASE recvbuf' = Put(recvbuf, x, Tail(recvbuf[x])) /\ recvbuf[x] # <<>>
    <3> DEFINE r == recvbuf[x]
               w == wire[y]
               b == sendbuf[y]
    <3>1. r \in Seq(Items) /\ w \in Seq(Items) /\ b \in Seq(Items) /\ r # <<>>
      BY <1>1, <2>2 DEF TypeOK
    <3>2. recvbuf'[x] = Tail(r)
      BY <1>1, <2>2 DEF TypeOK, Put
    <3>3. Pipe(x)' = (Tail(r) \o w) \o b /\ Pipe(x) = (r \o w) \o b
      BY <1>7, <3>2 DEF Pipe
    <3> HIDE DEF r, w, b
    <3>4. Data((r \o w) \o b) = Data(r) \cup Data(w) \cup Data(b)
      BY <3>1, DataOfPipe
    <3>5. /\ Data((Tail(r) \o w) \o b) = Data(Tail(r)) \cup Data(w) \cup Data(b)
          /\ Data(Tail(r)) \subseteq Data(r)
      <4> DEFINE t == Tail(r)
      <4>1. t \in Seq(Items) /\ Data(t) \subseteq Data(r)
        BY <3>1, TailIs, DataOfTail
      <4> HIDE DEF t
      <4>2. Data((t \o w) \o b) = Data(t) \cup Data(w) \cup Data(b)
        BY <3>1, <4>1, DataOfPipe
      <4> QED
        BY <4>1, <4>2 DEF t
    <3> QED
      BY <3>3, <3>4, <3>5
  <2> QED
    BY <2>1, <2>2
<1> QED
  BY <1>3, <1>6, <1>8 DEF Carries

LEMMA BreakContactCarries ==
    ASSUME IInv, NEW x \in Sides, NEW r, BreakContact(x, r)
    PROVE  Carries(x)
BY BreakCarries DEF BreakContact

LEMMA ShutdownCarries ==
    ASSUME IInv, NEW x \in Sides, HandleShutdown(x)
    PROVE  Carries(x)
<1>1. recvbuf[x] # <<>>
  BY StepFrom DEF HandleShutdown, Local, ThreadOK
<1> QED
  BY <1>1, BreakCarries DEF HandleShutdown

\* close_contact throws away what the connection holds.
LEMMA CloseCarries ==
    ASSUME IInv, NEW x \in Sides, CloseContact(x)
    PROVE  Carries(x)
<1> DEFINE y == Peer(x)
<1>1. TypeOK /\ y \in Sides /\ y # x /\ Peer(y) = x
  BY StepFrom
<1>2. /\ recvbuf' = Put(recvbuf, x, <<>>) /\ sendbuf' = Put(sendbuf, x, <<>>) /\ wire' = wire
      /\ conn' = Put(conn, x, "closed")
  BY DEF CloseContact
<1>3. \A s \in Sides : Running(s)' => Running(s)
  BY <1>1, <1>2 DEF Running, Put, TypeOK
<1>4. /\ Pipe(y) = Pipe(y)' \o sendbuf[x] /\ sendbuf[x] \in Seq(Items)
      /\ Pipe(y)' \in Seq(Items)
  BY <1>1, <1>2, ClosePipe
<1>5. Data(Pipe(y))' \subseteq Data(Pipe(y))
  <2> DEFINE p == Pipe(y)'
             q == sendbuf[x]
  <2>1. Data(p \o q) = Data(p) \cup Data(q)
    <3> HIDE DEF p, q
    <3> QED
      BY <1>4, DataJoined DEF p, q
  <2> QED
    BY <1>4, <2>1
<1>6. Data(Pipe(x))' \subseteq Data(Pipe(x))
  <2> DEFINE r == recvbuf[x]
             w == wire[y]
             b == sendbuf[y]
             e == <<>>
  <2>1. r \in Seq(Items) /\ w \in Seq(Items) /\ b \in Seq(Items) /\ e \in Seq(Items)
    BY <1>1 DEF TypeOK
  <2>2. recvbuf'[x] = e /\ sendbuf'[y] = b /\ wire'[y] = w
    BY <1>1, <1>2 DEF TypeOK, Put
  <2>3. Pipe(x)' = (e \o w) \o b /\ Pipe(x) = (r \o w) \o b
    BY <2>2 DEF Pipe
  <2>4. Data(e) = {}
    <3>1. 1..Len(<<>>) = {}
      OBVIOUS
    <3> QED
      BY <3>1 DEF Data
  <2> HIDE DEF r, w, b, e
  <2>6. Data((r \o w) \o b) = Data(r) \cup Data(w) \cup Data(b)
    BY <2>1, DataOfPipe
  <2>7. Data((e \o w) \o b) = Data(e) \cup Data(w) \cup Data(b)
    BY <2>1, DataOfPipe
  <2> QED
    BY <2>3, <2>4, <2>6, <2>7
<1> QED
  BY <1>3, <1>5, <1>6 DEF Carries

\* What each step but a cancellation and a reconnection does.
LEMMA StepCarries ==
    ASSUME IInv, NEW x \in Sides, Thread(x) \/ CloseContact(x) \/ \E r \in Breaks : BreakContact(x, r)
    PROVE  Carries(x) /\ cancelled' = cancelled
<1> USE DEF posted
<1>1. CASE ContinueSegment(x) \/ SendNextSegment(x) \/ StartNextBundle(x)
  BY <1>1, ContinueCarries, NextSegmentCarries, StartCarries
     DEF ContinueSegment, SendNextSegment, StartNextBundle
<1>2. CASE SendPendingAcks(x) \/ Flush(x) \/ SendKeepalive(x) \/ Read(x)
  BY <1>2, AcksCarry, FlushCarries, KeepaliveCarries, ReadCarries
     DEF SendPendingAcks, Flush, SendKeepalive, Read
<1>3. CASE FinishBundle(x) \/ NothingToSend(x)
  BY <1>3, SameCarries DEF FinishBundle, NothingToSend, receiving
<1>4. CASE \/ HandleContactInitiation(x) \/ HandleDataSegment(x) \/ HandleDataTodo(x)
           \/ HandleAckSegment(x) \/ HandleOther(x)
  <2>1. cancelled' = cancelled
    BY <1>4 DEF HandleContactInitiation, HandleDataSegment, HandleDataTodo, HandleAckSegment,
                HandleOther
  <2> QED
    BY <1>4, <2>1, ReceiveCarries
<1>5. CASE HandleShutdown(x) \/ \E r \in Breaks : BreakContact(x, r)
  <2>1. cancelled' = cancelled
    BY <1>5 DEF HandleShutdown, BreakContact, Break
  <2> QED
    BY <1>5, <2>1, ShutdownCarries, BreakContactCarries
<1>6. CASE CloseContact(x)
  BY <1>6, CloseCarries DEF CloseContact
<1> QED
  BY <1>1, <1>2, <1>3, <1>4, <1>5, <1>6 DEF Thread, SendNext, Process

\* A cancelled bundle has put nothing on the way.
LEMMA CancelCarried ==
    ASSUME IInv, Held, Carried, NEW x \in Sides, NEW c \in Cancels, CancelBundle(x, c)
    PROVE  Carried'
<1> DEFINE y == Peer(x)
           F == inflight[x]
<1>1. y \in Sides /\ y # x /\ Sides = {x, y} /\ Peer(y) = x
  BY PeerIs
<1>2. /\ wire' = wire /\ sendbuf' = sendbuf /\ recvbuf' = recvbuf /\ conn' = conn
      /\ cancelled' = cancelled \cup {c} /\ Running(x)
  BY DEF CancelBundle, receiving
<1>3. PICK k \in DOMAIN F : F[k].bundle = c /\ F[k].sent = 0 /\ sendTodo[x] = 0
  BY DEF CancelBundle, Cancellable
<1>4. F \in Seq(Flights) /\ k \in 1..Len(F)
  <2>1. F \in Seq(Flights)
    BY DEF IInv, TypeOK
  <2> HIDE DEF F
  <2> QED
    BY <1>3, <2>1
<1>5. Running(y) => c \notin Data(Pipe(y))
  <2> SUFFICES ASSUME Running(y) PROVE c \notin Data(Pipe(y))
    OBVIOUS
  <2>1. PICK o \in Seq(Bundles), a \in Nat : InStep(x, o, a) /\ SentOnce(x, o)
    BY DEF IInv, Transfers
  <2>2. PICK q \in DataPlaces : DataRun(o, ReceiverPlace(x, o, a), Pipe(y), q)
    BY <2>1 DEF InStep, DataAgrees
  <2>3. Data(Pipe(y)) \subseteq ToSet(o)
    <3> DEFINE p == Pipe(y)
               z == ReceiverPlace(x, o, a)
    <3>1. p \in Seq(Items) /\ DataRun(o, z, p, q)
      BY <1>1, <2>2, PipeType DEF IInv
    <3> HIDE DEF p, z
    <3>2. Data(p) \subseteq ToSet(o)
      BY <2>1, <3>1, DataOfRun
    <3> QED
      BY <3>2 DEF p
  <2>4. k = Len(F)
    <3>1. /\ FlightsOK(o, arrived, F, current[x], 0) /\ current[x] \in Bundles \cup {NoBundle}
          /\ arrived \in [Bundles -> Nat]
      BY <1>3, <2>1 DEF InStep, EndsOK, IInv, TypeOK
    <3> HIDE DEF F
    <3> QED
      BY <1>3, <1>4, <2>1, <3>1, CancelFlight
  <2>5. Unsent(F, sendTodo[x]) /\ Last(F).bundle = c
    <3>1. F # <<>> /\ Last(F) = F[k]
      BY <1>4, <2>4 DEF Last
    <3> QED
      BY <1>3, <3>1 DEF Unsent
  <2>6. c \notin ToSet(o)
    BY <1>2, <2>1, <2>5 DEF SentOnce
  <2> QED
    BY <2>3, <2>6
<1>6. c \in Range(Queued[x])
  <2>1. Goes(x, c, 0)
    BY CancelIs
  <2>2. c \in Moving(x)
    BY <2>1, SideGoes
  <2> QED
    BY <2>2 DEF Held, HeldOK, Apportioned
<1>7. c \notin Range(Queued[y])
  BY <1>1, <1>6, QueuedAssumption
<1>8. /\ Running(y) => Data(Pipe(y)) \subseteq Sendable(x)
      /\ Running(x) => Data(Pipe(x)) \subseteq Sendable(y)
  BY <1>1 DEF Carried
<1>9. \A s \in Sides : (Running(s)' <=> Running(s)) /\ Data(Pipe(s))' = Data(Pipe(s))
  BY <1>2 DEF Running, Pipe
<1> HIDE DEF y
<1>10. /\ Running(y)' => Data(Pipe(y))' \subseteq Sendable(x)'
       /\ Running(x)' => Data(Pipe(x))' \subseteq Sendable(y)'
  BY <1>1, <1>2, <1>5, <1>7, <1>8, <1>9 DEF Sendable
<1>11. ASSUME NEW s \in Sides PROVE Running(Peer(s))' => Data(Pipe(Peer(s)))' \subseteq Sendable(s)'
  <2>1. CASE s = x
    BY <1>10, <2>1 DEF y
  <2>2. CASE s = y
    BY <1>1, <1>10, <2>2
  <2> QED
    BY <1>1, <2>1, <2>2
<1> QED
  BY <1>11 DEF Carried

\* A new connection begins with its headers.
HeadersOnly == \A s \in Sides : Data(Pipe(s)) = {}

LEMMA HeadersCarried == HeadersOnly => Carried
BY PeerIs DEF HeadersOnly, Carried

LEMMA HeaderPipe ==
    ASSUME NEW s, recvbuf[s] = <<>>, wire[Peer(s)] = <<Header>>, sendbuf[Peer(s)] = <<>>
    PROVE  Data(Pipe(s)) = {}
<1> DEFINE e == Header
           n == <<>>
           h == <<e>>
<1>1. e \in Items /\ e.type # "data"
  BY DEF Items, Header
<1>2. Pipe(s) = (n \o h) \o n
  BY DEF Pipe
<1>3. n \in Seq(Items) /\ Data(n) = {}
  <2>1. 1..Len(<<>>) = {}
    OBVIOUS
  <2> QED
    BY <2>1 DEF Data
<1> HIDE DEF e, n
<1>4. h \in Seq(Items) /\ Data(h) = {}
  BY <1>1, OneItem
<1> HIDE DEF h
<1>5. Data((n \o h) \o n) = Data(n) \cup Data(h) \cup Data(n)
  BY <1>3, <1>4, DataOfPipe
<1> QED
  BY <1>2, <1>3, <1>4, <1>5

NewPipes == \A s \in Sides : recvbuf[s] = <<>> /\ wire[s] = <<Header>> /\ sendbuf[s] = <<>>

LEMMA NewCarried == NewPipes => Carried
<1>1. NewPipes => HeadersOnly
  BY HeaderPipe, PeerIs DEF NewPipes, HeadersOnly
<1> QED
  BY <1>1, HeadersCarried

LEMMA InitCarried == Init => Carried
<1>1. Init => NewPipes
  BY DEF Init, NewPipes
<1> QED
  BY <1>1, NewCarried

LEMMA ReconnectCarried ==
    ASSUME IInv, Reconnect
    PROVE  Carried'
<1>1. \A s \in Sides : sendbuf[s] = <<>> /\ recvbuf[s] = <<>>
  BY DEF IInv, ThreadOK, Reconnect
<1>2. NewPipes'
  BY <1>1 DEF Reconnect, NewPipes, receiving
<1> QED
  BY <1>2, NewCarried, PTL

LEMMA NextCarried ==
    ASSUME IInv, Held, Carried, Held', [Next]_vars
    PROVE  Carried'
<1>1. ASSUME NEW x \in Sides,
             Thread(x) \/ CloseContact(x) \/ \E r \in Breaks : BreakContact(x, r)
      PROVE  Carried'
  BY <1>1, StepCarries, CarriedFrom
<1>2. ASSUME NEW x \in Sides, NEW b \in Cancels, CancelBundle(x, b) PROVE Carried'
  BY <1>2, CancelCarried
<1>3. CASE Reconnect
  BY <1>3, ReconnectCarried
<1>4. CASE UNCHANGED vars
  BY <1>4 DEF vars, receiving, posted, Carried, Running, Sendable, Data, Pipe
<1> QED
  BY <1>1, <1>2, <1>3, <1>4 DEF Next

-----------------------------------------------------------------------------
(* The status of a bundle in the abstract transfer.                        *)

LEMMA MaxWithZero ==
    ASSUME NEW n \in Nat
    PROVE  Max({0} \cup {n}) = n /\ Max({0}) = 0
<1> DEFINE S == {0} \cup {n}
           P(m) == m \in S /\ \A k \in S : m >= k
<1>1. n \in S /\ (\A k \in S : n >= k) /\ \A m : m \in S /\ (\A k \in S : m >= k) => m = n
  OBVIOUS
<1>2. Max(S) \in S /\ \A k \in S : Max(S) >= k
  <2> HIDE DEF S
  <2> QED
    BY <1>1 DEF Max
<1>3. Max(S) = n
  <2> HIDE DEF S
  <2> QED
    BY <1>1, <1>2
<1>4. Max({0}) = 0
  BY DEF Max
<1> QED
  BY <1>3, <1>4

Flies(b) == \E s \in Sides, n \in Nat : Goes(s, b, n) \/ Stops(s, b, n)
Tolds(b) == \E s \in Sides, n \in Nat : Tells(s, b, n)
Ackeds(b) == {f.acked : f \in InFlight(b) \cup Reports(b)}

\* What is in flight and what was reported of a bundle.
LEMMA FlightsAndReports ==
    ASSUME IInv, NEW b \in Bundles
    PROVE  /\ InFlight(b) # {} <=> Flies(b)
           /\ Reports(b) # {} <=> Tolds(b)
           /\ \A n : n \in Ackeds(b) <=>
                 \E s \in Sides : Goes(s, b, n) \/ Stops(s, b, n) \/ Tells(s, b, n)
<1>1. ASSUME NEW s \in Sides
      PROVE  /\ inflight[s] \in Seq(Flights) /\ DOMAIN inflight[s] = 1..Len(inflight[s])
             /\ transmitted[s] \in Seq(TransmittedEvents)
             /\ DOMAIN transmitted[s] = 1..Len(transmitted[s])
  <2>1. inflight[s] \in Seq(Flights) /\ transmitted[s] \in Seq(TransmittedEvents)
    BY DEF IInv, TypeOK, TransmittedEvents
  <2> QED
    BY <2>1
<1>2. ASSUME NEW f
      PROVE  f \in InFlight(b) <=>
                \E s \in Sides : \E i \in 1..Len(inflight[s]) : f = inflight[s][i] /\ f.bundle = b
  BY <1>1 DEF InFlight, Range
<1>3. ASSUME NEW r
      PROVE  r \in Reports(b) <=>
                \E s \in Sides : \E i \in 1..Len(transmitted[s]) : r = transmitted[s][i] /\ r.bundle = b
  BY <1>1 DEF Reports, Range
<1>4. ASSUME NEW f \in InFlight(b)
      PROVE  \E s \in Sides : f.acked \in Nat /\ (Goes(s, b, f.acked) \/ Stops(s, b, f.acked))
  <2>0. PICK s \in Sides : \E i \in 1..Len(inflight[s]) : f = inflight[s][i] /\ f.bundle = b
    BY <1>2
  <2>1. PICK i \in 1..Len(inflight[s]) : f = inflight[s][i] /\ f.bundle = b
    BY <2>0
  <2>2. f \in Flights
    BY <1>1, <2>0, <2>1
  <2>3. f.acked \in Nat
    BY <2>2 DEF Flights
  <2>4. Goes(s, b, f.acked) \/ Stops(s, b, f.acked)
    BY <2>1 DEF Goes, GoesIn, Stops, StopsIn
  <2> QED
    BY <2>0, <2>3, <2>4
<1>5. ASSUME NEW r \in Reports(b)
      PROVE  \E s \in Sides : r.acked \in Nat /\ Tells(s, b, r.acked)
  <2>0. PICK s \in Sides : \E i \in 1..Len(transmitted[s]) : r = transmitted[s][i] /\ r.bundle = b
    BY <1>3
  <2>1. PICK i \in 1..Len(transmitted[s]) : r = transmitted[s][i] /\ r.bundle = b
    BY <2>0
  <2>2. r \in TransmittedEvents
    BY <1>1, <2>0, <2>1
  <2>3. r.acked \in Nat
    BY <2>2 DEF TransmittedEvents
  <2>4. Tells(s, b, r.acked)
    BY <2>1 DEF Tells, ToldIn
  <2> QED
    BY <2>0, <2>3, <2>4
<1>6. ASSUME NEW s \in Sides, NEW n, Goes(s, b, n) \/ Stops(s, b, n)
      PROVE  \E f \in InFlight(b) : f.acked = n
  <2>1. PICK i \in 1..Len(inflight[s]) : inflight[s][i].bundle = b /\ inflight[s][i].acked = n
    BY <1>6 DEF Goes, GoesIn, Stops, StopsIn
  <2> QED
    BY <1>2, <2>1
<1>7. ASSUME NEW s \in Sides, NEW n, Tells(s, b, n)
      PROVE  \E r \in Reports(b) : r.acked = n
  <2>1. PICK i \in 1..Len(transmitted[s]) : transmitted[s][i].bundle = b /\ transmitted[s][i].acked = n
    BY <1>7 DEF Tells, ToldIn
  <2> QED
    BY <1>3, <2>1
<1>8. InFlight(b) # {} <=> Flies(b)
  BY <1>4, <1>6 DEF Flies
<1>9. Reports(b) # {} <=> Tolds(b)
  BY <1>5, <1>7 DEF Tolds
<1>10. ASSUME NEW n
       PROVE  n \in Ackeds(b) <=>
                 \E s \in Sides : Goes(s, b, n) \/ Stops(s, b, n) \/ Tells(s, b, n)
  <2>1. ASSUME n \in Ackeds(b)
        PROVE  \E s \in Sides : Goes(s, b, n) \/ Stops(s, b, n) \/ Tells(s, b, n)
    <3>1. PICK f \in InFlight(b) \cup Reports(b) : n = f.acked
      BY <2>1 DEF Ackeds
    <3>2. CASE f \in InFlight(b)
      BY <1>4, <3>1, <3>2
    <3>3. CASE f \in Reports(b)
      BY <1>5, <3>1, <3>3
    <3> QED
      BY <3>1, <3>2, <3>3
  <2>2. ASSUME NEW s \in Sides, Goes(s, b, n) \/ Stops(s, b, n) \/ Tells(s, b, n)
        PROVE  n \in Ackeds(b)
    <3>1. \E f \in InFlight(b) \cup Reports(b) : f.acked = n
      BY <1>6, <1>7, <2>2
    <3> QED
      BY <3>1 DEF Ackeds
  <2> QED
    BY <2>1, <2>2
<1> QED
  BY <1>8, <1>9, <1>10

\* Where bundle b is, and how much of it is acknowledged.
Lies(b, st, n) ==
    \/ st = "cancelled" /\ n = 0 /\ b \in cancelled
    \/ st = "done" /\ n \in Nat /\ \E s \in Sides : Tells(s, b, n)
    \/ st = "moving" /\ n \in Nat /\ \E s \in Sides : Goes(s, b, n)
    \/ /\ st = "waiting" /\ n = 0 /\ b \notin cancelled
       /\ \A s \in Sides, m \in Nat : ~Goes(s, b, m) /\ ~Tells(s, b, m)

LEMMA LiesSomewhere ==
    ASSUME NEW b
    PROVE  \E st, n : Lies(b, st, n) /\ (b \notin cancelled => st # "cancelled")
<1>1. CASE b \in cancelled
  BY <1>1 DEF Lies
<1>2. CASE \E s \in Sides, n \in Nat : b \notin cancelled /\ Tells(s, b, n)
  <2>1. PICK s \in Sides, n \in Nat : Tells(s, b, n)
    BY <1>2
  <2>2. Lies(b, "done", n)
    BY <2>1 DEF Lies
  <2> QED
    BY <2>2
<1>3. CASE \E s \in Sides, n \in Nat : b \notin cancelled /\ Goes(s, b, n)
  <2>1. PICK s \in Sides, n \in Nat : Goes(s, b, n)
    BY <1>3
  <2>2. Lies(b, "moving", n)
    BY <2>1 DEF Lies
  <2> QED
    BY <2>2
<1>4. CASE b \notin cancelled /\ \A s \in Sides, m \in Nat : ~Goes(s, b, m) /\ ~Tells(s, b, m)
  BY <1>4 DEF Lies
<1> QED
  BY <1>1, <1>2, <1>3, <1>4

\* The sides do not share bundles.
LEMMA BundleApart ==
    ASSUME IInv, Held, NEW s \in Sides, NEW t \in Sides, NEW b, NEW m, NEW n
    PROVE  /\ Goes(s, b, m) => ~Tells(t, b, n) /\ b \notin cancelled /\ (Goes(t, b, n) => t = s /\ m = n)
           /\ Tells(s, b, m) => b \notin cancelled /\ (Tells(t, b, n) => t = s /\ m = n)
           /\ Stops(s, b, m) => Tells(s, b, m)
<1>1. HeldOK(s) /\ HeldOK(t)
  BY DEF Held
<1>2. /\ Goes(s, b, m) => b \in Moving(s)
      /\ Goes(t, b, n) => b \in Moving(t)
      /\ Tells(s, b, m) => b \in Told(s)
      /\ Tells(t, b, n) => b \in Told(t)
      /\ Goes(s, b, m) /\ Goes(s, b, n) => m = n
  BY SideGoes
<1>3. s # t => /\ Moving(s) \cap ((Waiting(t) \cup Moving(t)) \cup Told(t)) = {}
               /\ Told(s) \cap ((Waiting(t) \cup Moving(t)) \cup Told(t)) = {}
  BY Others
<1>4. /\ Moving(s) \cap Told(s) = {} /\ Moving(s) \cap cancelled = {} /\ Told(s) \cap cancelled = {}
      /\ \A c, k : Stops(s, c, k) => Tells(s, c, k)
  BY <1>1 DEF HeldOK, Apportioned
<1>5. Tells(s, b, m) /\ Tells(s, b, n) => m = n
  BY <1>1 DEF HeldOK, ToldOnce, Tells, ToldIn
<1>6. Goes(s, b, m) => ~Tells(t, b, n) /\ b \notin cancelled /\ (Goes(t, b, n) => t = s /\ m = n)
  BY <1>2, <1>3, <1>4
<1>7. Tells(s, b, m) => b \notin cancelled /\ (Tells(t, b, n) => t = s /\ m = n)
  BY <1>2, <1>3, <1>4, <1>5
<1> QED
  BY <1>4, <1>6, <1>7

\* The abstract status is where the bundle is.
LEMMA LiesIs ==
    ASSUME IInv, Held, NEW b \in Bundles, NEW st, NEW n, Lies(b, st, n)
    PROVE  Status(b) = st /\ Confirmed(b) = n
<1>1. /\ InFlight(b) # {} <=> Flies(b)
      /\ Reports(b) # {} <=> Tolds(b)
      /\ \A m : m \in Ackeds(b) <=>
            \E s \in Sides : Goes(s, b, m) \/ Stops(s, b, m) \/ Tells(s, b, m)
  BY FlightsAndReports
<1>2. Confirmed(b) = Max({0} \cup Ackeds(b))
  BY DEF Confirmed, Ackeds
<1>3. \A s \in Sides : \A m : (Goes(s, b, m) \/ Stops(s, b, m) \/ Tells(s, b, m)) => m \in Nat
  BY SideGoes
<1>4. \A s, t \in Sides : \A m, k :
         /\ Goes(s, b, m) => ~Tells(t, b, k) /\ b \notin cancelled /\ (Goes(t, b, k) => t = s /\ m = k)
         /\ Tells(s, b, m) => b \notin cancelled /\ (Tells(t, b, k) => t = s /\ m = k)
         /\ Stops(s, b, m) => Tells(s, b, m)
  BY BundleApart
<1>5. CASE st = "cancelled" /\ n = 0 /\ b \in cancelled
  <2>1. Ackeds(b) = {}
    BY <1>1, <1>4, <1>5
  <2>2. Confirmed(b) = 0
    <3>1. {0} \cup {} = {0} /\ 0 \in Nat
      OBVIOUS
    <3> QED
      BY <1>2, <2>1, <3>1, MaxWithZero
  <2> QED
    BY <1>5, <2>2 DEF Status
<1>6. CASE st = "done" /\ n \in Nat /\ \E s \in Sides : Tells(s, b, n)
  <2>1. PICK s \in Sides : Tells(s, b, n)
    BY <1>6
  <2>2. b \notin cancelled /\ Tolds(b)
    BY <1>4, <1>6, <2>1 DEF Tolds
  <2>3. Ackeds(b) = {n}
    <3>1. \A t \in Sides : \A m : (Goes(t, b, m) \/ Stops(t, b, m) \/ Tells(t, b, m)) => m = n
      BY <1>4, <2>1
    <3>2. \A m : m \in Ackeds(b) <=> m = n
      BY <1>1, <2>1, <3>1
    <3> QED
      BY <3>2
  <2>4. Confirmed(b) = n
    BY <1>2, <1>6, <2>3, MaxWithZero
  <2>5. Status(b) = "done"
    BY <1>1, <2>2 DEF Status
  <2> QED
    BY <1>6, <2>4, <2>5
<1>7. CASE st = "moving" /\ n \in Nat /\ \E s \in Sides : Goes(s, b, n)
  <2>1. PICK s \in Sides : Goes(s, b, n)
    BY <1>7
  <2>2. b \notin cancelled /\ Flies(b) /\ ~Tolds(b)
    BY <1>4, <1>7, <2>1 DEF Flies, Tolds
  <2>3. Ackeds(b) = {n}
    BY <1>1, <1>4, <2>1
  <2>4. Confirmed(b) = n
    BY <1>2, <1>7, <2>3, MaxWithZero
  <2>5. Status(b) = "moving"
    BY <1>1, <2>2 DEF Status
  <2> QED
    BY <1>7, <2>4, <2>5
<1>8. CASE /\ st = "waiting" /\ n = 0 /\ b \notin cancelled
           /\ \A s \in Sides, m \in Nat : ~Goes(s, b, m) /\ ~Tells(s, b, m)
  <2>1. \A s \in Sides : \A m : ~Goes(s, b, m) /\ ~Tells(s, b, m) /\ ~Stops(s, b, m)
    BY <1>3, <1>4, <1>8
  <2>2. Ackeds(b) = {} /\ ~Flies(b) /\ ~Tolds(b)
    BY <1>1, <2>1 DEF Flies, Tolds
  <2>3. Confirmed(b) = 0
    <3>1. {0} \cup {} = {0} /\ 0 \in Nat
      OBVIOUS
    <3> QED
      BY <1>2, <2>2, <3>1, MaxWithZero
  <2>4. Status(b) = "waiting"
    BY <1>1, <1>8, <2>2 DEF Status
  <2> QED
    BY <1>8, <2>3, <2>4
<1> QED
  BY <1>5, <1>6, <1>7, <1>8 DEF Lies

\* Nothing is seen of bundle b in a step.
Unseen(b) ==
    /\ b \in cancelled' <=> b \in cancelled
    /\ \A s \in Sides : \A n : (Goes(s, b, n)' <=> Goes(s, b, n)) /\ (Tells(s, b, n)' <=> Tells(s, b, n))

StatusOf == [b \in Bundles |-> Status(b)]
ConfirmedOf == [b \in Bundles |-> Confirmed(b)]

Found == \A b \in Bundles : \A st, n : Lies(b, st, n) => Status(b) = st /\ Confirmed(b) = n

LEMMA AllFound == IInv /\ Held => Found
BY LiesIs DEF Found

LEMMA UnseenSame ==
    ASSUME Found, Found', NEW b \in Bundles, Unseen(b)
    PROVE  Status(b)' = Status(b) /\ Confirmed(b)' = Confirmed(b)
<1>1. PICK st, n : Lies(b, st, n)
  BY LiesSomewhere
<1>2. Lies(b, st, n)'
  BY <1>1 DEF Lies, Unseen
<1> QED
  BY <1>1, <1>2 DEF Found

\* A step that changes the status of one bundle at most.
LEMMA OneSeen ==
    ASSUME Found, Found', NEW c \in Bundles, NEW st, NEW n, NEW st2, NEW n2,
           Lies(c, st, n), Lies(c, st2, n2)',
           \A b \in Bundles : b # c => Unseen(b)
    PROVE  /\ StatusOf[c] = st /\ ConfirmedOf[c] = n
           /\ StatusOf' = [StatusOf EXCEPT ![c] = st2]
           /\ ConfirmedOf' = [ConfirmedOf EXCEPT ![c] = n2]
<1>1. Status(c) = st /\ Confirmed(c) = n /\ Status(c)' = st2 /\ Confirmed(c)' = n2
  BY DEF Found
<1>2. \A b \in Bundles : b # c => Status(b)' = Status(b) /\ Confirmed(b)' = Confirmed(b)
  BY UnseenSame
<1>3. StatusOf' = [StatusOf EXCEPT ![c] = st2]
  BY <1>1, <1>2 DEF StatusOf
<1>4. ConfirmedOf' = [ConfirmedOf EXCEPT ![c] = n2]
  BY <1>1, <1>2 DEF ConfirmedOf
<1> QED
  BY <1>1, <1>3, <1>4 DEF StatusOf, ConfirmedOf

LEMMA NoneSeen ==
    ASSUME Found, Found', \A b \in Bundles : Unseen(b)
    PROVE  StatusOf' = StatusOf /\ ConfirmedOf' = ConfirmedOf
BY UnseenSame DEF StatusOf, ConfirmedOf

LEMMA UnnoticedUnseen ==
    ASSUME Unnoticed, NEW b
    PROVE  Unseen(b)
BY UnnoticedSame DEF Unseen, Unnoticed

\* The steps of the abstract transfer, in these terms.
Unchanging == StatusOf' = StatusOf /\ ConfirmedOf' = ConfirmedOf /\ arrived' = arrived /\ Handed' = Handed

LEMMA AbstractStutter ==
    ASSUME Unchanging
    PROVE  UNCHANGED Abstract!vars
BY DEF Unchanging, Abstract!vars, StatusOf, ConfirmedOf

LEMMA AbstractTake ==
    ASSUME NEW c \in Bundles, StatusOf[c] = "waiting",
           StatusOf' = [StatusOf EXCEPT ![c] = "moving"], ConfirmedOf' = ConfirmedOf,
           arrived' = arrived, Handed' = Handed
    PROVE  Abstract!Next
<1>1. Abstract!Take(c)
  BY DEF Abstract!Take, StatusOf, ConfirmedOf
<1> QED
  BY <1>1 DEF Abstract!Next

LEMMA AbstractCancel ==
    ASSUME NEW c \in Bundles, StatusOf[c] = "moving", ConfirmedOf[c] = 0,
           StatusOf' = [StatusOf EXCEPT ![c] = "cancelled"], ConfirmedOf' = ConfirmedOf,
           arrived' = arrived, Handed' = Handed
    PROVE  Abstract!Next
<1>1. Abstract!Cancel(c)
  BY DEF Abstract!Cancel, StatusOf, ConfirmedOf
<1> QED
  BY <1>1 DEF Abstract!Next

LEMMA AbstractConfirm ==
    ASSUME NEW c \in Bundles, NEW n \in 1..Length[c], StatusOf[c] = "moving",
           n > ConfirmedOf[c], n <= arrived[c],
           StatusOf' = [StatusOf EXCEPT ![c] = IF n = Length[c] THEN "done" ELSE "moving"],
           ConfirmedOf' = [ConfirmedOf EXCEPT ![c] = n],
           arrived' = arrived, Handed' = Handed
    PROVE  Abstract!Next
<1>1. Abstract!Confirm(c, n)
  BY DEF Abstract!Confirm, StatusOf, ConfirmedOf
<1> QED
  BY <1>1 DEF Abstract!Next

LEMMA AbstractArrive ==
    ASSUME NEW c \in Bundles, NEW n \in 1..Length[c], StatusOf[c] # "cancelled", n > arrived[c],
           StatusOf' = StatusOf, ConfirmedOf' = ConfirmedOf,
           arrived' = [arrived EXCEPT ![c] = n],
           Handed' = IF n = Length[c] THEN Handed \cup {c} ELSE Handed
    PROVE  Abstract!Next
<1>1. n <= Length[c]
  BY LengthType
<1>2. Abstract!Arrive(c, n)
  BY <1>1 DEF Abstract!Arrive, StatusOf, ConfirmedOf
<1> QED
  BY <1>2 DEF Abstract!Next

LEMMA AbstractEnd ==
    ASSUME NEW S \in SUBSET Bundles, S # {}, \A b \in S : StatusOf[b] = "moving",
           StatusOf' = [b \in Bundles |-> IF b \in S
                                          THEN IF ConfirmedOf[b] = 0 THEN "waiting" ELSE "done"
                                          ELSE StatusOf[b]],
           ConfirmedOf' = ConfirmedOf, arrived' = arrived, Handed' = Handed
    PROVE  Abstract!Next
<1>1. Abstract!End(S)
  BY DEF Abstract!End, StatusOf, ConfirmedOf
<1> QED
  BY <1>1 DEF Abstract!Next

-----------------------------------------------------------------------------
(* The steps of the connections are steps of the transfer.                 *)

LEMMA SideUnseen ==
    ASSUME NEW x \in Sides, Spared(Peer(x)), NEW b, b \in cancelled' <=> b \in cancelled,
           \A n : (Goes(x, b, n)' <=> Goes(x, b, n)) /\ (Tells(x, b, n)' <=> Tells(x, b, n))
    PROVE  Unseen(b)
<1> DEFINE y == Peer(x)
<1>1. Sides = {x, y}
  BY PeerIs
<1>2. \A n : (Goes(y, b, n)' <=> Goes(y, b, n)) /\ (Tells(y, b, n)' <=> Tells(y, b, n))
  BY SparedSame
<1> HIDE DEF y
<1> QED
  BY <1>1, <1>2 DEF Unseen

\* No side has a bundle in flight or reported that waits at one of them.
LEMMA WaitingLies ==
    ASSUME IInv, Held, NEW x \in Sides, NEW c \in Waiting(x)
    PROVE  Lies(c, "waiting", 0)
<1>1. HeldOK(x)
  BY DEF Held
<1>2. c \notin cancelled /\ c \notin Moving(x) /\ c \notin Told(x)
  BY <1>1 DEF HeldOK, Apportioned
<1>3. \A s \in Sides : c \notin Moving(s) /\ c \notin Told(s)
  BY <1>2, Others
<1>4. \A s \in Sides : \A m : ~Goes(s, c, m) /\ ~Tells(s, c, m)
  BY <1>3, SideGoes
<1> QED
  BY <1>2, <1>4 DEF Lies

\* The event that a bundle arrived whole is the last one of a step at most.
LEMMA HandedSame ==
    ASSUME received' = received PROVE Handed' = Handed
BY DEF Handed

LEMMA StartTakes ==
    ASSUME IInv, Held, Found, Found', NEW x \in Sides, StartNextBundle(x)
    PROVE  Abstract!Next
<1>1. PICK c : c = Head(queue[x])
  OBVIOUS
<1>2. /\ Spared(Peer(x)) /\ cancelled' = cancelled /\ transmitted' = transmitted
      /\ c \in Waiting(x)
      /\ \A b, n : Goes(x, b, n)' <=> Goes(x, b, n) \/ (b = c /\ n = 0)
      /\ \A b, n : Tells(x, b, n)' <=> Tells(x, b, n)
  BY <1>1, StartIs
<1>3. c \in Bundles /\ arrived' = arrived /\ received' = received
  BY <1>1 DEF IInv, TypeOK, StartNextBundle, posted
<1> DEFINE z == 0
<1>4. z \in Nat /\ Lies(c, "waiting", z)
  BY <1>2, WaitingLies
<1>5. Lies(c, "moving", z)'
  <2>1. Goes(x, c, z)'
    BY <1>2
  <2> HIDE DEF z
  <2> QED
    BY <1>4, <2>1 DEF Lies
<1>6. ASSUME NEW b \in Bundles, b # c PROVE Unseen(b)
  <2>1. \A n : (Goes(x, b, n)' <=> Goes(x, b, n)) /\ (Tells(x, b, n)' <=> Tells(x, b, n))
    BY <1>2, <1>6
  <2> QED
    BY <1>2, <2>1, SideUnseen
<1> HIDE DEF z
<1>7. /\ StatusOf[c] = "waiting" /\ ConfirmedOf[c] = z
      /\ StatusOf' = [StatusOf EXCEPT ![c] = "moving"]
      /\ ConfirmedOf' = [ConfirmedOf EXCEPT ![c] = z]
  BY <1>3, <1>4, <1>5, <1>6, OneSeen
<1>8. ConfirmedOf' = ConfirmedOf
  BY <1>7 DEF ConfirmedOf
<1>9. Handed' = Handed
  BY <1>3, HandedSame
<1> QED
  BY <1>3, <1>7, <1>8, <1>9, AbstractTake

LEMMA CancelCancels ==
    ASSUME IInv, Held, Found, Found', NEW x \in Sides, NEW c \in Cancels, CancelBundle(x, c)
    PROVE  Abstract!Next
<1> DEFINE z == 0
<1>1. /\ Spared(Peer(x)) /\ cancelled' = cancelled \cup {c} /\ Goes(x, c, z)
      /\ \A b, n : Goes(x, b, n)' <=> b # c /\ Goes(x, b, n)
      /\ \A b, n : Tells(x, b, n)' <=> Tells(x, b, n)
  BY CancelIs
<1>2. c \in Bundles /\ arrived' = arrived /\ received' = received
  BY ParamsAssumption DEF CancelBundle
<1>3. Lies(c, "moving", z) /\ Lies(c, "cancelled", z)'
  BY <1>1 DEF Lies
<1>4. ASSUME NEW b \in Bundles, b # c PROVE Unseen(b)
  <2>1. \A n : (Goes(x, b, n)' <=> Goes(x, b, n)) /\ (Tells(x, b, n)' <=> Tells(x, b, n))
    BY <1>1, <1>4
  <2>2. b \in cancelled' <=> b \in cancelled
    BY <1>1, <1>4
  <2> QED
    BY <1>1, <2>1, <2>2, SideUnseen
<1>5. z = 0
  OBVIOUS
<1> HIDE DEF z
<1>6. /\ StatusOf[c] = "moving" /\ ConfirmedOf[c] = z
      /\ StatusOf' = [StatusOf EXCEPT ![c] = "cancelled"]
      /\ ConfirmedOf' = [ConfirmedOf EXCEPT ![c] = z]
  BY <1>2, <1>3, <1>4, OneSeen
<1>7. ConfirmedOf' = ConfirmedOf
  BY <1>6 DEF ConfirmedOf
<1>8. Handed' = Handed
  BY <1>2, HandedSame
<1> QED
  BY <1>2, <1>5, <1>6, <1>7, <1>8, AbstractCancel

LEMMA AckConfirms ==
    ASSUME IInv, Held, Found, Found', NEW x \in Sides, HandleAckSegment(x)
    PROVE  Abstract!Next
<1>1. PICK c, k, n : /\ c = Head(inflight[x]).bundle /\ k = Head(inflight[x]).acked
                     /\ n = Message(x).len
  OBVIOUS
<1>2. /\ cancelled' = cancelled /\ Spared(Peer(x))
      /\ Goes(x, c, k) /\ k \in Nat /\ n \in Nat /\ n > k /\ n <= arrived[c] /\ n <= Length[c]
      /\ \A b, l : /\ Goes(x, b, l)' <=> \/ b # c /\ Goes(x, b, l)
                                         \/ ~(n = Length[c]) /\ b = c /\ l = n
                   /\ Tells(x, b, l)' <=> Tells(x, b, l) \/ (n = Length[c] /\ b = c /\ l = n)
  BY <1>1, AckIs
<1>3. c \in Bundles /\ arrived' = arrived /\ received' = received
  <2>1. c \in Bundles
    BY <1>2, SideGoes
  <2> QED
    BY <2>1 DEF HandleAckSegment
<1>4. Lies(c, "moving", k)
  BY <1>2 DEF Lies
<1> DEFINE st == IF n = Length[c] THEN "done" ELSE "moving"
<1>5. Lies(c, st, n)'
  <2>1. CASE n = Length[c]
    <3>1. Tells(x, c, n)'
      BY <1>2, <2>1
    <3> QED
      BY <1>2, <2>1, <3>1 DEF Lies
  <2>2. CASE n # Length[c]
    <3>1. Goes(x, c, n)'
      BY <1>2, <2>2
    <3> QED
      BY <1>2, <2>2, <3>1 DEF Lies
  <2> QED
    BY <2>1, <2>2
<1>6. ASSUME NEW b \in Bundles, b # c PROVE Unseen(b)
  <2>1. \A l : (Goes(x, b, l)' <=> Goes(x, b, l)) /\ (Tells(x, b, l)' <=> Tells(x, b, l))
    BY <1>2, <1>6
  <2> QED
    BY <1>2, <2>1, SideUnseen
<1>7. /\ StatusOf[c] = "moving" /\ ConfirmedOf[c] = k
      /\ StatusOf' = [StatusOf EXCEPT ![c] = st]
      /\ ConfirmedOf' = [ConfirmedOf EXCEPT ![c] = n]
  <2> HIDE DEF st
  <2> QED
    BY <1>3, <1>4, <1>5, <1>6, OneSeen
<1>8. Handed' = Handed
  BY <1>3, HandedSame
<1>9. n \in 1..Length[c] /\ n > ConfirmedOf[c]
  BY <1>2, <1>3, <1>7, LengthType
<1> QED
  BY <1>2, <1>3, <1>7, <1>8, <1>9, AbstractConfirm

\* One event more at side x.
LEMMA HandedMore ==
    ASSUME TypeOK, NEW x \in Sides, NEW e,
           received' = Put(received, x, Append(received[x], e))
    PROVE  \A b : b \in Handed' <=> b \in Handed \/ (b \in Bundles /\ e.whole /\ e.data[1].bundle = b)
<1> DEFINE R == received[x]
           S == [data : Seq(Items), whole : BOOLEAN] \cup {e}
           T == Append(R, e)
           n == Len(R)
<1>1. /\ \A s \in Sides : s # x => received'[s] = received[s]
      /\ received'[x] = T
  BY DEF TypeOK, Put
<1>2. R \in Seq(S)
  <2> DEFINE U == [data : Seq(Items), whole : BOOLEAN]
  <2>1. R \in Seq(U) /\ U \subseteq S
    BY DEF TypeOK
  <2> HIDE DEF U, S, R
  <2>2. R \in [1..Len(R) -> S] /\ Len(R) \in Nat
    BY <2>1
  <2> QED
    BY <2>2, SeqDef
<1>3. e \in S
  OBVIOUS
<1> HIDE DEF S
<1>4. /\ n \in Nat /\ Len(T) = n + 1 /\ T[n + 1] = e /\ DOMAIN T = 1..(n + 1) /\ DOMAIN R = 1..n
      /\ \A i \in 1..n : T[i] = R[i]
  BY <1>2, <1>3
<1> HIDE DEF T, n
<1>5. \A d : d \in Range(T) <=> d \in Range(R) \/ d = e
  <2>1. /\ \A i \in 1..(n + 1) : i \in 1..n \/ i = n + 1
        /\ n + 1 \in 1..(n + 1) /\ \A i \in 1..n : i \in 1..(n + 1)
    BY <1>4
  <2> HIDE DEF R
  <2> QED
    BY <1>4, <2>1 DEF Range
<1> HIDE DEF R
<1>6. ASSUME NEW b PROVE b \in Handed' <=> b \in Handed \/ (b \in Bundles /\ e.whole /\ e.data[1].bundle = b)
  <2>1. b \in Handed' <=> b \in Bundles /\ \E s \in Sides : \E d \in Range(received'[s]) :
                                                d.whole /\ d.data[1].bundle = b
    BY DEF Handed
  <2>2. b \in Handed <=> b \in Bundles /\ \E s \in Sides : \E d \in Range(received[s]) :
                                                d.whole /\ d.data[1].bundle = b
    BY DEF Handed
  <2>3. \A s \in Sides : \A d : d \in Range(received'[s]) <=> d \in Range(received[s]) \/ (s = x /\ d = e)
    BY <1>1, <1>5 DEF R
  <2> QED
    BY <2>1, <2>2, <2>3
<1> QED
  BY <1>6

LEMMA CloseEnds ==
    ASSUME Reactive, IInv, Held, Found, Found', NEW x \in Sides, CloseContact(x)
    PROVE  Abstract!Next \/ UNCHANGED Abstract!vars
<1>1. /\ cancelled' = cancelled /\ Spared(Peer(x))
      /\ \A b, n : /\ ~Goes(x, b, n)'
                   /\ Tells(x, b, n)' <=> Tells(x, b, n) \/ (Goes(x, b, n) /\ n > 0)
  BY CloseIs
<1>2. arrived' = arrived
  BY DEF CloseContact
<1>3. Handed' = Handed
  <2> DEFINE e == [data |-> Last(incoming[x]).data, whole |-> FALSE]
  <2>1. received' = received \/ received' = Put(received, x, Append(received[x], e))
    BY DEF CloseContact
  <2>2. e.whole = FALSE
    OBVIOUS
  <2> HIDE DEF e
  <2>3. CASE received' = Put(received, x, Append(received[x], e))
    <3>1. TypeOK
      BY DEF IInv
    <3>2. \A b : b \in Handed' <=> b \in Handed
      BY <2>2, <2>3, <3>1, HandedMore
    <3> QED
      BY <3>2 DEF Handed
  <2> QED
    BY <2>1, <2>3, HandedSame
<1>4. PICK S : S = Moving(x)
  OBVIOUS
<1>5. S \in SUBSET Bundles
  BY <1>4 DEF Moving
<1>6. ASSUME NEW b \in Bundles, b \notin S PROVE Unseen(b)
  <2>1. \A n : ~Goes(x, b, n)
    BY <1>4, <1>6, SideGoes
  <2>2. \A n : (Goes(x, b, n)' <=> Goes(x, b, n)) /\ (Tells(x, b, n)' <=> Tells(x, b, n))
    BY <1>1, <2>1
  <2> QED
    BY <1>1, <2>2, SideUnseen
<1>7. ASSUME NEW b \in S
      PROVE  /\ Status(b) = "moving" /\ Confirmed(b)' = Confirmed(b)
             /\ Status(b)' = IF Confirmed(b) = 0 THEN "waiting" ELSE "done"
  <2>1. PICK n \in Nat : Goes(x, b, n)
    BY <1>4 DEF Moving
  <2>2. b \in Bundles /\ Lies(b, "moving", n)
    BY <1>5, <2>1 DEF Lies
  <2>3. Status(b) = "moving" /\ Confirmed(b) = n
    BY <2>2 DEF Found
  <2> DEFINE z == 0
  <2>4. CASE n = z
    <3>1. \A k : k > 0 => ~Goes(x, b, k)
      BY <2>1, <2>4, SideGoes
    <3>2. b \notin cancelled /\ \A s \in Sides : \A k : ~Tells(s, b, k) /\ (Goes(s, b, k) => s = x)
      BY <2>1, BundleApart
    <3>3. /\ Sides = {x, Peer(x)}
          /\ \A k : (Goes(Peer(x), b, k)' <=> Goes(Peer(x), b, k))
                    /\ (Tells(Peer(x), b, k)' <=> Tells(Peer(x), b, k))
      BY <1>1, PeerIs, SparedSame
    <3>4. Peer(x) \in Sides /\ Peer(x) # x
      BY PeerIs
    <3>5. \A s \in Sides, k \in Nat : ~Goes(s, b, k)' /\ ~Tells(s, b, k)'
      <4> DEFINE y == Peer(x)
      <4>1. \A k : ~Goes(y, b, k)' /\ ~Tells(y, b, k)'
        BY <3>2, <3>3, <3>4
      <4>2. \A k : ~Goes(x, b, k)' /\ ~Tells(x, b, k)'
        BY <1>1, <3>1, <3>2
      <4> HIDE DEF y
      <4>3. \A s \in Sides : s = x \/ s = y
        BY <3>3 DEF y
      <4> QED
        BY <4>1, <4>2, <4>3
    <3>6. Lies(b, "waiting", z)'
      BY <1>1, <3>2, <3>5 DEF Lies
    <3> HIDE DEF z
    <3>7. Status(b)' = "waiting" /\ Confirmed(b)' = z
      BY <2>2, <3>6 DEF Found
    <3> QED
      BY <2>3, <2>4, <3>7 DEF z
  <2>5. CASE n # z
    <3>1. n > 0
      BY <2>5
    <3>2. Tells(x, b, n)'
      BY <1>1, <2>1, <3>1
    <3>3. Lies(b, "done", n)'
      BY <2>1, <3>2 DEF Lies
    <3>4. Status(b)' = "done" /\ Confirmed(b)' = n
      BY <2>2, <3>3 DEF Found
    <3> QED
      BY <2>3, <2>5, <3>4
  <2> QED
    BY <2>4, <2>5
<1>8. \A b \in Bundles : b \notin S => Status(b)' = Status(b) /\ Confirmed(b)' = Confirmed(b)
  BY <1>6, UnseenSame
<1>9. ConfirmedOf' = ConfirmedOf
  BY <1>7, <1>8 DEF ConfirmedOf
<1>10. \A b \in S : StatusOf[b] = "moving"
  BY <1>5, <1>7 DEF StatusOf
<1>11. CASE S = {}
  <2>1. StatusOf' = StatusOf
    BY <1>8, <1>11 DEF StatusOf
  <2> QED
    BY <1>2, <1>3, <1>9, <2>1, AbstractStutter DEF Unchanging
<1>12. CASE S # {}
  <2>1. StatusOf' = [b \in Bundles |-> IF b \in S
                                       THEN IF ConfirmedOf[b] = 0 THEN "waiting" ELSE "done"
                                       ELSE StatusOf[b]]
    <3>1. ASSUME NEW b \in Bundles
          PROVE  Status(b)' = IF b \in S
                              THEN IF ConfirmedOf[b] = 0 THEN "waiting" ELSE "done"
                              ELSE StatusOf[b]
      BY <1>7, <1>8 DEF StatusOf, ConfirmedOf
    <3> QED
      BY <3>1 DEF StatusOf
  <2> QED
    BY <1>2, <1>3, <1>5, <1>9, <1>10, <1>12, <2>1, AbstractEnd
<1> QED
  BY <1>11, <1>12

\* What handle_data_todo does to the longest prefix that arrived, and to the
\* events.
LEMMA DataTodoIs ==
    ASSUME IInv, NEW x \in Sides, HandleDataTodo(x)
    PROVE  \E b \in Bundles : \E n \in 1..Length[b] :
              /\ b \in Data(Pipe(x))
              /\ arrived' = IF n > arrived[b] THEN [arrived EXCEPT ![b] = n] ELSE arrived
              /\ \A c : c \in Handed' <=> c \in Handed \/ (n = Length[b] /\ c = b)
<1> DEFINE y == Peer(x)
           m == Message(x)
           I == incoming[x]
           todo == recvTodo[x]
           in == Longer(I, m)
           J == AfterUnit(I, m)
           b == in.data[1].bundle
           n == Len(in.data)
           e == [data |-> in.data, whole |-> TRUE]
           full == todo = 1 /\ in.total # 0 /\ n = in.total
<1>1. TypeOK /\ Transfers(y) /\ Local(x) /\ y \in Sides /\ y # x /\ Peer(y) = x
  BY StepFrom
<1>2. /\ pc[x] = "process" /\ conn[x] = "up" /\ todo > 0
      /\ recvbuf' = Put(recvbuf, x, Tail(recvbuf[x])) /\ sendbuf' = sendbuf /\ wire' = wire
  BY DEF HandleDataTodo
<1>3. /\ received' = IF full THEN Put(received, x, Append(received[x], e)) ELSE received
      /\ arrived' = IF in.data = Units(b, 1, n) /\ n > arrived[b]
                    THEN Put(arrived, b, n) ELSE arrived
  BY DEF HandleDataTodo, Longer
<1>4. recvbuf[x] # <<>> /\ Running(x)
  BY <1>1, <1>2 DEF Local, ThreadOK, Running
<1>5. /\ Pipe(x) # <<>> /\ Head(Pipe(x)) = m /\ m \in Items /\ Pipe(x) \in Seq(Items)
  BY <1>1, <1>2, <1>4, TakePipe DEF Message
<1>6. PICK o \in Seq(Bundles), a \in Nat : InStep(y, o, a)
  BY <1>1 DEF Transfers
<1>7. I \in Seq(Incomings) /\ todo \in Nat /\ arrived \in [Bundles -> Nat]
  BY <1>1 DEF TypeOK
<1>8. IncomingOK(o, arrived, a, I, todo) /\ ReceiverPlace(y, o, a) = ReceiveAt(o, a, I, todo)
  BY <1>1, <1>2, <1>6 DEF InStep, EndsOK, ReceiverPlace
<1>9. PICK q \in DataPlaces : DataStep(o, ReceiverPlace(y, o, a), m, q)
  <2>1. y = Peer(x)
    OBVIOUS
  <2> HIDE DEF y, m
  <2> QED
    BY <1>1, <1>4, <1>5, <1>6, <2>1, NextItem
<1> HIDE DEF y, m, I, todo, in, J
<1>10. UnitComes(o, arrived, a, I, todo, m, q)
  BY <1>2, <1>5, <1>6, <1>7, <1>8, <1>9 DEF UnitComes
<1>11. /\ m.type = "data" /\ b \in Bundles /\ b = o[ReceiveAt(o, a, I, todo).i]
       /\ in.data = Units(b, 1, n) /\ n \in Nat /\ n <= Length[b]
       /\ (full <=> n = Length[b])
  <2>1. in = Longer(I, m)
    BY DEF in
  <2>2. LET S == ReceiveAt(o, a, I, todo)
            l == Longer(I, m)
            c == l.data[1].bundle
        IN  /\ m.type = "data"
            /\ c \in Bundles /\ c = o[S.i]
            /\ l.data = Units(c, 1, Len(l.data))
            /\ Len(l.data) \in Nat /\ Len(l.data) <= Length[c]
            /\ ((todo = 1 /\ l.total # 0 /\ Len(l.data) = l.total) <=> Len(l.data) = Length[c])
    BY <1>10, UnitTaken
  <2> QED
    BY <2>1, <2>2
<1>12. n > 0
  <2> DEFINE l == incoming[x]
             p == Last(l)
             d == p.data
  <2>1. l # <<>> /\ l \in Seq(Incomings)
    BY <1>7, <1>10, UnitTaken DEF I
  <2>2. p \in Incomings
    BY <2>1, TailIs
  <2>3. d \in Seq(Items)
    <3> HIDE DEF p
    <3> QED
      BY <2>2 DEF Incomings
  <2>4. in.data = Append(d, m)
    <3>1. in = [p EXCEPT !.data = Append(@, m)]
      BY DEF in, Longer, I
    <3> HIDE DEF p
    <3> QED
      BY <2>2, <3>1 DEF Incomings
  <2> HIDE DEF d
  <2>5. Len(Append(d, m)) > 0
    BY <1>5, <2>3
  <2> QED
    BY <2>4, <2>5
<1>13. b = m.bundle
  <2> DEFINE p == ReceiveAt(o, a, I, todo)
  <2>1. DataStep(o, p, m, q)
    BY <1>8, <1>9
  <2>2. m = Unit(o[p.i], p.at + 1)
    BY <1>11, <2>1 DEF DataStep
  <2>3. m.bundle = o[p.i]
    BY <2>2 DEF Unit
  <2> QED
    BY <1>11, <2>3
<1>14. b \in Data(Pipe(x))
  <2> HIDE DEF b
  <2> DEFINE r == Pipe(x)
  <2>1. r \in Seq(Items) /\ r # <<>> /\ Head(r) = m
    BY <1>5
  <2> HIDE DEF r
  <2>2. Head(r).type = "data" /\ Head(r).bundle \in Bundles /\ Head(r).bundle = b
    BY <1>11, <1>13, <2>1
  <2>3. b \in Data(r)
    BY <2>1, <2>2, DataOfTail
  <2> QED
    BY <2>3 DEF r
<1>15. e.whole = TRUE /\ e.data[1].bundle = b
  OBVIOUS
<1> HIDE DEF b, n, e, full
<1>16. arrived' = IF n > arrived[b] THEN [arrived EXCEPT ![b] = n] ELSE arrived
  BY <1>3, <1>11 DEF Put
<1>17. \A c : c \in Handed' <=> c \in Handed \/ (n = Length[b] /\ c = b)
  <2>1. CASE full
    <3>1. received' = Put(received, x, Append(received[x], e))
      BY <1>3, <2>1
    <3>2. \A c : c \in Handed' <=> c \in Handed \/ (c \in Bundles /\ e.whole /\ e.data[1].bundle = c)
      BY <1>1, <3>1, HandedMore
    <3> QED
      BY <1>11, <1>15, <2>1, <3>2
  <2>2. CASE ~full
    <3>1. Handed' = Handed
      BY <1>3, <2>2, HandedSame
    <3> QED
      BY <1>11, <2>2, <3>1
  <2> QED
    BY <2>1, <2>2
<1>18. n \in 1..Length[b]
  BY <1>11, <1>12, LengthType
<1> QED
  BY <1>11, <1>14, <1>16, <1>17, <1>18

\* A bundle of which everything arrived was handed over.
HandedOK == \A b \in Bundles : arrived[b] = Length[b] => b \in Handed

LEMMA DataArrives ==
    ASSUME IInv, Held, Carried, HandedOK, Found, Found', NEW x \in Sides, HandleDataTodo(x)
    PROVE  (Abstract!Next \/ UNCHANGED Abstract!vars) /\ HandedOK'
<1>1. Unnoticed /\ Running(x)
  BY SilentSteps DEF Silent, HandleDataTodo, Running
<1>2. StatusOf' = StatusOf /\ ConfirmedOf' = ConfirmedOf
  BY <1>1, UnnoticedUnseen, NoneSeen
<1>3. PICK b \in Bundles : \E n \in 1..Length[b] :
              /\ b \in Data(Pipe(x))
              /\ arrived' = IF n > arrived[b] THEN [arrived EXCEPT ![b] = n] ELSE arrived
              /\ \A c : c \in Handed' <=> c \in Handed \/ (n = Length[b] /\ c = b)
  BY DataTodoIs
<1>4. PICK n \in 1..Length[b] :
              /\ b \in Data(Pipe(x))
              /\ arrived' = IF n > arrived[b] THEN [arrived EXCEPT ![b] = n] ELSE arrived
              /\ \A c : c \in Handed' <=> c \in Handed \/ (n = Length[b] /\ c = b)
  BY <1>3
<1>5. b \in Bundles /\ n \in Nat /\ n <= Length[b] /\ Length[b] \in Nat
  BY <1>3, <1>4, LengthType
<1>6. arrived \in [Bundles -> Nat] /\ \A c \in Bundles : arrived[c] <= Length[c]
  BY DEF IInv, TypeOK
<1>7. StatusOf[b] # "cancelled"
  <2>1. Peer(x) \in Sides /\ Peer(Peer(x)) = x
    BY PeerIs
  <2>2. b \notin cancelled
    BY <1>1, <1>4, <2>1 DEF Carried, Sendable
  <2>3. PICK st, k : Lies(b, st, k) /\ st # "cancelled"
    BY <2>2, LiesSomewhere
  <2> QED
    BY <1>5, <2>3 DEF Found, StatusOf
<1>8. CASE n > arrived[b]
  <2>1. arrived' = [arrived EXCEPT ![b] = n]
    BY <1>4, <1>8
  <2>2. Handed' = IF n = Length[b] THEN Handed \cup {b} ELSE Handed
    <3>1. CASE n = Length[b]
      BY <1>4, <3>1
    <3>2. CASE n # Length[b]
      BY <1>4, <3>2
    <3> QED
      BY <3>1, <3>2
  <2>3. Abstract!Next
    BY <1>2, <1>4, <1>5, <1>7, <1>8, <2>1, <2>2, AbstractArrive
  <2>4. HandedOK'
    <3>1. ASSUME NEW c \in Bundles, arrived'[c] = Length[c] PROVE c \in Handed'
      BY <1>4, <1>5, <1>6, <2>1, <3>1 DEF HandedOK
    <3> QED
      BY <3>1 DEF HandedOK
  <2> QED
    BY <2>3, <2>4
<1>9. CASE ~(n > arrived[b])
  <2>1. arrived' = arrived
    BY <1>4, <1>9
  <2>2. n = Length[b] => b \in Handed
    <3>1. arrived[b] \in Nat /\ arrived[b] <= Length[b]
      BY <1>5, <1>6
    <3>2. n = Length[b] => arrived[b] = Length[b]
      BY <1>5, <1>9, <3>1
    <3> QED
      BY <1>5, <3>2 DEF HandedOK
  <2>3. Handed' = Handed
    BY <1>4, <2>2
  <2>4. HandedOK'
    BY <2>1, <2>3 DEF HandedOK
  <2> QED
    BY <1>2, <2>1, <2>3, <2>4, AbstractStutter DEF Unchanging
<1> QED
  BY <1>8, <1>9

\* The steps that neither the daemon of the sender nor the one of the receiver
\* learns of.
LEMMA Hidden ==
    ASSUME Found, Found', Unnoticed, arrived' = arrived, received' = received
    PROVE  UNCHANGED Abstract!vars
<1>1. StatusOf' = StatusOf /\ ConfirmedOf' = ConfirmedOf
  BY UnnoticedUnseen, NoneSeen
<1> QED
  BY <1>1, HandedSame, AbstractStutter DEF Unchanging

LEMMA FinishHidden ==
    ASSUME IInv, Found, Found', NEW x \in Sides, FinishBundle(x)
    PROVE  UNCHANGED Abstract!vars
<1>1. /\ cancelled' = cancelled /\ Spared(Peer(x))
      /\ \A b, n : (Goes(x, b, n)' <=> Goes(x, b, n)) /\ (Tells(x, b, n)' <=> Tells(x, b, n))
  BY FinishIs
<1>2. \A b \in Bundles : Unseen(b)
  BY <1>1, SideUnseen
<1>3. StatusOf' = StatusOf /\ ConfirmedOf' = ConfirmedOf
  BY <1>2, NoneSeen
<1>4. arrived' = arrived /\ received' = received
  BY DEF FinishBundle, posted
<1> QED
  BY <1>3, <1>4, HandedSame, AbstractStutter DEF Unchanging

\* What has arrived whole stays handed over.
LEMMA HandedStays ==
    ASSUME HandedOK, arrived' = arrived, Handed \subseteq Handed'
    PROVE  HandedOK'
BY DEF HandedOK

LEMMA CloseHands ==
    ASSUME IInv, NEW x \in Sides, CloseContact(x)
    PROVE  arrived' = arrived /\ Handed \subseteq Handed'
<1>1. arrived' = arrived
  BY DEF CloseContact
<1> DEFINE e == [data |-> Last(incoming[x]).data, whole |-> FALSE]
<1>2. received' = received \/ received' = Put(received, x, Append(received[x], e))
  BY DEF CloseContact
<1> HIDE DEF e
<1>3. CASE received' = Put(received, x, Append(received[x], e))
  <2>1. TypeOK
    BY DEF IInv
  <2>2. \A b : b \in Handed' <=> b \in Handed \/ (b \in Bundles /\ e.whole /\ e.data[1].bundle = b)
    BY <1>3, <2>1, HandedMore
  <2> QED
    BY <1>1, <2>2
<1> QED
  BY <1>1, <1>2, <1>3, HandedSame

StepRefines == (Abstract!Next \/ UNCHANGED Abstract!vars) /\ HandedOK'

LEMMA ThreadRefines ==
    ASSUME IInv, Held, Carried, HandedOK, Found, Found', NEW x \in Sides, Thread(x)
    PROVE  StepRefines
<1>1. CASE HandleDataTodo(x)
  BY <1>1, DataArrives DEF StepRefines
<1>2. CASE ~HandleDataTodo(x)
  <2>1. arrived' = arrived /\ received' = received
    <3> USE DEF posted
    <3>1. CASE ContinueSegment(x) \/ SendPendingAcks(x) \/ SendNextSegment(x) \/ NothingToSend(x)
      BY <3>1 DEF ContinueSegment, SendPendingAcks, SendNextSegment, NothingToSend
    <3>2. CASE StartNextBundle(x) \/ FinishBundle(x) \/ Flush(x) \/ SendKeepalive(x) \/ Read(x)
      BY <3>2 DEF StartNextBundle, FinishBundle, Flush, SendKeepalive, Read
    <3>3. CASE HandleContactInitiation(x) \/ HandleDataSegment(x) \/ HandleAckSegment(x)
      BY <3>3 DEF HandleContactInitiation, HandleDataSegment, HandleAckSegment
    <3>4. CASE HandleOther(x) \/ HandleShutdown(x)
      BY <3>4 DEF HandleOther, HandleShutdown, Break
    <3> QED
      BY <1>2, <3>1, <3>2, <3>3, <3>4 DEF Thread, SendNext, Process
  <2>2. HandedOK'
    BY <2>1, HandedSame, HandedStays
  <2>3. CASE Silent(x)
    BY <2>1, <2>2, <2>3, SilentSteps, Hidden DEF StepRefines
  <2>4. CASE StartNextBundle(x)
    BY <2>2, <2>4, StartTakes DEF StepRefines
  <2>5. CASE FinishBundle(x)
    BY <2>2, <2>5, FinishHidden DEF StepRefines
  <2>6. CASE HandleAckSegment(x)
    BY <2>2, <2>6, AckConfirms DEF StepRefines
  <2> QED
    BY <2>3, <2>4, <2>5, <2>6 DEF Thread, SendNext, Process, Silent
<1> QED
  BY <1>1, <1>2

LEMMA NextRefines ==
    ASSUME Reactive, IInv, Held, Carried, HandedOK, Found, Found', [Next]_vars
    PROVE  StepRefines
<1>1. ASSUME NEW x \in Sides, Thread(x) PROVE StepRefines
  BY <1>1, ThreadRefines
<1>2. ASSUME NEW x \in Sides, CloseContact(x) PROVE StepRefines
  BY <1>2, CloseEnds, CloseHands, HandedStays DEF StepRefines
<1>3. ASSUME NEW x \in Sides, NEW r \in Breaks, BreakContact(x, r) PROVE StepRefines
  <2>1. arrived' = arrived /\ received' = received
    BY <1>3 DEF BreakContact, Break, posted
  <2>2. Unnoticed
    BY <1>3, SilentSteps DEF Silent
  <2> QED
    BY <2>1, <2>2, Hidden, HandedSame, HandedStays DEF StepRefines
<1>4. ASSUME NEW x \in Sides, NEW b \in Cancels, CancelBundle(x, b) PROVE StepRefines
  <2>1. arrived' = arrived /\ received' = received
    BY <1>4 DEF CancelBundle
  <2> QED
    BY <1>4, <2>1, CancelCancels, HandedSame, HandedStays DEF StepRefines
<1>5. CASE Reconnect \/ UNCHANGED vars
  <2>1. /\ arrived' = arrived /\ received' = received /\ inflight' = inflight /\ queue' = queue
        /\ transmitted' = transmitted /\ cancelled' = cancelled
    BY <1>5 DEF Reconnect, vars, sending, posted
  <2>2. Unnoticed
    BY <2>1, NoticesNone
  <2> QED
    BY <2>1, <2>2, Hidden, HandedSame, HandedStays DEF StepRefines
<1> QED
  BY <1>1, <1>2, <1>3, <1>4, <1>5 DEF Next

LEMMA InitRefines ==
    ASSUME Init
    PROVE  Abstract!Init /\ HandedOK
<1>1. IInv /\ Held
  BY InitIInv, InitHeld
<1>2. /\ cancelled = {} /\ arrived = [b \in Bundles |-> 0]
      /\ \A s \in Sides : inflight[s] = <<>> /\ transmitted[s] = <<>> /\ received[s] = <<>>
  BY DEF Init
<1>3. 1..Len(<<>>) = {} /\ Range(<<>>) = {}
  BY DEF Range
<1>4. \A s \in Sides : \A b, n : ~Goes(s, b, n) /\ ~Tells(s, b, n)
  BY <1>2, <1>3 DEF Goes, GoesIn, Tells, ToldIn
<1> DEFINE z == 0
<1>5. ASSUME NEW b \in Bundles PROVE Status(b) = "waiting" /\ Confirmed(b) = z
  <2>1. Lies(b, "waiting", z)
    BY <1>2, <1>4 DEF Lies
  <2> HIDE DEF z
  <2> QED
    BY <1>1, <2>1, AllFound DEF Found
<1>6. Handed = {}
  BY <1>2, <1>3 DEF Handed
<1>7. Abstract!Init
  BY <1>2, <1>5, <1>6 DEF Abstract!Init
<1>8. HandedOK
  BY <1>2, LengthType DEF HandedOK
<1> QED
  BY <1>7, <1>8

\* Two connections that exchange bundles as segments, and that cancel, break
\* and reopen at any point, implement the transfer without segments: the
\* daemon of the sender never takes for delivered what the peer does not have,
\* gets back what nothing is known to have arrived of, and the receiver's gets
\* each bundle that arrived whole (check_completed, handle_cancel_bundle and
\* close_contact).  With reactive fragmentation, which is the default.
THEOREM StreamImplementsTransfer ==
    ASSUME Reactive PROVE Spec => ImplementsTransfer
<1> DEFINE J == (IInv /\ Held) /\ (Carried /\ HandedOK)
<1>1. Init => J /\ Abstract!Init
  BY InitIInv, InitHeld, InitCarried, InitRefines
<1>2. IInv /\ Held => Found
  BY AllFound
<1>3. (IInv /\ Held)' => Found'
  BY <1>2, PTL
<1>4. J /\ [Next]_vars => J' /\ [Abstract!Next]_(Abstract!vars)
  <2> SUFFICES ASSUME J, [Next]_vars PROVE J' /\ [Abstract!Next]_(Abstract!vars)
    OBVIOUS
  <2>1. IInv' /\ Held'
    BY NextIInv, NextHeld
  <2>2. Carried'
    BY <2>1, NextCarried
  <2>3. StepRefines
    BY <1>2, <1>3, <2>1, NextRefines
  <2> QED
    BY <2>1, <2>2, <2>3 DEF StepRefines
<1> HIDE DEF J
<1> QED
  BY <1>1, <1>4, PTL DEF ImplementsTransfer, Spec, Abstract!Spec

Promise == INSTANCE Transfer_proofs WITH
    status <- [b \in Bundles |-> Status(b)],
    confirmed <- [b \in Bundles |-> Confirmed(b)],
    handed <- Handed

\* So what the sender's daemon is told of a bundle is true: no more of it is
\* acknowledged than the peer holds, and one reported as transmitted in full
\* was handed over to the peer's daemon (BundleTransmittedEvent,
\* BundleReceivedEvent).
THEOREM ReportsAreTrue ==
    ASSUME Reactive PROVE Spec => []Abstract!Honest
<1>1. Promise!Spec => []Promise!Honest
  BY Promise!TransferIsHonest, LengthsAssumption
<1>2. Abstract!Init => Promise!Init
  BY DEF Abstract!Init, Promise!Init
<1>3. [Abstract!Next]_(Abstract!vars) => [Promise!Next]_(Promise!vars)
  BY DEF Abstract!Next, Abstract!vars, Abstract!Take, Abstract!Arrive, Abstract!Confirm,
         Abstract!Cancel, Abstract!End, Promise!Next, Promise!vars, Promise!Take,
         Promise!Arrive, Promise!Confirm, Promise!Cancel, Promise!End
<1>4. Abstract!Spec => Promise!Spec
  BY <1>2, <1>3, PTL DEF Abstract!Spec, Promise!Spec
<1>5. Promise!Honest => Abstract!Honest
  BY DEF Abstract!Honest, Promise!Honest
<1>6. Spec => Abstract!Spec
  BY StreamImplementsTransfer DEF ImplementsTransfer
<1> QED
  BY <1>1, <1>4, <1>5, <1>6, PTL
=============================================================================
