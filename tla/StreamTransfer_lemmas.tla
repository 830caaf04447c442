------------------------ MODULE StreamTransfer_lemmas ------------------------
(***************************************************************************)
(* What the two ends of a connection and the bytes between them have to do *)
(* with each other.  Neither end sees the other one's state: what keeps    *)
(* them in step is that the items on the way lead from the place in the    *)
(* transfer where the receiver is to the place where the sender is, and    *)
(* the acknowledgements on the way back from what the sender knows to what *)
(* the receiver has acknowledged.  Here are the invariant that says so and *)
(* the lemmas about the lists it is made of; StreamTransfer_proofs has the *)
(* steps.                                                                  *)
(***************************************************************************)
EXTENDS StreamTransfer, SequenceTheorems, SequenceLemmas

-----------------------------------------------------------------------------
(* Runs: the items of a sequence lead from one place to another.           *)

Leads(R, S, p, xs, q) ==
    \E g \in [1..(Len(xs) + 1) -> S] :
        /\ g[1] = p /\ g[Len(xs) + 1] = q
        /\ \A j \in 1..Len(xs) : <<g[j], xs[j], g[j + 1]>> \in R

LEMMA LeadsEmpty ==
    ASSUME NEW R, NEW S, NEW p \in S, NEW q
    PROVE  Leads(R, S, p, <<>>, q) <=> q = p
<1>1. /\ Len(<<>>) = 0 /\ 0 + 1 = 1 /\ 1..0 = {} /\ 1 \in 1..1
  OBVIOUS
<1>2. ASSUME q = p PROVE Leads(R, S, p, <<>>, q)
  <2> DEFINE g == [j \in 1..1 |-> p]
  <2>1. g \in [1..1 -> S] /\ g[1] = p
    OBVIOUS
  <2> HIDE DEF g
  <2> QED
    BY <1>1, <1>2, <2>1 DEF Leads
<1>3. ASSUME Leads(R, S, p, <<>>, q) PROVE q = p
  BY <1>1, <1>3 DEF Leads
<1> QED
  BY <1>2, <1>3

LEMMA LeadsOne ==
    ASSUME NEW R, NEW S, NEW p \in S, NEW q \in S, NEW x, <<p, x, q>> \in R
    PROVE  Leads(R, S, p, <<x>>, q)
<1> DEFINE g == [j \in 1..2 |-> IF j = 1 THEN p ELSE q]
<1>1. /\ Len(<<x>>) = 1 /\ 1 + 1 = 2 /\ <<x>>[1] = x
      /\ g \in [1..2 -> S] /\ g[1] = p /\ g[2] = q
      /\ \A j \in 1..1 : j = 1
  OBVIOUS
<1> HIDE DEF g
<1> QED
  BY <1>1 DEF Leads

\* A run through the head of a sequence goes on through its tail.
LEMMA LeadsHead ==
    ASSUME NEW R, NEW S, NEW T, NEW xs \in Seq(T), xs # <<>>, NEW p, NEW q, Leads(R, S, p, xs, q)
    PROVE  \E m \in S : <<p, Head(xs), m>> \in R /\ Leads(R, S, m, Tail(xs), q)
<1>1. PICK g \in [1..(Len(xs) + 1) -> S] :
         /\ g[1] = p /\ g[Len(xs) + 1] = q
         /\ \A j \in 1..Len(xs) : <<g[j], xs[j], g[j + 1]>> \in R
  BY DEF Leads
<1>2. /\ Len(xs) \in Nat /\ Len(xs) >= 1 /\ Head(xs) = xs[1]
      /\ Tail(xs) \in Seq(T) /\ Len(Tail(xs)) = Len(xs) - 1
      /\ \A j \in 1..Len(Tail(xs)) : Tail(xs)[j] = xs[j + 1]
  OBVIOUS
<1> DEFINE h == [j \in 1..Len(xs) |-> g[j + 1]]
<1>3. /\ h \in [1..Len(xs) -> S] /\ h[1] = g[2] /\ h[Len(xs)] = q
      /\ \A j \in 1..Len(Tail(xs)) : h[j] = g[j + 1] /\ h[j + 1] = g[(j + 1) + 1]
  BY <1>1, <1>2
<1>4. (Len(xs) - 1) + 1 = Len(xs) /\ 1 \in 1..Len(xs) /\ 1 + 1 = 2 /\ 2 \in 1..(Len(xs) + 1)
  BY <1>2
<1> HIDE DEF h
<1>5. \A j \in 1..Len(Tail(xs)) : <<h[j], Tail(xs)[j], h[j + 1]>> \in R
  <2> TAKE j \in 1..Len(Tail(xs))
  <2>1. j + 1 \in 1..Len(xs)
    BY <1>2
  <2> QED
    BY <1>1, <1>2, <1>3, <2>1
<1>6. Leads(R, S, g[2], Tail(xs), q)
  BY <1>2, <1>3, <1>4, <1>5 DEF Leads
<1> QED
  BY <1>1, <1>2, <1>4, <1>6

LEMMA LeadsOn ==
    ASSUME NEW R, NEW S, NEW T, NEW xs \in Seq(T), NEW ys \in Seq(T), NEW p, NEW m, NEW q,
           Leads(R, S, p, xs, m), Leads(R, S, m, ys, q)
    PROVE  Leads(R, S, p, xs \o ys, q)
<1>1. PICK g \in [1..(Len(xs) + 1) -> S] :
         /\ g[1] = p /\ g[Len(xs) + 1] = m
         /\ \A j \in 1..Len(xs) : <<g[j], xs[j], g[j + 1]>> \in R
  BY DEF Leads
<1>2. PICK h \in [1..(Len(ys) + 1) -> S] :
         /\ h[1] = m /\ h[Len(ys) + 1] = q
         /\ \A j \in 1..Len(ys) : <<h[j], ys[j], h[j + 1]>> \in R
  BY DEF Leads
<1> DEFINE k == Len(xs)
           n == Len(ys)
           zs == xs \o ys
           f == [j \in 1..((k + n) + 1) |-> IF j <= k THEN g[j] ELSE h[j - k]]
<1>3. /\ k \in Nat /\ n \in Nat /\ zs \in Seq(T) /\ Len(zs) = k + n
      /\ \A j \in 1..(k + n) : zs[j] = IF j <= k THEN xs[j] ELSE ys[j - k]
  OBVIOUS
<1> HIDE DEF k, n, zs
<1>4. /\ f \in [1..((k + n) + 1) -> S]
      /\ \A j \in 1..k : f[j] = g[j]
      /\ \A j \in 1..(n + 1) : f[j + k] = h[j]
  BY <1>1, <1>2, <1>3 DEF k, n
<1>5. f[k + 1] = g[k + 1]
  <2>1. 1 \in 1..(n + 1) /\ 1 + k = k + 1
    BY <1>3
  <2>2. f[1 + k] = h[1]
    BY <1>4, <2>1
  <2> HIDE DEF f
  <2> QED
    BY <1>1, <1>2, <2>1, <2>2 DEF k
<1>6. f[1] = p /\ f[(k + n) + 1] = q
  <2>1. f[1] = g[1]
    <3> HIDE DEF f
    <3>1. CASE k = 0
      BY <1>3, <1>5, <3>1
    <3>2. CASE k # 0
      BY <1>3, <1>4, <3>2
    <3> QED
      BY <3>1, <3>2
  <2>2. f[(n + 1) + k] = h[n + 1] /\ (n + 1) + k = (k + n) + 1
    BY <1>3, <1>4
  <2> HIDE DEF f
  <2> QED
    BY <1>1, <1>2, <2>1, <2>2 DEF n
<1> HIDE DEF f
<1>7. ASSUME NEW j \in 1..(k + n) PROVE <<f[j], zs[j], f[j + 1]>> \in R
  <2>1. CASE j <= k
    <3>1. j \in 1..k /\ j \in 1..(k + n) /\ f[j] = g[j] /\ zs[j] = xs[j]
      <4>1. j \in 1..k /\ j \in 1..(k + n)
        BY <1>3, <2>1
      <4> QED
        BY <1>3, <1>4, <2>1, <4>1
    <3>2. f[j + 1] = g[j + 1]
      <4>1. CASE j = k
        BY <1>5, <4>1
      <4>2. CASE j # k
        <5>1. j + 1 \in 1..k
          BY <1>3, <2>1, <4>2
        <5> QED
          BY <1>4, <5>1
      <4> QED
        BY <4>1, <4>2
    <3> QED
      BY <1>1, <3>1, <3>2 DEF k
  <2>2. CASE ~(j <= k)
    <3>1. /\ j - k \in 1..n /\ (j - k) + 1 \in 1..(n + 1) /\ (j - k) + k = j
          /\ ((j - k) + 1) + k = j + 1
      BY <1>3, <2>2
    <3>2. f[j] = h[j - k] /\ f[j + 1] = h[(j - k) + 1] /\ zs[j] = ys[j - k]
      BY <1>3, <1>4, <2>2, <3>1
    <3> QED
      BY <1>2, <3>1, <3>2 DEF n
  <2> QED
    BY <2>1, <2>2
<1> QED
  BY <1>3, <1>4, <1>6, <1>7 DEF Leads, zs

\* What is lost at the end of a sequence does not matter to the rest.
LEMMA LeadsPart ==
    ASSUME NEW R, NEW S, NEW T, NEW xs \in Seq(T), NEW ys \in Seq(T), NEW p, NEW q,
           Leads(R, S, p, xs \o ys, q)
    PROVE  \E m \in S : Leads(R, S, p, xs, m)
<1> DEFINE zs == xs \o ys
<1>1. /\ Len(xs) \in Nat /\ Len(ys) \in Nat /\ zs \in Seq(T) /\ Len(zs) = Len(xs) + Len(ys)
      /\ \A j \in 1..Len(xs) : zs[j] = xs[j]
  OBVIOUS
<1>2. PICK g \in [1..(Len(zs) + 1) -> S] :
         /\ g[1] = p
         /\ \A j \in 1..Len(zs) : <<g[j], zs[j], g[j + 1]>> \in R
  BY DEF Leads
<1> HIDE DEF zs
<1> DEFINE h == [j \in 1..(Len(xs) + 1) |-> g[j]]
<1>3. /\ h \in [1..(Len(xs) + 1) -> S] /\ h[1] = p /\ h[Len(xs) + 1] \in S
      /\ \A j \in 1..Len(xs) : h[j] = g[j] /\ h[j + 1] = g[j + 1] /\ j \in 1..Len(zs)
  BY <1>1, <1>2
<1> HIDE DEF h
<1> QED
  BY <1>1, <1>2, <1>3 DEF Leads

\* Runs go with the relation.
LEMMA LeadsAlso ==
    ASSUME NEW Q, NEW R, NEW S, NEW T, NEW xs \in Seq(T), NEW p, NEW q, Leads(Q, S, p, xs, q),
           \A m \in S, x \in T, n \in S : <<m, x, n>> \in Q => <<m, x, n>> \in R
    PROVE  Leads(R, S, p, xs, q)
<1>1. PICK g \in [1..(Len(xs) + 1) -> S] :
         /\ g[1] = p /\ g[Len(xs) + 1] = q
         /\ \A j \in 1..Len(xs) : <<g[j], xs[j], g[j + 1]>> \in Q
  BY DEF Leads
<1>2. \A j \in 1..Len(xs) : <<g[j], xs[j], g[j + 1]>> \in R
  <2> TAKE j \in 1..Len(xs)
  <2>1. Len(xs) \in Nat /\ xs[j] \in T /\ j \in 1..(Len(xs) + 1) /\ j + 1 \in 1..(Len(xs) + 1)
    OBVIOUS
  <2> QED
    BY <1>1, <2>1
<1> QED
  BY <1>1, <1>2 DEF Leads

\* A run does not leave a set that no step leaves.
LEMMA LeadsWithin ==
    ASSUME NEW R, NEW S, NEW T, NEW xs \in Seq(T), NEW p, NEW q, Leads(R, S, p, xs, q),
           NEW K, p \in K,
           \A m \in S, x \in T, n \in S : m \in K /\ <<m, x, n>> \in R => n \in K
    PROVE  q \in K
<1>1. PICK g \in [1..(Len(xs) + 1) -> S] :
         /\ g[1] = p /\ g[Len(xs) + 1] = q
         /\ \A j \in 1..Len(xs) : <<g[j], xs[j], g[j + 1]>> \in R
  BY DEF Leads
<1> DEFINE Out == {j \in 1..(Len(xs) + 1) : g[j] \notin K}
<1>2. CASE Out = {}
  <2>1. Len(xs) + 1 \in 1..(Len(xs) + 1)
    OBVIOUS
  <2> QED
    BY <1>1, <1>2, <2>1
<1>3. CASE Out # {}
  <2>1. Out \in SUBSET Nat
    OBVIOUS
  <2> DEFINE k == Min(Out)
  <2>2. k \in Out /\ \A j \in Out : k <= j
    <3> HIDE DEF Out
    <3> QED
      BY <1>3, <2>1, LeastIndex
  <2> HIDE DEF k
  <2>3. k \in 1..(Len(xs) + 1) /\ g[k] \notin K
    BY <2>2
  <2>4. k # 1
    BY <1>1, <2>3
  <2>5. k - 1 \in 1..Len(xs) /\ k - 1 < k /\ (k - 1) + 1 = k /\ k - 1 \in 1..(Len(xs) + 1)
    BY <2>3, <2>4
  <2>6. g[k - 1] \in K
    <3>1. k - 1 \notin Out
      <4> HIDE DEF Out
      <4> QED
        BY <2>1, <2>2, <2>5
    <3> QED
      BY <2>5, <3>1
  <2>7. <<g[k - 1], xs[k - 1], g[k]>> \in R
    BY <1>1, <2>5
  <2>8. g[k - 1] \in S /\ g[k] \in S /\ xs[k - 1] \in T
    BY <2>3, <2>5
  <2> QED
    BY <2>3, <2>6, <2>7, <2>8
<1> QED
  BY <1>2, <1>3

-----------------------------------------------------------------------------
(* Places in a transfer.                                                   *)

\* The bundles whose first segment header a side has sent in this contact are
\* numbered in the order of a sequence o, and r is how much of each arrived.

\* In bundle i, after at units, with todo units of a segment to come.  The place
\* before the contact header is number 0.
Place(i, at, todo) == [i |-> i, at |-> at, todo |-> todo]
DataPlaces == [i : Nat, at : Nat, todo : Nat]
Start == Place(0, 0, 0)

\* After the last unit of a bundle comes the next bundle.
After(o, i, at, todo) ==
    IF at = Length[o[i]] THEN Place(i + 1, 0, 0) ELSE Place(i, at, todo)

\* What an item does to the place.
DataStep(o, p, x, q) ==
    \/ x.type = "header" /\ p = Start /\ q = Place(1, 0, 0)
    \/ x.type \in {"ack", "keepalive", "shutdown"} /\ p.i > 0 /\ p.todo = 0 /\ q = p
    \/ /\ x.type = "segment" /\ p.i \in 1..Len(o) /\ p.todo = 0 /\ x.len > 0
       /\ p.at + x.len <= Length[o[p.i]]
       /\ x.start <=> p.at = 0
       /\ x.last <=> p.at + x.len = Length[o[p.i]]
       /\ q = Place(p.i, p.at, x.len)
    \/ /\ x.type = "data" /\ p.i \in 1..Len(o) /\ p.todo > 0
       /\ x = Unit(o[p.i], p.at + 1)
       /\ q = After(o, p.i, p.at + 1, p.todo - 1)

DataSteps(o) == {w \in DataPlaces \X Items \X DataPlaces : DataStep(o, w[1], w[2], w[3])}
DataRun(o, p, xs, q) == Leads(DataSteps(o), DataPlaces, p, xs, q)

\* In bundle i, with n units acknowledged.
Mark(i, n) == [i |-> i, n |-> n]
AckPlaces == [i : Nat, n : Nat]

AckStep(o, r, p, x, q) ==
    \/ x.type # "ack" /\ q = p
    \/ /\ x.type = "ack" /\ p.i \in 1..Len(o) /\ x.len > p.n
       /\ x.len <= r[o[p.i]] /\ x.len <= Length[o[p.i]]
       /\ q = IF x.len = Length[o[p.i]] THEN Mark(p.i + 1, 0) ELSE Mark(p.i, x.len)

AckSteps(o, r) == {w \in AckPlaces \X Items \X AckPlaces : AckStep(o, r, w[1], w[2], w[3])}
AckRun(o, r, p, xs, q) == Leads(AckSteps(o, r), AckPlaces, p, xs, q)

\* An acknowledgement is not ahead of the data.
NotAhead(p, q) == p.i < q.i \/ (p.i = q.i /\ p.n <= q.at)

-----------------------------------------------------------------------------
(* Where the two ends are.                                                 *)

\* The last bundle was started, but its first header did not fit.
Unsent(F, todo) == F # <<>> /\ Last(F).sent = 0 /\ todo = 0
Begun(F, todo) == IF Unsent(F, todo) THEN Len(F) - 1 ELSE Len(F)

FlightOK(o, r, F, cur, todo, k) ==
    LET f == F[k]  n == Begun(F, todo)
    IN  /\ f.acked <= f.sent /\ f.sent <= Length[f.bundle]
        /\ f.acked <= r[f.bundle]
        /\ k <= n => f.bundle = o[(Len(o) - n) + k]
        /\ k > 1 => f.acked = 0
        /\ k < Len(F) => f.sent = Length[f.bundle]
        /\ f.posted <=> f.acked = Length[f.bundle]
        /\ f.posted => f.bundle = cur

FlightsOK(o, r, F, cur, todo) ==
    /\ Begun(F, todo) <= Len(o)
    /\ \A k \in 1..Len(F) : FlightOK(o, r, F, cur, todo, k)
    /\ \A j, k \in 1..Len(F) : F[j].bundle = F[k].bundle => j = k
    /\ IF cur = NoBundle THEN todo = 0 /\ (F # <<>> => Last(F).sent = Length[Last(F).bundle])
                         ELSE F # <<>> /\ Last(F).bundle = cur
    /\ todo > 0 => Last(F).sent + todo <= Length[Last(F).bundle]

SendAt(o, F, todo) ==
    IF F # <<>> /\ ~Unsent(F, todo) /\ Last(F).sent < Length[Last(F).bundle]
    THEN Place(Len(o), Last(F).sent, todo) ELSE Place(Len(o) + 1, 0, 0)

AckedAt(o, F, todo) ==
    LET base == Len(o) - Begun(F, todo)
    IN  IF F = <<>> THEN Mark(base + 1, 0)
        ELSE IF F[1].posted THEN Mark(base + 2, 0) ELSE Mark(base + 1, F[1].acked)

IncomingOK1(o, r, a, I, todo, k) ==
    LET in == I[k]
        b == o[(a + k) - 1]
        end == Len(in.data) + (IF k = Len(I) THEN todo ELSE 0)
    IN  /\ in.data = Units(b, 1, Len(in.data)) /\ Len(in.data) <= r[b]
        /\ 0 < end /\ end <= Length[b]
        /\ in.total = IF end = Length[b] THEN end ELSE 0
        /\ k < Len(I) => end = Length[b]
        /\ k > 1 => in.acked = 0
        /\ in.acked <= Len(in.data) /\ in.acked < Length[b]
        /\ \A n \in in.acks : in.acked < n /\ n <= end
        /\ end > in.acked => end \in in.acks

IncomingOK(o, r, a, I, todo) ==
    /\ a > 0 /\ (a + Len(I)) - 1 <= Len(o)
    /\ I = <<>> => todo = 0
    /\ \A k \in 1..Len(I) : IncomingOK1(o, r, a, I, todo, k)

ReceiveAt(o, a, I, todo) ==
    IF I = <<>> THEN Place(a, 0, 0)
    ELSE After(o, (a + Len(I)) - 1, Len(Last(I).data), todo)

AcksAt(a, I) == Mark(a, IF I = <<>> THEN 0 ELSE I[1].acked)

-----------------------------------------------------------------------------
(* The two ends and what is between them.                                  *)

\* What the connection of s has received and not processed, what is in the
\* kernel and what its peer has not written yet.
Pipe(s) == (recvbuf[s] \o wire[Peer(s)]) \o sendbuf[Peer(s)]

\* The places of the transfer from s to its peer: where the sender is and what
\* it knows to have arrived, where the receiver is and what it has told.  Before
\* the contact header there is nothing to receive.
SenderPlace(s, o) == SendAt(o, inflight[s], sendTodo[s])
AckedPlace(s, o) == AckedAt(o, inflight[s], sendTodo[s])
ReceiverPlace(s, o, a) ==
    LET t == Peer(s) IN
    IF conn[t] = "initiated" THEN Start ELSE ReceiveAt(o, a, incoming[t], recvTodo[t])
AckingPlace(s, a) == AcksAt(a, incoming[Peer(s)])

EndsOK(s, o, a) ==
    LET t == Peer(s) IN
    /\ FlightsOK(o, arrived, inflight[s], current[s], sendTodo[s])
    /\ IncomingOK(o, arrived, a, incoming[t], recvTodo[t])
    /\ conn[t] = "initiated" => incoming[t] = <<>> /\ a = 1

\* What is on the way to the peer leads from its place to that of s.
DataAgrees(s, o, a) ==
    Running(Peer(s)) => \E q \in DataPlaces :
        /\ DataRun(o, ReceiverPlace(s, o, a), Pipe(Peer(s)), q)
        /\ Running(s) => q = SenderPlace(s, o)

\* What is on the way back leads to what the peer has acknowledged.
AcksAgree(s, o, a) ==
    Running(s) => \E q \in AckPlaces :
        /\ AckRun(o, arrived, AckedPlace(s, o), Pipe(s), q)
        /\ NotAhead(q, SenderPlace(s, o))
        /\ Running(Peer(s)) => q = AckingPlace(s, a)

InStep(s, o, a) == EndsOK(s, o, a) /\ DataAgrees(s, o, a) /\ AcksAgree(s, o, a)

\* A bundle is sent once per contact.
SentOnce(s, o) ==
    /\ IsInjective(o)
    /\ Running(s) => /\ ToSet(o) \cap ToSet(queue[s]) = {}
                     /\ Unsent(inflight[s], sendTodo[s]) => Last(inflight[s]).bundle \notin ToSet(o)

\* How often the daemon of side t was given (part of) bundle b.
Events(t, b) == {i \in DOMAIN received[t] : received[t][i].data[1].bundle = b}

\* In this contact it was given none of the bundles that are not complete.
NotYetGiven(s, o, a) ==
    LET t == Peer(s)
        done == ReceiveAt(o, a, incoming[t], recvTodo[t]).i
    IN  conn[t] # "closed" =>
            \A b \in Bundles : (\A j \in 1..Len(o) : o[j] = b => j >= done) =>
                Cardinality(Events(t, b)) < contacts

Transfers(s) == \E o \in Seq(Bundles), a \in Nat :
                    InStep(s, o, a) /\ SentOnce(s, o) /\ NotYetGiven(s, o, a)

\* The thread of a connection.
ThreadOK(s) ==
    /\ pc[s] = "process" => recvbuf[s] # <<>>
    /\ pc[s] \in {"acks", "next"} => sendTodo[s] = 0
    /\ ~Running(s) => pc[s] = "loop"
    /\ conn[s] = "closed" => sendbuf[s] = <<>> /\ recvbuf[s] = <<>>
    /\ conn[s] # "error"

\* A closed connection has let go of everything.
ClosedOK(s) ==
    conn[s] = "closed" => /\ inflight[s] = <<>> /\ current[s] = NoBundle /\ sendTodo[s] = 0
                          /\ incoming[s] = <<>> /\ recvTodo[s] = 0

\* A bundle is waiting or in flight, and once.
QueueOK(s) ==
    /\ IsInjective(queue[s])
    /\ \A i \in DOMAIN inflight[s] : inflight[s][i].bundle \notin ToSet(queue[s])

IInv == /\ TypeOK
        /\ \A b \in Bundles : arrived[b] <= Length[b]
        /\ ReceivedIntact /\ OncePerContact
        /\ \A s \in Sides : ThreadOK(s) /\ ClosedOK(s) /\ QueueOK(s) /\ Transfers(s)

-----------------------------------------------------------------------------
(* Runs of items of the protocol.                                          *)

LEMMA PlaceType ==
    /\ \A i, at, todo \in Nat : Place(i, at, todo) \in DataPlaces
    /\ \A i, n \in Nat : Mark(i, n) \in AckPlaces
BY DEF Place, Mark, DataPlaces, AckPlaces

LEMMA AfterType ==
    ASSUME NEW o, NEW i \in Nat, NEW at \in Nat, NEW todo \in Nat
    PROVE  After(o, i, at, todo) \in DataPlaces
BY PlaceType DEF After

LEMMA DataRunOne ==
    ASSUME NEW o, NEW p \in DataPlaces, NEW q \in DataPlaces, NEW x \in Items, DataStep(o, p, x, q)
    PROVE  DataRun(o, p, <<x>>, q)
<1>1. <<p, x, q>> \in DataSteps(o)
  BY DEF DataSteps
<1> QED
  BY <1>1, LeadsOne DEF DataRun

LEMMA DataRunOn ==
    ASSUME NEW o, NEW xs \in Seq(Items), NEW ys \in Seq(Items), NEW p, NEW m, NEW q,
           DataRun(o, p, xs, m), DataRun(o, m, ys, q)
    PROVE  DataRun(o, p, xs \o ys, q)
BY LeadsOn DEF DataRun

LEMMA DataRunHead ==
    ASSUME NEW o, NEW xs \in Seq(Items), xs # <<>>, NEW p, NEW q, DataRun(o, p, xs, q)
    PROVE  \E m \in DataPlaces : DataStep(o, p, Head(xs), m) /\ DataRun(o, m, Tail(xs), q)
<1>1. PICK m \in DataPlaces : <<p, Head(xs), m>> \in DataSteps(o)
                              /\ Leads(DataSteps(o), DataPlaces, m, Tail(xs), q)
  BY LeadsHead DEF DataRun
<1> QED
  BY <1>1 DEF DataRun, DataSteps

LEMMA AckRunOne ==
    ASSUME NEW o, NEW r, NEW p \in AckPlaces, NEW q \in AckPlaces, NEW x \in Items,
           AckStep(o, r, p, x, q)
    PROVE  AckRun(o, r, p, <<x>>, q)
<1>1. <<p, x, q>> \in AckSteps(o, r)
  BY DEF AckSteps
<1> QED
  BY <1>1, LeadsOne DEF AckRun

LEMMA AckRunOn ==
    ASSUME NEW o, NEW r, NEW xs \in Seq(Items), NEW ys \in Seq(Items), NEW p, NEW m, NEW q,
           AckRun(o, r, p, xs, m), AckRun(o, r, m, ys, q)
    PROVE  AckRun(o, r, p, xs \o ys, q)
BY LeadsOn DEF AckRun

LEMMA AckRunHead ==
    ASSUME NEW o, NEW r, NEW xs \in Seq(Items), xs # <<>>, NEW p, NEW q, AckRun(o, r, p, xs, q)
    PROVE  \E m \in AckPlaces : AckStep(o, r, p, Head(xs), m) /\ AckRun(o, r, m, Tail(xs), q)
<1>1. PICK m \in AckPlaces : <<p, Head(xs), m>> \in AckSteps(o, r)
                             /\ Leads(AckSteps(o, r), AckPlaces, m, Tail(xs), q)
  BY LeadsHead DEF AckRun
<1> QED
  BY <1>1 DEF AckRun, AckSteps

\* The first bundle of a new contact: another bundle is added at the end.
LEMMA Appended ==
    ASSUME NEW o \in Seq(Bundles), NEW b \in Bundles
    PROVE  /\ Append(o, b) \in Seq(Bundles) /\ Len(Append(o, b)) = Len(o) + 1
           /\ \A i \in 1..Len(o) : i \in 1..Len(Append(o, b)) /\ Append(o, b)[i] = o[i]
           /\ Append(o, b)[Len(o) + 1] = b /\ Len(o) \in Nat
OBVIOUS

\* The runs of a contact stay runs when another bundle is begun.
LEMMA DataRunMore ==
    ASSUME NEW o \in Seq(Bundles), NEW b \in Bundles, NEW xs \in Seq(Items), NEW p, NEW q,
           DataRun(o, p, xs, q)
    PROVE  DataRun(Append(o, b), p, xs, q)
<1> DEFINE o2 == Append(o, b)
<1>1. /\ Len(o) \in Nat /\ Len(o2) = Len(o) + 1
      /\ \A i \in 1..Len(o) : i \in 1..Len(o2) /\ o2[i] = o[i]
  BY Appended
<1> HIDE DEF o2
<1>2. ASSUME NEW m \in DataPlaces, NEW x \in Items, NEW n \in DataPlaces,
             <<m, x, n>> \in DataSteps(o)
      PROVE  <<m, x, n>> \in DataSteps(o2)
  <2>1. DataStep(o, m, x, n)
    BY <1>2 DEF DataSteps
  <2>2. DataStep(o2, m, x, n)
    <3>1. m.i \in 1..Len(o) => o2[m.i] = o[m.i] /\ m.i \in 1..Len(o2)
      BY <1>1
    <3> QED
      BY <2>1, <3>1 DEF DataStep, After
  <2> QED
    BY <2>2 DEF DataSteps
<1>3. DataRun(o2, p, xs, q)
  BY <1>2, LeadsAlso DEF DataRun
<1> QED
  BY <1>3 DEF o2

LEMMA AckRunMore ==
    ASSUME NEW o \in Seq(Bundles), NEW b \in Bundles, NEW xs \in Seq(Items), NEW p, NEW q, NEW r,
           AckRun(o, r, p, xs, q)
    PROVE  AckRun(Append(o, b), r, p, xs, q)
<1> DEFINE o2 == Append(o, b)
<1>1. /\ Len(o) \in Nat /\ Len(o2) = Len(o) + 1
      /\ \A i \in 1..Len(o) : i \in 1..Len(o2) /\ o2[i] = o[i]
  BY Appended
<1> HIDE DEF o2
<1>2. ASSUME NEW m \in AckPlaces, NEW x \in Items, NEW n \in AckPlaces,
             <<m, x, n>> \in AckSteps(o, r)
      PROVE  <<m, x, n>> \in AckSteps(o2, r)
  <2>1. AckStep(o, r, m, x, n)
    BY <1>2 DEF AckSteps
  <2>2. AckStep(o2, r, m, x, n)
    <3>1. m.i \in 1..Len(o) => o2[m.i] = o[m.i] /\ m.i \in 1..Len(o2)
      BY <1>1
    <3> QED
      BY <2>1, <3>1 DEF AckStep
  <2> QED
    BY <2>2 DEF AckSteps
<1>3. AckRun(o2, r, p, xs, q)
  BY <1>2, LeadsAlso DEF AckRun
<1> QED
  BY <1>3 DEF o2

\* No prefix that arrived gets shorter.
Grows(r, r2) == /\ r \in [Bundles -> Nat] /\ r2 \in [Bundles -> Nat]
                /\ \A b \in Bundles : r[b] <= r2[b]

LEMMA AckRunGrows ==
    ASSUME NEW o \in Seq(Bundles), NEW xs \in Seq(Items), NEW p, NEW q, NEW r, NEW r2,
           Grows(r, r2), AckRun(o, r, p, xs, q)
    PROVE  AckRun(o, r2, p, xs, q)
<1>1. ASSUME NEW m \in AckPlaces, NEW x \in Items, NEW n \in AckPlaces,
             <<m, x, n>> \in AckSteps(o, r)
      PROVE  <<m, x, n>> \in AckSteps(o, r2)
  <2>1. AckStep(o, r, m, x, n)
    BY <1>1 DEF AckSteps
  <2>2. CASE x.type # "ack"
    BY <2>1, <2>2 DEF AckStep, AckSteps
  <2>3. CASE x.type = "ack"
    <3>1. m.i \in 1..Len(o) /\ x.len <= r[o[m.i]]
      BY <2>1, <2>3 DEF AckStep
    <3>2. x.len \in Nat
      BY <2>3 DEF Items
    <3>3. o[m.i] \in Bundles
      BY <3>1
    <3>4. x.len <= r2[o[m.i]]
      BY <3>1, <3>2, <3>3 DEF Grows
    <3> QED
      BY <2>1, <2>3, <3>4 DEF AckStep, AckSteps
  <2> QED
    BY <2>2, <2>3
<1> QED
  BY <1>1, LeadsAlso DEF AckRun

\* Acknowledgements only ever go on.
LEMMA AckRunBehind ==
    ASSUME NEW o \in Seq(Bundles), NEW r, NEW xs \in Seq(Items), NEW p \in AckPlaces, NEW q,
           AckRun(o, r, p, xs, q), NEW z \in DataPlaces, NotAhead(q, z)
    PROVE  NotAhead(p, z)
<1> DEFINE K == {m \in AckPlaces : p.i < m.i \/ (p.i = m.i /\ p.n <= m.n)}
<1>1. p \in K
  BY DEF AckPlaces
<1>2. ASSUME NEW m \in AckPlaces, NEW x \in Items, NEW n \in AckPlaces, m \in K,
             <<m, x, n>> \in AckSteps(o, r)
      PROVE  n \in K
  <2>1. AckStep(o, r, m, x, n)
    BY <1>2 DEF AckSteps
  <2>2. CASE x.type # "ack"
    BY <1>2, <2>1, <2>2 DEF AckStep
  <2>3. CASE x.type = "ack"
    <3>1. x.len \in Nat
      BY <2>3 DEF Items
    <3>2. x.len > m.n /\ (n = Mark(m.i + 1, 0) \/ n = Mark(m.i, x.len))
      BY <2>1, <2>3 DEF AckStep
    <3> QED
      BY <1>2, <3>1, <3>2 DEF AckPlaces, Mark
  <2> QED
    BY <2>2, <2>3
<1> HIDE DEF K
<1>3. q \in K
  BY <1>1, <1>2, LeadsWithin DEF AckRun
<1> QED
  BY <1>3 DEF K, AckPlaces, DataPlaces, NotAhead
-----------------------------------------------------------------------------
(* The sender's steps.                                                     *)

LEMMA UnitsType ==
    ASSUME NEW b \in Bundles, NEW at \in Nat, NEW n \in Nat
    PROVE  /\ Units(b, at + 1, at + n) \in Seq(Items) /\ Len(Units(b, at + 1, at + n)) = n
           /\ \A j \in 1..n : Units(b, at + 1, at + n)[j] = Unit(b, at + j)
<1>1. (at + n) - (at + 1) + 1 = n
  OBVIOUS
<1>2. \A j \in 1..n : (at + 1) + j - 1 = at + j /\ at + j \in Nat
  OBVIOUS
<1>3. Units(b, at + 1, at + n) = [j \in 1..n |-> Unit(b, at + j)]
  BY <1>1, <1>2 DEF Units
<1>4. \A j \in 1..n : Unit(b, at + j) \in Items
  BY <1>2 DEF Unit, Items
<1>5. ASSUME NEW us, us = [j \in 1..n |-> Unit(b, at + j)]
      PROVE  us \in Seq(Items) /\ Len(us) = n /\ \A j \in 1..n : us[j] = Unit(b, at + j)
  BY <1>4, <1>5
<1> QED
  BY <1>3, <1>5

\* The units of a segment lead through it.
LEMMA UnitsRun ==
    ASSUME NEW o \in Seq(Bundles), NEW i \in 1..Len(o), NEW at \in Nat, NEW n \in Nat,
           NEW todo \in Nat, n <= todo, todo > 0, at + todo <= Length[o[i]]
    PROVE  DataRun(o, Place(i, at, todo), Units(o[i], at + 1, at + n), After(o, i, at + n, todo - n))
<1> DEFINE us == Units(o[i], at + 1, at + n)
           g == [j \in 1..(n + 1) |-> After(o, i, at + (j - 1), todo - (j - 1))]
<1>0. o[i] \in Bundles /\ Length[o[i]] \in Nat /\ i \in Nat
  BY LengthsAssumption
<1>1. us \in Seq(Items) /\ Len(us) = n /\ \A j \in 1..n : us[j] = Unit(o[i], at + j)
  BY <1>0, UnitsType
<1>2. g \in [1..(n + 1) -> DataPlaces]
  <2>1. \A j \in 1..(n + 1) : at + (j - 1) \in Nat /\ todo - (j - 1) \in Nat
    OBVIOUS
  <2> QED
    BY <1>0, <2>1, AfterType
<1>3. g[1] = Place(i, at, todo)
  <2>1. 1 \in 1..(n + 1) /\ at + (1 - 1) = at /\ todo - (1 - 1) = todo /\ at # Length[o[i]]
    BY <1>0
  <2> QED
    BY <2>1 DEF After
<1>4. g[n + 1] = After(o, i, at + n, todo - n)
  <2>1. n + 1 \in 1..(n + 1) /\ (n + 1) - 1 = n
    OBVIOUS
  <2> QED
    BY <2>1
<1>5. ASSUME NEW j \in 1..n PROVE <<g[j], us[j], g[j + 1]>> \in DataSteps(o)
  <2>1. /\ j \in 1..(n + 1) /\ j + 1 \in 1..(n + 1) /\ (j + 1) - 1 = j
        /\ at + (j - 1) \in Nat /\ todo - (j - 1) > 0 /\ todo - (j - 1) \in Nat
        /\ at + (j - 1) # Length[o[i]]
        /\ (at + (j - 1)) + 1 = at + j /\ (todo - (j - 1)) - 1 = todo - j /\ at + j \in Nat
    BY <1>0
  <2>2. g[j] = Place(i, at + (j - 1), todo - (j - 1))
    BY <2>1 DEF After
  <2>3. g[j + 1] = After(o, i, at + j, todo - j)
    BY <2>1
  <2>4. us[j] = Unit(o[i], at + j) /\ us[j] \in Items
    BY <1>1
  <2>5. g[j] \in DataPlaces /\ g[j + 1] \in DataPlaces
    BY <1>2, <2>1
  <2> HIDE DEF g, us
  <2>6. DataStep(o, g[j], us[j], g[j + 1])
    BY <2>1, <2>2, <2>3, <2>4 DEF DataStep, Place, Unit
  <2> QED
    BY <2>4, <2>5, <2>6 DEF DataSteps
<1> HIDE DEF g, us
<1>6. DataRun(o, Place(i, at, todo), us, After(o, i, at + n, todo - n))
  BY <1>1, <1>2, <1>3, <1>4, <1>5 DEF DataRun, Leads
<1> QED
  BY <1>6 DEF us

\* So do a segment's header and its units.
LEMMA SegmentRun ==
    ASSUME NEW o \in Seq(Bundles), NEW i \in 1..Len(o), NEW at \in Nat, NEW n \in Nat,
           NEW todo \in Nat, n <= todo, todo > 0, at + todo <= Length[o[i]]
    PROVE  LET header == Segment(todo, at = 0, todo = Length[o[i]] - at)
           IN  /\ <<header>> \o Units(o[i], at + 1, at + n) \in Seq(Items)
               /\ DataRun(o, Place(i, at, 0), <<header>> \o Units(o[i], at + 1, at + n),
                          After(o, i, at + n, todo - n))
<1> DEFINE header == Segment(todo, at = 0, todo = Length[o[i]] - at)
           us == Units(o[i], at + 1, at + n)
<1>0. o[i] \in Bundles /\ Length[o[i]] \in Nat /\ i \in Nat
  BY LengthsAssumption
<1>1. us \in Seq(Items)
  BY <1>0, UnitsType
<1>2. header \in Items
  BY <1>0 DEF Segment, Items
<1>3. DataStep(o, Place(i, at, 0), header, Place(i, at, todo))
  <2>1. (todo = Length[o[i]] - at) <=> (at + todo = Length[o[i]])
    BY <1>0
  <2> QED
    BY <1>0, <2>1 DEF DataStep, Place, Segment
<1>4. DataRun(o, Place(i, at, 0), <<header>>, Place(i, at, todo))
  BY <1>0, <1>2, <1>3, PlaceType, DataRunOne
<1>5. DataRun(o, Place(i, at, todo), us, After(o, i, at + n, todo - n))
  BY UnitsRun
<1>6. <<header>> \in Seq(Items)
  BY <1>2
<1> HIDE DEF header, us
<1>7. <<header>> \o us \in Seq(Items)
  BY <1>1, <1>6, Concat
<1>8. DataRun(o, Place(i, at, 0), <<header>> \o us, After(o, i, at + n, todo - n))
  BY <1>1, <1>4, <1>5, <1>6, DataRunOn, Zenon
<1> QED
  BY <1>7, <1>8 DEF header, us
LEMMA LengthType == \A b \in Bundles : Length[b] \in Nat /\ Length[b] > 0
BY LengthsAssumption

LEMMA FlightType ==
    ASSUME NEW F \in Seq(Flights), NEW k \in 1..Len(F)
    PROVE  /\ F[k] \in Flights /\ F[k].bundle \in Bundles
           /\ F[k].sent \in Nat /\ F[k].acked \in Nat /\ F[k].posted \in BOOLEAN
           /\ Length[F[k].bundle] \in Nat /\ Length[F[k].bundle] > 0
<1>1. F[k] \in Flights
  OBVIOUS
<1> QED
  BY <1>1, LengthType DEF Flights

LEMMA AppendIs ==
    ASSUME NEW S, NEW s \in Seq(S), NEW e \in S
    PROVE  /\ Append(s, e) \in Seq(S) /\ Len(Append(s, e)) = Len(s) + 1 /\ Append(s, e) # <<>>
           /\ Last(Append(s, e)) = e /\ Append(s, e)[Len(s) + 1] = e /\ Len(s) \in Nat
           /\ \A k \in 1..Len(s) : k \in 1..Len(Append(s, e)) /\ Append(s, e)[k] = s[k]
<1> DEFINE t == Append(s, e)
<1>1. /\ t \in Seq(S) /\ Len(t) = Len(s) + 1 /\ Len(s) \in Nat
      /\ t[Len(s) + 1] = e /\ \A k \in 1..Len(s) : t[k] = s[k]
  OBVIOUS
<1> HIDE DEF t
<1>2. t # <<>> /\ Last(t) = e
  BY <1>1 DEF Last
<1> QED
  BY <1>1, <1>2 DEF t

\* A bundle that is started, before its first header is written.
LEMMA BeginFlight ==
    ASSUME NEW o \in Seq(Bundles), NEW r \in [Bundles -> Nat], NEW F \in Seq(Flights),
           NEW b \in Bundles, FlightsOK(o, r, F, NoBundle, 0),
           \A k \in 1..Len(F) : F[k].bundle # b
    PROVE  LET G == Append(F, Flight(b))
           IN  /\ G \in Seq(Flights) /\ FlightsOK(o, r, G, b, 0)
               /\ SendAt(o, G, 0) = SendAt(o, F, 0) /\ AckedAt(o, G, 0) = AckedAt(o, F, 0)
<1> DEFINE f == Flight(b)
           G == Append(F, f)
           n == Len(F)
<1>1. f \in Flights /\ f.bundle = b /\ f.sent = 0 /\ f.acked = 0 /\ f.posted = FALSE
  BY DEF Flight, Flights
<1> HIDE DEF f
<1>2. /\ n \in Nat /\ G \in Seq(Flights) /\ Len(G) = n + 1 /\ G # <<>>
      /\ \A k \in 1..n : G[k] = F[k]
      /\ G[n + 1] = f /\ Last(G) = f
      /\ F # <<>> => n > 0 /\ Last(F) = F[n] /\ n \in 1..n
      /\ F = <<>> => n = 0
      /\ Len(o) \in Nat
  <2>1. /\ F # <<>> => n > 0 /\ Last(F) = F[n] /\ n \in 1..n
        /\ F = <<>> => n = 0
        /\ Len(o) \in Nat
    BY DEF Last
  <2> QED
    BY <1>1, <2>1, AppendIs
<1> HIDE DEF G
<1>3. NoBundle \notin Bundles
  BY QueuedAssumption
<1>4. F # <<>> => /\ Last(F).sent = Length[F[n].bundle]
                  /\ Length[F[n].bundle] > 0 /\ Length[F[n].bundle] \in Nat
  BY <1>2, FlightType DEF FlightsOK
<1>5. Begun(F, 0) = n /\ ~Unsent(F, 0) /\ Unsent(G, 0) /\ Begun(G, 0) = n
  BY <1>1, <1>2, <1>4 DEF Begun, Unsent
<1>6. n <= Len(o)
  BY <1>5 DEF FlightsOK
<1>7. \A k \in 1..n : FlightOK(o, r, F, NoBundle, 0, k)
  BY DEF FlightsOK
<1>8. ASSUME NEW k \in 1..n PROVE FlightOK(o, r, G, b, 0, k)
  <2>1. G[k] = F[k] /\ F[k].bundle \in Bundles /\ F[k].posted \in BOOLEAN
    BY <1>2, FlightType
  <2>2. ~F[k].posted
    BY <1>3, <1>7, <2>1 DEF FlightOK
  <2>3. F[k].sent = Length[F[k].bundle]
    <3>1. CASE k = n
      BY <1>2, <1>4, <3>1
    <3>2. CASE k # n
      BY <1>2, <1>7, <3>2 DEF FlightOK
    <3> QED
      BY <3>1, <3>2
  <2>4. FlightOK(o, r, F, NoBundle, 0, k) /\ k <= n /\ n \in Nat
    BY <1>2, <1>7
  <2> HIDE DEF n
  <2> QED
    BY <1>5, <2>1, <2>2, <2>3, <2>4 DEF FlightOK
<1>9. FlightOK(o, r, G, b, 0, n + 1)
  <2>1. r[b] \in Nat /\ Length[b] \in Nat /\ Length[b] > 0
    BY LengthType
  <2> HIDE DEF n
  <2> QED
    BY <1>1, <1>2, <1>5, <2>1 DEF FlightOK
<1>10. FlightsOK(o, r, G, b, 0)
  <2>1. \A k \in 1..Len(G) : FlightOK(o, r, G, b, 0, k)
    BY <1>2, <1>8, <1>9
  <2>2. \A j, k \in 1..Len(G) : G[j].bundle = G[k].bundle => j = k
    <3>1. \A j, k \in 1..n : F[j].bundle = F[k].bundle => j = k
      BY DEF FlightsOK
    <3>2. \A k \in 1..n : G[k].bundle = F[k].bundle /\ G[k].bundle # b
      BY <1>2
    <3> HIDE DEF n
    <3>3. \A k \in 1..Len(G) : k \in 1..n \/ (k = n + 1 /\ G[k].bundle = b)
      BY <1>1, <1>2
    <3> QED
      BY <3>1, <3>2, <3>3
  <2>3. G # <<>> /\ Last(G).bundle = b /\ b # NoBundle
    BY <1>1, <1>2, <1>3
  <2>4. Begun(G, 0) <= Len(o)
    BY <1>5, <1>6
  <2> HIDE DEF n
  <2> QED
    BY <2>1, <2>2, <2>3, <2>4 DEF FlightsOK
<1>11. SendAt(o, G, 0) = SendAt(o, F, 0)
  BY <1>2, <1>4, <1>5 DEF SendAt
<1>12. AckedAt(o, G, 0) = AckedAt(o, F, 0)
  <2>1. CASE F = <<>>
    BY <1>1, <1>2, <1>5, <2>1 DEF AckedAt
  <2>2. CASE F # <<>>
    BY <1>2, <1>5, <2>2 DEF AckedAt
  <2> QED
    BY <2>1, <2>2
<1> QED
  BY <1>2, <1>10, <1>11, <1>12 DEF G, f

\* What send_data_todo does: n units of the last bundle, out of the todo that
\* are left of its segment; o2 counts the bundle if its first header went out.
DataGoes(o, o2, r, H, f, g, cur, todo1, todo, n) ==
    /\ o \in Seq(Bundles) /\ o2 \in Seq(Bundles) /\ r \in [Bundles -> Nat]
    /\ H \in Seq(Flights) /\ f \in Flights /\ g \in Flights /\ cur \in Bundles
    /\ todo1 \in Nat /\ todo \in Nat /\ n \in Nat
    /\ FlightsOK(o, r, Append(H, f), cur, todo1)
    /\ todo > 0 /\ n <= todo /\ f.sent + todo <= Length[f.bundle]
    /\ \/ todo1 = todo /\ o2 = o
       \/ todo1 = 0 /\ f.sent = 0 /\ o2 = Append(o, f.bundle)
       \/ todo1 = 0 /\ f.sent # 0 /\ o2 = o
    /\ g.bundle = f.bundle /\ g.sent = f.sent + n /\ g.acked = f.acked /\ g.posted = f.posted

LEMMA SendFlight ==
    ASSUME NEW o, NEW o2, NEW r, NEW H, NEW f, NEW g, NEW cur, NEW todo1, NEW todo, NEW n,
           DataGoes(o, o2, r, H, f, g, cur, todo1, todo, n)
    PROVE  /\ Append(H, g) \in Seq(Flights) /\ FlightsOK(o2, r, Append(H, g), cur, todo - n)
           /\ Len(o2) \in 1..Len(o2) /\ o2[Len(o2)] = f.bundle
           /\ SendAt(o, Append(H, f), todo1) = Place(Len(o2), f.sent, todo1)
           /\ SendAt(o2, Append(H, g), todo - n) = After(o2, Len(o2), f.sent + n, todo - n)
           /\ AckedAt(o2, Append(H, g), todo - n) = AckedAt(o, Append(H, f), todo1)
<1> USE DEF DataGoes
<1> DEFINE F == Append(H, f)
           G == Append(H, g)
           m == Len(H) + 1
<1>1. /\ g \in Flights /\ g.bundle = f.bundle /\ g.sent = f.sent + n /\ g.acked = f.acked
      /\ g.posted = f.posted
      /\ f.sent \in Nat /\ f.acked \in Nat /\ f.bundle \in Bundles /\ f.posted \in BOOLEAN
      /\ Length[f.bundle] \in Nat /\ Length[f.bundle] > 0
  BY LengthType DEF Flights
<1>2. /\ m \in Nat /\ m > 0 /\ F \in Seq(Flights) /\ G \in Seq(Flights) /\ Len(F) = m /\ Len(G) = m
      /\ F # <<>> /\ G # <<>> /\ Last(F) = f /\ Last(G) = g /\ F[m] = f /\ G[m] = g
      /\ \A k \in 1..m : k # m => G[k] = F[k]
      /\ \A k \in 1..m : G[k].bundle = F[k].bundle /\ G[k].posted = F[k].posted
                         /\ G[k].acked = F[k].acked
  <2>1. /\ m \in Nat /\ m > 0 /\ F \in Seq(Flights) /\ G \in Seq(Flights) /\ Len(F) = m /\ Len(G) = m
        /\ F # <<>> /\ G # <<>> /\ Last(F) = f /\ Last(G) = g /\ F[m] = f /\ G[m] = g
        /\ \A k \in 1..m : k # m => G[k] = F[k]
    <3>1. \A k \in 1..m : k # m => k \in 1..Len(H)
      OBVIOUS
    <3>2. /\ F \in Seq(Flights) /\ Len(F) = m /\ F # <<>> /\ Last(F) = f /\ F[m] = f
          /\ m \in Nat /\ m > 0 /\ \A k \in 1..Len(H) : F[k] = H[k]
      BY AppendIs
    <3>3. /\ G \in Seq(Flights) /\ Len(G) = m /\ G # <<>> /\ Last(G) = g /\ G[m] = g
          /\ \A k \in 1..Len(H) : G[k] = H[k]
      BY AppendIs
    <3> HIDE DEF F, G, m
    <3> QED
      BY <3>1, <3>2, <3>3
  <2> HIDE DEF F, G, m
  <2> QED
    BY <1>1, <2>1
<1> HIDE DEF F, G, m
<1>3. /\ f.sent < Length[f.bundle] /\ ~(todo - n = 0 /\ g.sent = 0) /\ todo - n \in Nat
      /\ f.sent + n <= Length[f.bundle] /\ f.sent + n \in Nat
  <2>1. f.sent \in Nat /\ Length[f.bundle] \in Nat /\ g.sent = f.sent + n
    BY <1>1
  <2>2. f.sent < Length[f.bundle] /\ f.sent + n <= Length[f.bundle] /\ f.sent + n \in Nat
    <3> DEFINE u == f.sent
               v == Length[f.bundle]
    <3>1. u \in Nat /\ v \in Nat /\ u + todo <= v
      BY <2>1
    <3> HIDE DEF u, v
    <3>2. u < v /\ u + n <= v /\ u + n \in Nat
      BY <3>1
    <3> QED
      BY <3>2 DEF u, v
  <2>3. todo - n \in Nat /\ (todo - n = 0 => f.sent + n # 0)
    BY <2>1
  <2> QED
    BY <2>1, <2>2, <2>3
<1>4. ~Unsent(G, todo - n) /\ Begun(G, todo - n) = m
  BY <1>2, <1>3 DEF Unsent, Begun
<1>5. /\ Begun(F, todo1) <= Len(o)
      /\ \A k \in 1..m : FlightOK(o, r, F, cur, todo1, k)
      /\ \A j, k \in 1..m : F[j].bundle = F[k].bundle => j = k
      /\ f.bundle = cur /\ cur # NoBundle
  <2>1. NoBundle \notin Bundles
    BY QueuedAssumption
  <2> QED
    BY <1>2, <2>1 DEF FlightsOK, F
<1>6. /\ Len(o2) \in Nat /\ m <= Len(o2) /\ o2[Len(o2)] = f.bundle
      /\ Len(o) \in Nat
      /\ Len(o2) - m = Len(o) - Begun(F, todo1)
      /\ \A k \in 1..(m - 1) : o2[(Len(o2) - m) + k] = F[k].bundle
      /\ SendAt(o, F, todo1) = Place(Len(o2), f.sent, todo1)
  <2>1. Len(o) \in Nat
    OBVIOUS
  <2>2. CASE Unsent(F, todo1)
    <3>1. todo1 = 0 /\ f.sent = 0 /\ Begun(F, todo1) = m - 1
      BY <1>2, <2>2 DEF Unsent, Begun
    <3>2. o2 = Append(o, f.bundle)
      BY <1>3, <3>1
    <3>3. Len(o2) = Len(o) + 1 /\ o2[Len(o2)] = f.bundle /\ \A j \in 1..Len(o) : o2[j] = o[j]
      BY <1>1, <3>2, Appended
    <3>4. SendAt(o, F, todo1) = Place(Len(o2), f.sent, todo1)
      BY <2>2, <3>1, <3>3 DEF SendAt
    <3>5. ASSUME NEW k \in 1..(m - 1) PROVE o2[(Len(o2) - m) + k] = F[k].bundle
      <4>1. k \in 1..m /\ k <= m - 1 /\ (Len(o) - (m - 1)) + k \in 1..Len(o)
            /\ (Len(o2) - m) + k = (Len(o) - (m - 1)) + k
        BY <1>2, <1>5, <2>1, <3>1, <3>3
      <4>2. F[k].bundle = o[(Len(o) - (m - 1)) + k]
        BY <1>5, <3>1, <4>1 DEF FlightOK
      <4> QED
        BY <3>3, <4>1, <4>2
    <3> QED
      BY <1>2, <1>5, <2>1, <3>1, <3>3, <3>4, <3>5
  <2>3. CASE ~Unsent(F, todo1)
    <3>1. Begun(F, todo1) = m
      BY <1>2, <2>3 DEF Begun
    <3>2. o2 = o
      <4>1. CASE todo1 = 0
        BY <1>2, <1>3, <2>3, <4>1 DEF Unsent
      <4>2. CASE todo1 # 0
        BY <4>2
      <4> QED
        BY <4>1, <4>2
    <3>3. \A k \in 1..m : F[k].bundle = o[(Len(o) - m) + k]
      BY <1>5, <3>1 DEF FlightOK
    <3>4. (Len(o) - m) + m = Len(o) /\ m \in 1..m /\ \A k \in 1..(m - 1) : k \in 1..m
      BY <1>2, <2>1
    <3>5. SendAt(o, F, todo1) = Place(Len(o), f.sent, todo1)
      BY <1>2, <1>3, <2>3 DEF SendAt
    <3> QED
      BY <1>2, <1>5, <2>1, <3>1, <3>2, <3>3, <3>4, <3>5
  <2> QED
    BY <2>2, <2>3
<1>7. ASSUME NEW k \in 1..m PROVE FlightOK(o2, r, G, cur, todo - n, k)
  <2>1. CASE k = m
    <3>1. FlightOK(o, r, F, cur, todo1, m) /\ (Len(o2) - m) + m = Len(o2) /\ m \in 1..m
      BY <1>2, <1>5, <1>6
    <3>2. /\ f.acked <= f.sent /\ f.acked <= r[f.bundle] /\ (m > 1 => f.acked = 0)
          /\ f.posted <=> f.acked = Length[f.bundle]
          /\ f.posted => f.bundle = cur
      BY <1>2, <3>1 DEF FlightOK
    <3>3. g.acked <= g.sent /\ g.sent <= Length[g.bundle]
      <4>1. f.acked <= f.sent + n
        BY <1>1, <3>2
      <4> QED
        BY <1>1, <1>3, <4>1
    <3>5. /\ g.acked <= r[g.bundle] /\ (m > 1 => g.acked = 0)
          /\ g.posted <=> g.acked = Length[g.bundle]
          /\ g.posted => g.bundle = cur
      BY <1>1, <3>2
    <3>4. G[m] = g /\ Len(G) = m /\ g.bundle = o2[Len(o2)]
      BY <1>1, <1>2, <1>6
    <3>6. g.bundle = o2[(Len(o2) - Begun(G, todo - n)) + m] /\ ~(m < Len(G))
      <4>1. (Len(o2) - Begun(G, todo - n)) + m = Len(o2)
        BY <1>4, <3>1
      <4>2. ~(m < m)
        BY <1>2
      <4> QED
        BY <3>4, <4>1, <4>2
    <3>7. FlightOK(o2, r, G, cur, todo - n, m)
      <4> USE <3>3, <3>4, <3>5, <3>6
      <4> QED
        BY Zenon DEF FlightOK
    <3> QED
      BY <2>1, <3>7
  <2>2. CASE k # m
    <3>1. FlightOK(o, r, F, cur, todo1, k) /\ k \in 1..(m - 1) /\ G[k] = F[k]
      BY <1>2, <1>5, <2>2
    <3> QED
      BY <1>2, <1>4, <1>6, <3>1 DEF FlightOK
  <2> QED
    BY <2>1, <2>2
<1>8. FlightsOK(o2, r, G, cur, todo - n)
  <2>1. \A j, k \in 1..Len(G) : G[j].bundle = G[k].bundle => j = k
    BY <1>2, <1>5
  <2>2. Last(G).sent + (todo - n) <= Length[Last(G).bundle]
    BY <1>1, <1>2, <1>3
  <2>3. Begun(G, todo - n) <= Len(o2)
    BY <1>4, <1>6
  <2>4. G # <<>> /\ Last(G).bundle = cur /\ cur # NoBundle
    BY <1>1, <1>2, <1>5
  <2>5. \A k \in 1..Len(G) : FlightOK(o2, r, G, cur, todo - n, k)
    BY <1>2, <1>7
  <2> QED
    BY <2>1, <2>2, <2>3, <2>4, <2>5 DEF FlightsOK
<1>9. SendAt(o2, G, todo - n) = After(o2, Len(o2), f.sent + n, todo - n)
  <2>1. f.sent + n < Length[f.bundle] <=> f.sent + n # Length[f.bundle]
    <3> DEFINE u == f.sent + n
               v == Length[f.bundle]
    <3>1. u \in Nat /\ v \in Nat /\ u <= v
      BY <1>1, <1>3
    <3> HIDE DEF u, v
    <3>2. u < v <=> u # v
      BY <3>1
    <3> QED
      BY <3>2 DEF u, v
  <2>2. Last(G) = g /\ G # <<>> /\ g.sent = f.sent + n /\ g.bundle = f.bundle
    BY <1>1, <1>2
  <2> QED
    BY <1>4, <1>6, <2>1, <2>2 DEF SendAt, After
<1>10. AckedAt(o2, G, todo - n) = AckedAt(o, F, todo1)
  <2>1. 1 \in 1..m
    BY <1>2
  <2> QED
    BY <1>2, <1>4, <1>6, <2>1 DEF AckedAt
<1>11. Len(o2) \in 1..Len(o2)
  BY <1>2, <1>6
<1> QED
  BY <1>2, <1>6, <1>8, <1>9, <1>10, <1>11 DEF F, G
LEMMA TailIs ==
    ASSUME NEW S, NEW s \in Seq(S), s # <<>>
    PROVE  /\ Len(s) \in Nat /\ Len(s) > 0 /\ Head(s) = s[1] /\ Head(s) \in S
           /\ Last(s) = s[Len(s)] /\ Last(s) \in S /\ Len(s) \in 1..Len(s)
           /\ Tail(s) \in Seq(S) /\ Len(Tail(s)) = Len(s) - 1
           /\ \A k \in 1..(Len(s) - 1) : k + 1 \in 1..Len(s) /\ Tail(s)[k] = s[k + 1]
           /\ Tail(s) = <<>> <=> Len(s) = 1
           /\ Tail(s) # <<>> => Last(Tail(s)) = Last(s)
<1> DEFINE t == Tail(s)
<1>1. /\ Len(s) \in Nat /\ Len(s) > 0 /\ Head(s) = s[1] /\ Head(s) \in S
      /\ Last(s) = s[Len(s)] /\ Last(s) \in S
      /\ t \in Seq(S) /\ Len(t) = Len(s) - 1
      /\ \A k \in 1..(Len(s) - 1) : t[k] = s[k + 1]
  BY DEF Last
<1> HIDE DEF t
<1>2. \A k \in 1..(Len(s) - 1) : k + 1 \in 1..Len(s)
  BY <1>1
<1>3. t = <<>> <=> Len(s) = 1
  BY <1>1
<1>4. t # <<>> => Last(t) = Last(s)
  <2>1. Last(t) = t[Len(s) - 1]
    BY <1>1 DEF Last
  <2>2. t # <<>> => Len(s) - 1 \in 1..(Len(s) - 1) /\ (Len(s) - 1) + 1 = Len(s)
    BY <1>1, <1>3
  <2> QED
    BY <1>1, <2>1, <2>2
<1>5. Len(s) \in 1..Len(s)
  BY <1>1
<1> QED
  BY <1>1, <1>2, <1>3, <1>4, <1>5 DEF t

LEMMA PrefixIs ==
    ASSUME NEW S, NEW s \in Seq(S), NEW n \in 0..Len(s)
    PROVE  /\ SubSeq(s, 1, n) \in Seq(S) /\ Len(SubSeq(s, 1, n)) = n
           /\ \A j \in 1..n : SubSeq(s, 1, n)[j] = s[j]
<1>1. n \in Nat /\ n <= Len(s)
  OBVIOUS
<1>2. \A j \in 1..n : j \in 1..Len(s) /\ 1 + j - 1 = j /\ s[j] \in S
  BY <1>1
<1>3. SubSeq(s, 1, n) \in Seq(S)
  BY <1>1, <1>2
<1>4. Len(SubSeq(s, 1, n)) = n
  BY <1>1
<1>5. \A j \in 1..n : SubSeq(s, 1, n)[j] = s[j]
  BY <1>1, <1>2
<1> QED
  BY <1>3, <1>4, <1>5

LEMMA NewHeadIs ==
    ASSUME NEW S, NEW s \in Seq(S), s # <<>>, NEW e \in S
    PROVE  /\ <<e>> \o Tail(s) \in Seq(S) /\ Len(<<e>> \o Tail(s)) = Len(s)
           /\ <<e>> \o Tail(s) # <<>> /\ (<<e>> \o Tail(s))[1] = e
           /\ \A k \in 1..Len(s) : k # 1 => (<<e>> \o Tail(s))[k] = s[k]
           /\ Len(s) > 1 => Last(<<e>> \o Tail(s)) = Last(s)
           /\ Len(s) = 1 => Last(<<e>> \o Tail(s)) = e /\ Last(s) = Head(s)
<1> DEFINE t == Tail(s)
           u == <<e>> \o t
<1>1. /\ Len(s) \in Nat /\ Len(s) > 0 /\ t \in Seq(S) /\ Len(t) = Len(s) - 1
      /\ \A k \in 1..(Len(s) - 1) : t[k] = s[k + 1]
      /\ Last(s) = s[Len(s)] /\ Head(s) = s[1]
  BY TailIs
<1> HIDE DEF t
<1>2. /\ u \in Seq(S) /\ Len(u) = Len(s) /\ u[1] = e
      /\ \A k \in 1..Len(s) : k # 1 => u[k] = t[k - 1]
  BY <1>1
<1> HIDE DEF u
<1>3. \A k \in 1..Len(s) : k # 1 => u[k] = s[k]
  <2> TAKE k \in 1..Len(s)
  <2>1. k # 1 => k - 1 \in 1..(Len(s) - 1) /\ (k - 1) + 1 = k
    BY <1>1
  <2> QED
    BY <1>1, <1>2, <2>1
<1>4. u # <<>> /\ Last(u) = u[Len(s)]
  BY <1>1, <1>2 DEF Last
<1>5. Len(s) \in 1..Len(s)
  BY <1>1
<1> QED
  BY <1>1, <1>2, <1>3, <1>4, <1>5 DEF u, t

\* What a bundle in flight is.
LEMMA FlightIs ==
    ASSUME NEW o \in Seq(Bundles), NEW r \in [Bundles -> Nat], NEW F \in Seq(Flights),
           NEW cur \in Bundles \cup {NoBundle}, NEW todo \in Nat, FlightsOK(o, r, F, cur, todo),
           NEW k \in 1..Len(F)
    PROVE  LET f == F[k] IN
           /\ f \in Flights /\ f.bundle \in Bundles /\ f.sent \in Nat /\ f.acked \in Nat
           /\ f.posted \in BOOLEAN /\ Length[f.bundle] \in Nat /\ Length[f.bundle] > 0
           /\ f.acked <= f.sent /\ f.sent <= Length[f.bundle] /\ f.acked <= r[f.bundle]
           /\ k <= Begun(F, todo) => f.bundle = o[(Len(o) - Begun(F, todo)) + k]
           /\ k > 1 => f.acked = 0
           /\ k < Len(F) => f.sent = Length[f.bundle]
           /\ f.posted <=> f.acked = Length[f.bundle]
           /\ f.posted => f.bundle = cur
<1>1. FlightOK(o, r, F, cur, todo, k)
  BY DEF FlightsOK
<1> QED
  BY <1>1, FlightType DEF FlightOK

LEMMA BegunIs ==
    ASSUME NEW F \in Seq(Flights), NEW todo
    PROVE  /\ Begun(F, todo) \in Nat /\ Len(F) \in Nat /\ Begun(F, todo) <= Len(F)
           /\ Unsent(F, todo) => Begun(F, todo) = Len(F) - 1 /\ Len(F) > 0
           /\ ~Unsent(F, todo) => Begun(F, todo) = Len(F)
BY DEF Begun, Unsent

\* A flight that has been reported as transmitted is the only one.
LEMMA PostedAlone ==
    ASSUME NEW o \in Seq(Bundles), NEW r \in [Bundles -> Nat], NEW F \in Seq(Flights),
           NEW cur \in Bundles \cup {NoBundle}, NEW todo \in Nat,
           FlightsOK(o, r, F, cur, todo), NEW k \in 1..Len(F), F[k].posted
    PROVE  Len(F) = 1 /\ k = 1 /\ cur = F[1].bundle /\ ~Unsent(F, todo)
<1>1. /\ F[k].bundle = cur /\ F[k].acked = Length[F[k].bundle] /\ F[k].acked > 0
      /\ F[k].acked <= F[k].sent /\ F[k].sent \in Nat /\ F[k].acked \in Nat /\ cur \in Bundles
      /\ (k > 1 => F[k].acked = 0)
  <2>1. /\ F[k].bundle \in Bundles /\ F[k].sent \in Nat /\ F[k].acked \in Nat
        /\ Length[F[k].bundle] > 0 /\ F[k].acked <= F[k].sent
        /\ k > 1 => F[k].acked = 0
    BY FlightIs
  <2>2. F[k].posted => F[k].bundle = cur
    <3>1. FlightOK(o, r, F, cur, todo, k)
      BY DEF FlightsOK
    <3> QED
      BY <3>1 DEF FlightOK
  <2>3. F[k].posted <=> F[k].acked = Length[F[k].bundle]
    BY FlightIs
  <2> QED
    BY <2>1, <2>2, <2>3
<1>2. k = 1
  BY <1>1
<1>3. cur # NoBundle
  BY <1>1, QueuedAssumption
<1>4. F # <<>> /\ Last(F) = F[Len(F)] /\ Len(F) \in 1..Len(F)
  BY DEF Last
<1>5. Len(F) = k
  BY <1>1, <1>3, <1>4 DEF FlightsOK
<1> QED
  BY <1>1, <1>2, <1>4, <1>5 DEF Unsent

\* Where the sender is in terms of its first flight.
LEMMA AckedAtIs ==
    ASSUME NEW o \in Seq(Bundles), NEW r \in [Bundles -> Nat], NEW F \in Seq(Flights),
           NEW cur \in Bundles \cup {NoBundle}, NEW todo \in Nat,
           FlightsOK(o, r, F, cur, todo)
    PROVE  LET p == AckedAt(o, F, todo)
           IN  /\ p \in AckPlaces
               /\ p.i \in 1..Len(o) => /\ F # <<>> /\ ~F[1].posted /\ Begun(F, todo) > 0
                                       /\ p = Mark((Len(o) - Begun(F, todo)) + 1, F[1].acked)
                                       /\ o[p.i] = F[1].bundle
<1> DEFINE B == Begun(F, todo)
           base == Len(o) - B
<1>1. B \in Nat /\ B <= Len(o) /\ Len(o) \in Nat /\ base \in Nat
  BY BegunIs DEF FlightsOK
<1>2. CASE F = <<>>
  <2>1. B = 0 /\ AckedAt(o, F, todo) = Mark(base + 1, 0)
    BY <1>2 DEF AckedAt, Begun, Unsent
  <2> HIDE DEF B
  <2> QED
    BY <1>1, <2>1 DEF Mark, AckPlaces
<1>3. CASE F # <<>>
  <2>1. 1 \in 1..Len(F)
    BY <1>3
  <2>2. CASE F[1].posted
    <3>1. AckedAt(o, F, todo) = Mark(base + 2, 0)
      BY <1>3, <2>2 DEF AckedAt
    <3>2. B = 1
      BY <2>1, <2>2, PostedAlone, BegunIs
    <3> HIDE DEF B
    <3> QED
      BY <1>1, <3>1, <3>2 DEF Mark, AckPlaces
  <2>3. CASE ~F[1].posted
    <3>1. AckedAt(o, F, todo) = Mark(base + 1, F[1].acked)
      BY <1>3, <2>3 DEF AckedAt
    <3>2. F[1].acked \in Nat
      BY <2>1, FlightIs
    <3>5. 1 <= B => F[1].bundle = o[base + 1]
      <4>1. FlightOK(o, r, F, cur, todo, 1)
        BY <2>1 DEF FlightsOK
      <4> QED
        BY <4>1 DEF FlightOK
    <3>3. base + 1 \in 1..Len(o) => B > 0
      BY <1>1
    <3>4. B > 0 => 1 <= B
      BY <1>1
    <3> HIDE DEF B, base
    <3> QED
      BY <1>1, <1>3, <2>3, <3>1, <3>2, <3>3, <3>4, <3>5 DEF Mark, AckPlaces, base, B
  <2> QED
    BY <2>2, <2>3
<1> QED
  BY <1>2, <1>3
\* The bundles in flight after an acknowledgement of len units.
AfterAck(F, cur, len) ==
    LET f == [Head(F) EXCEPT !.acked = len]
        final == len = Length[f.bundle]
    IN  IF final /\ cur # f.bundle THEN Tail(F)
        ELSE <<[f EXCEPT !.posted = @ \/ final]>> \o Tail(F)

\* The peer's acknowledgement, as handle_ack_segment takes it.
LEMMA AckFlight ==
    ASSUME NEW o \in Seq(Bundles), NEW r \in [Bundles -> Nat], NEW F \in Seq(Flights),
           NEW cur \in Bundles \cup {NoBundle}, NEW todo \in Nat, FlightsOK(o, r, F, cur, todo),
           NEW x \in Items, x.type = "ack", NEW q \in AckPlaces,
           AckStep(o, r, AckedAt(o, F, todo), x, q), NotAhead(q, SendAt(o, F, todo))
    PROVE  LET G == AfterAck(F, cur, x.len)
           IN  /\ F # <<>> /\ x.len > Head(F).acked /\ x.len \in Nat /\ ~Head(F).posted
               /\ x.len <= r[Head(F).bundle] /\ x.len <= Length[Head(F).bundle]
               /\ G \in Seq(Flights) /\ FlightsOK(o, r, G, cur, todo)
               /\ SendAt(o, G, todo) = SendAt(o, F, todo) /\ AckedAt(o, G, todo) = q
               /\ Unsent(G, todo) <=> Unsent(F, todo)
<1> USE DEF AfterAck
<1> DEFINE p == AckedAt(o, F, todo)
           len == x.len
           f1 == Head(F)
           b == f1.bundle
           n == Len(F)
           B == Begun(F, todo)
           base == Len(o) - B
           final == len = Length[b]
<1>1. /\ p \in AckPlaces /\ p.i \in 1..Len(o) /\ len \in Nat
      /\ len > p.n /\ len <= r[o[p.i]] /\ len <= Length[o[p.i]]
      /\ q = IF len = Length[o[p.i]] THEN Mark(p.i + 1, 0) ELSE Mark(p.i, len)
  BY AckedAtIs DEF AckStep, Items
<1>2. /\ F # <<>> /\ ~F[1].posted /\ B > 0 /\ p = Mark(base + 1, F[1].acked)
      /\ o[p.i] = F[1].bundle
  BY <1>1, AckedAtIs
<1>3. /\ n \in Nat /\ n > 0 /\ f1 = F[1] /\ 1 \in 1..n /\ f1 \in Flights
      /\ Tail(F) \in Seq(Flights) /\ Len(Tail(F)) = n - 1
      /\ \A k \in 1..(n - 1) : k + 1 \in 1..n /\ Tail(F)[k] = F[k + 1]
      /\ Tail(F) = <<>> <=> n = 1
      /\ Tail(F) # <<>> => Last(Tail(F)) = Last(F)
      /\ Last(F) = F[n] /\ n \in 1..n
  <2>1. /\ n \in Nat /\ n > 0 /\ n \in 1..n /\ Tail(F) \in Seq(Flights) /\ Len(Tail(F)) = n - 1
        /\ Last(F) = F[n]
    BY <1>2, TailIs
  <2>2. \A k \in 1..(n - 1) : k + 1 \in 1..n /\ Tail(F)[k] = F[k + 1]
    BY <1>2, TailIs
  <2>3. Tail(F) = <<>> <=> n = 1
    BY <1>2, TailIs
  <2>4. Tail(F) # <<>> => Last(Tail(F)) = Last(F)
    BY <1>2, TailIs
  <2>5. 1 \in 1..n /\ f1 \in Flights
    BY <2>1
  <2> HIDE DEF n
  <2> QED
    BY <2>1, <2>2, <2>3, <2>4, <2>5
<1>4. /\ b \in Bundles /\ f1.sent \in Nat /\ f1.acked \in Nat /\ f1.posted \in BOOLEAN
      /\ Length[b] \in Nat /\ Length[b] > 0 /\ f1.sent <= Length[b] /\ f1.acked <= f1.sent
      /\ 1 < n => f1.sent = Length[b]
  <2>1. /\ F[1].bundle \in Bundles /\ F[1].sent \in Nat /\ F[1].acked \in Nat
        /\ F[1].posted \in BOOLEAN /\ Length[F[1].bundle] \in Nat /\ Length[F[1].bundle] > 0
    BY <1>3, FlightType
  <2>2. FlightOK(o, r, F, cur, todo, 1)
    BY <1>3 DEF FlightsOK
  <2>3. /\ F[1].sent <= Length[F[1].bundle] /\ F[1].acked <= F[1].sent
        /\ 1 < n => F[1].sent = Length[F[1].bundle]
    BY <2>2 DEF FlightOK
  <2> QED
    BY <1>3, <2>1, <2>3
<1>5. /\ len > f1.acked /\ len <= r[b] /\ len <= Length[b] /\ ~f1.posted
      /\ q = IF final THEN Mark(base + 2, 0) ELSE Mark(base + 1, len)
  <2>1. p.i = base + 1 /\ p.n = f1.acked /\ o[p.i] = b /\ (base + 1) + 1 = base + 2
    BY <1>2, <1>3, AckedAtIs, BegunIs DEF Mark, FlightsOK
  <2> HIDE DEF p, b, f1, base, B
  <2> QED
    BY <1>1, <1>2, <1>3, <2>1
<1>6. /\ B \in Nat /\ B <= n /\ B <= Len(o) /\ Len(o) \in Nat /\ base \in Nat
      /\ (Unsent(F, todo) => B = n - 1) /\ (~Unsent(F, todo) => B = n)
  BY BegunIs DEF FlightsOK
<1> HIDE DEF p, len, f1, b, n, B, base, final
\* Nothing is acknowledged that was not sent.
<1>7. len <= f1.sent
  <2>1. CASE n > 1
    BY <1>3, <1>4, <1>5, <2>1
  <2>2. CASE n = 1 /\ f1.sent = Length[b]
    BY <1>5, <2>2
  <2>3. CASE n = 1 /\ f1.sent # Length[b]
    <3>1. ~Unsent(F, todo) /\ B = 1
      BY <1>2, <1>6, <2>3
    <3>2. SendAt(o, F, todo) = Place(Len(o), f1.sent, todo)
      BY <1>2, <1>3, <1>4, <2>3, <3>1 DEF SendAt, b
    <3>3. base = Len(o) - 1 /\ base + 1 = Len(o) /\ base + 2 = Len(o) + 1
      BY <1>6, <3>1 DEF base
    <3>4. ~final
      BY <1>5, <1>6, <3>2, <3>3 DEF NotAhead, Place, Mark
    <3> QED
      BY <1>5, <1>6, <3>2, <3>3, <3>4 DEF NotAhead, Place, Mark
  <2> QED
    BY <1>3, <2>1, <2>2, <2>3
<1>8. Unsent(F, todo) => n > 1
  BY <1>2, <1>3, <1>6
<1>9. /\ \A k \in 1..n : FlightOK(o, r, F, cur, todo, k)
      /\ \A j, k \in 1..n : F[j].bundle = F[k].bundle => j = k
      /\ cur = NoBundle => todo = 0 /\ Last(F).sent = Length[Last(F).bundle]
      /\ cur # NoBundle => Last(F).bundle = cur
      /\ todo > 0 => Last(F).sent + todo <= Length[Last(F).bundle]
  BY <1>2 DEF FlightsOK, n
<1>10. CASE final /\ cur # b
  <2> DEFINE G == Tail(F)
  <2>1. /\ G \in Seq(Flights) /\ Len(G) = n - 1 /\ (G = <<>> <=> n = 1)
        /\ \A k \in 1..(n - 1) : k + 1 \in 1..n /\ G[k] = F[k + 1]
        /\ G # <<>> => Last(G) = Last(F)
    BY <1>3
  <2> HIDE DEF G
  <2>2. f1.sent = Length[b]
    BY <1>4, <1>5, <1>7, <1>10 DEF final
  <2>3. n = 1 => cur = NoBundle /\ ~Unsent(F, todo) /\ todo = 0
    BY <1>3, <1>8, <1>9, <1>10 DEF b
  <2>4. Unsent(G, todo) <=> Unsent(F, todo)
    BY <1>2, <1>3, <2>1, <2>3 DEF Unsent
  <2>5. Begun(G, todo) = B - 1
    BY <1>3, <1>6, <2>1, <2>4 DEF Begun
  <2>6. ASSUME NEW k \in 1..(n - 1) PROVE FlightOK(o, r, G, cur, todo, k) /\ G[k].acked = 0
    <3>1. FlightOK(o, r, F, cur, todo, k + 1) /\ G[k] = F[k + 1] /\ k + 1 > 1 /\ k \in Nat
      BY <1>9, <2>1
    <3>2. (Len(o) - (B - 1)) + k = (Len(o) - B) + (k + 1) /\ (k <= B - 1 <=> k + 1 <= B)
          /\ (k < n - 1 <=> k + 1 < n)
      BY <1>3, <1>6
    <3> QED
      BY <2>1, <2>5, <3>1, <3>2 DEF FlightOK, B, n
  <2>7. \A j, k \in 1..(n - 1) : G[j].bundle = G[k].bundle => j = k
    <3> TAKE j, k \in 1..(n - 1)
    <3>1. G[j].bundle = G[k].bundle => j + 1 = k + 1
      BY <1>9, <2>1
    <3> QED
      BY <1>3, <3>1
  <2>8. FlightsOK(o, r, G, cur, todo)
    <3>1. Begun(G, todo) <= Len(o)
      BY <1>6, <2>5
    <3>2. cur # NoBundle => G # <<>>
      BY <2>1, <2>3
    <3>3. todo > 0 => G # <<>>
      BY <2>1, <2>3
    <3> QED
      BY <1>9, <2>1, <2>6, <2>7, <3>1, <3>2, <3>3 DEF FlightsOK
  <2>9. SendAt(o, G, todo) = SendAt(o, F, todo)
    <3>1. CASE n = 1
      BY <1>2, <1>3, <1>4, <2>1, <2>2, <3>1 DEF SendAt, b
    <3>2. CASE n # 1
      BY <1>2, <2>1, <2>4, <3>2 DEF SendAt
    <3> QED
      BY <3>1, <3>2
  <2>10. AckedAt(o, G, todo) = q
    <3>1. Len(o) - Begun(G, todo) = base + 1 /\ (base + 1) + 1 = base + 2
      BY <1>6, <2>5 DEF base
    <3>2. q = Mark(base + 2, 0)
      BY <1>5, <1>10
    <3>3. CASE n = 1
      BY <2>1, <3>1, <3>2, <3>3 DEF AckedAt
    <3>4. CASE n # 1
      <4>1. 1 \in 1..(n - 1) /\ 1 \in 1..Len(G)
        BY <1>3, <2>1, <3>4
      <4>2. G[1].acked = 0 /\ ~G[1].posted
        <5>1. FlightOK(o, r, G, cur, todo, 1) /\ G[1].acked = 0
          BY <2>6, <4>1
        <5>2. Length[G[1].bundle] > 0 /\ Length[G[1].bundle] \in Nat
          BY <2>1, <4>1, FlightType
        <5>3. G[1].posted <=> G[1].acked = Length[G[1].bundle]
          BY <5>1 DEF FlightOK
        <5> QED
          BY <5>1, <5>2, <5>3
      <4> QED
        BY <2>1, <3>1, <3>2, <3>4, <4>2 DEF AckedAt
    <3> QED
      BY <3>3, <3>4
  <2> QED
    BY <1>1, <1>2, <1>5, <1>10, <2>1, <2>4, <2>8, <2>9, <2>10 DEF G, b, f1, final, len
<1>11. CASE ~(final /\ cur # b)
  <2> DEFINE g == [[f1 EXCEPT !.acked = len] EXCEPT !.posted = @ \/ final]
             G == <<g>> \o Tail(F)
  <2>1. /\ g \in Flights /\ g.bundle = b /\ g.sent = f1.sent /\ g.acked = len
        /\ (g.posted <=> final) /\ g.posted \in BOOLEAN
    <3>1. len \in Nat /\ final \in BOOLEAN /\ (f1.posted \/ final) = final
      BY <1>1, <1>4, <1>5 DEF len, final
    <3> QED
      BY <1>3, <1>4, <3>1 DEF Flights, b
  <2> HIDE DEF g
  <2>2. /\ G \in Seq(Flights) /\ Len(G) = n /\ G # <<>> /\ G[1] = g
        /\ \A k \in 1..n : k # 1 => G[k] = F[k]
        /\ n > 1 => Last(G) = Last(F)
        /\ n = 1 => Last(G) = g /\ Last(F) = f1
    BY <1>2, <2>1, NewHeadIs DEF n, f1
  <2> HIDE DEF G
  <2>3. \A k \in 1..n : G[k].bundle = F[k].bundle /\ G[k].sent = F[k].sent
    BY <1>3, <2>1, <2>2 DEF b
  <2>4. Last(G).bundle = Last(F).bundle /\ Last(G).sent = Last(F).sent
    BY <1>3, <2>1, <2>2 DEF b
  <2>5. (Unsent(G, todo) <=> Unsent(F, todo)) /\ Begun(G, todo) = B
    BY <1>2, <2>2, <2>4 DEF Unsent, Begun, B, n
  <2>6. ASSUME NEW k \in 1..n PROVE FlightOK(o, r, G, cur, todo, k)
    <3>1. FlightOK(o, r, F, cur, todo, k)
      BY <1>9
    <3>2. CASE k = 1
      <4>1. /\ f1.bundle = b /\ (1 <= B => b = o[(Len(o) - B) + 1])
            /\ (1 < n => f1.sent = Length[b])
        BY <1>3, <3>1, <3>2 DEF FlightOK, B, b, n
      <4>2. g.posted => g.bundle = cur
        BY <1>11, <2>1
      <4>3. g.posted <=> g.acked = Length[g.bundle]
        BY <2>1 DEF final
      <4>4. g.acked <= g.sent /\ g.sent <= Length[g.bundle] /\ g.acked <= r[g.bundle]
        BY <1>4, <1>5, <1>7, <2>1
      <4> QED
        BY <2>1, <2>2, <2>5, <3>2, <4>1, <4>2, <4>3, <4>4 DEF FlightOK
    <3>3. CASE k # 1
      BY <2>2, <2>5, <3>1, <3>3 DEF FlightOK, B, n
    <3> QED
      BY <3>2, <3>3
  <2>7. FlightsOK(o, r, G, cur, todo)
    <3>1. Begun(G, todo) <= Len(o)
      BY <1>6, <2>5
    <3>2. \A j, k \in 1..Len(G) : G[j].bundle = G[k].bundle => j = k
      BY <1>9, <2>2, <2>3
    <3>3. \A k \in 1..Len(G) : FlightOK(o, r, G, cur, todo, k)
      BY <2>2, <2>6
    <3> QED
      BY <1>9, <2>2, <2>4, <3>1, <3>2, <3>3 DEF FlightsOK
  <2>8. SendAt(o, G, todo) = SendAt(o, F, todo)
    BY <1>2, <2>2, <2>4, <2>5 DEF SendAt
  <2>9. AckedAt(o, G, todo) = q
    BY <1>5, <2>1, <2>2, <2>5 DEF AckedAt, base
  <2> QED
    BY <1>1, <1>2, <1>5, <1>11, <2>2, <2>5, <2>7, <2>8, <2>9 DEF G, g, b, f1, final, len
<1> QED
  BY <1>10, <1>11
\* finish_bundle, and check_completed.
LEMMA FinishFlight ==
    ASSUME NEW o \in Seq(Bundles), NEW r \in [Bundles -> Nat], NEW F \in Seq(Flights),
           NEW cur \in Bundles, FlightsOK(o, r, F, cur, 0), Last(F).sent = Length[Last(F).bundle]
    PROVE  LET G == IF Last(F).acked < Length[Last(F).bundle] THEN F ELSE Tail(F)
           IN  /\ F # <<>> /\ G \in Seq(Flights) /\ FlightsOK(o, r, G, NoBundle, 0)
               /\ \/ G = F
                  \/ G = <<>> /\ Len(F) = 1 /\ F[1].posted
               /\ SendAt(o, G, 0) = SendAt(o, F, 0) /\ AckedAt(o, G, 0) = AckedAt(o, F, 0)
<1> DEFINE n == Len(F)
           f == F[n]
<1>1. cur # NoBundle /\ cur \in Bundles \cup {NoBundle}
  BY QueuedAssumption
<1>2. F # <<>> /\ n \in Nat /\ n > 0 /\ n \in 1..n /\ Last(F) = f /\ 1 \in 1..n
  <2>1. F # <<>>
    BY <1>1 DEF FlightsOK
  <2> QED
    BY <2>1, TailIs
<1>3. /\ f.sent = Length[f.bundle] /\ f.sent > 0 /\ f.acked \in Nat /\ f.acked <= f.sent
      /\ f.bundle = cur /\ f.sent \in Nat
  <2>1. FlightOK(o, r, F, cur, 0, n) /\ f.bundle = cur
    BY <1>1, <1>2 DEF FlightsOK
  <2>2. f.acked <= f.sent
    BY <2>1 DEF FlightOK
  <2>3. f.acked \in Nat /\ Length[f.bundle] \in Nat /\ Length[f.bundle] > 0
    BY <1>2, FlightType
  <2> QED
    BY <1>2, <2>1, <2>2, <2>3
<1>4. ~Unsent(F, 0) /\ Begun(F, 0) = n
  BY <1>2, <1>3 DEF Unsent, Begun
<1>5. SendAt(o, F, 0) = Place(Len(o) + 1, 0, 0)
  BY <1>2, <1>3 DEF SendAt
<1>6. CASE f.acked < Length[f.bundle]
  <2>1. ASSUME NEW k \in 1..n PROVE FlightOK(o, r, F, NoBundle, 0, k)
    <3>1. FlightOK(o, r, F, cur, 0, k)
      BY DEF FlightsOK
    <3>2. ~F[k].posted
      <4>1. F[k].posted => k = n
        BY <1>2, <1>3, <3>1 DEF FlightOK, FlightsOK
      <4>2. k = n => ~F[k].posted
        BY <1>3, <1>6, <3>1 DEF FlightOK
      <4> QED
        BY <4>1, <4>2
    <3> HIDE DEF n
    <3> QED
      BY <3>1, <3>2 DEF FlightOK
  <2>2. FlightsOK(o, r, F, NoBundle, 0)
    <3>1. Last(F).sent = Length[Last(F).bundle]
      BY <1>2, <1>3
    <3>2. /\ Begun(F, 0) <= Len(o)
          /\ \A j, k \in 1..Len(F) : F[j].bundle = F[k].bundle => j = k
      BY DEF FlightsOK
    <3>3. \A k \in 1..Len(F) : FlightOK(o, r, F, NoBundle, 0, k)
      BY <2>1
    <3> QED
      BY <3>1, <3>2, <3>3 DEF FlightsOK
  <2>3. AckedAt(o, F, 0) = AckedAt(o, F, 0) /\ SendAt(o, F, 0) = SendAt(o, F, 0)
    OBVIOUS
  <2> QED
    BY <1>2, <1>6, <2>2, <2>3
<1>7. CASE ~(f.acked < Length[f.bundle])
  <2>1. f.acked = Length[f.bundle]
    BY <1>3, <1>7
  <2>2. f.posted
    <3>1. FlightOK(o, r, F, cur, 0, n)
      BY <1>2 DEF FlightsOK
    <3> QED
      BY <2>1, <3>1 DEF FlightOK
  <2>3. n = 1 /\ F[1].posted
    BY <1>1, <1>2, <2>2, PostedAlone
  <2>4. Tail(F) = <<>>
    BY <1>2, <2>3, TailIs
  <2>5. Begun(<<>>, 0) = 0 /\ ~Unsent(<<>>, 0)
    BY DEF Begun, Unsent
  <2>6. FlightsOK(o, r, <<>>, NoBundle, 0)
    BY <2>5 DEF FlightsOK
  <2>7. SendAt(o, <<>>, 0) = SendAt(o, F, 0)
    BY <1>5 DEF SendAt
  <2>8. AckedAt(o, <<>>, 0) = AckedAt(o, F, 0)
    <3>1. (Len(o) - 0) + 1 = (Len(o) - 1) + 2
      OBVIOUS
    <3> QED
      BY <1>2, <1>4, <2>3, <2>5, <3>1 DEF AckedAt
  <2> DEFINE G == IF Last(F).acked < Length[Last(F).bundle] THEN F ELSE Tail(F)
  <2>9. G = <<>>
    BY <1>2, <1>7, <2>4
  <2> HIDE DEF G, n, f
  <2>10. <<>> \in Seq(Flights)
    OBVIOUS
  <2> QED
    BY <1>2, <2>3, <2>6, <2>7, <2>8, <2>9, <2>10 DEF G, n
<1> QED
  BY <1>6, <1>7

\* handle_cancel_bundle: what nothing was sent of is the last in flight.
LEMMA CancelFlight ==
    ASSUME NEW o \in Seq(Bundles), NEW r \in [Bundles -> Nat], NEW F \in Seq(Flights),
           NEW cur \in Bundles \cup {NoBundle}, FlightsOK(o, r, F, cur, 0),
           NEW k \in 1..Len(F), F[k].sent = 0
    PROVE  LET G == RemoveAt(F, k)
           IN  /\ k = Len(F) /\ G \in Seq(Flights) /\ Len(G) = k - 1
               /\ \A j \in 1..(k - 1) : G[j] = F[j] /\ ~F[j].posted
               /\ ~F[k].posted
               /\ FlightsOK(o, r, G, NoBundle, 0) /\ ~Unsent(G, 0)
               /\ SendAt(o, G, 0) = SendAt(o, F, 0) /\ AckedAt(o, G, 0) = AckedAt(o, F, 0)
<1> DEFINE n == Len(F)
           G == RemoveAt(F, k)
<1>1. n \in Nat /\ n > 0 /\ F # <<>> /\ n \in 1..n /\ Last(F) = F[n] /\ k \in 1..n
  BY TailIs
<1>2. \A j \in 1..n : FlightOK(o, r, F, cur, 0, j) /\ F[j].sent \in Nat
                      /\ Length[F[j].bundle] \in Nat /\ Length[F[j].bundle] > 0
                      /\ F[j].acked \in Nat /\ F[j].posted \in BOOLEAN
  BY FlightType DEF FlightsOK
<1>3. k = n
  <2>1. FlightOK(o, r, F, cur, 0, k) /\ Length[F[k].bundle] > 0
    BY <1>1, <1>2
  <2>2. ~(k < Len(F))
    BY <2>1 DEF FlightOK
  <2> QED
    BY <1>1, <2>2
<1>4. G \in Seq(Flights) /\ Len(G) = n - 1 /\ \A j \in 1..(n - 1) : G[j] = F[j]
  <2>1. SubSeq(F, n + 1, n) = <<>>
    BY <1>1
  <2>2. SubSeq(F, 1, n - 1) \in Seq(Flights) /\ Len(SubSeq(F, 1, n - 1)) = n - 1
        /\ \A j \in 1..(n - 1) : SubSeq(F, 1, n - 1)[j] = F[j]
    <3>1. n - 1 \in 0..Len(F)
      BY <1>1
    <3> QED
      BY <3>1, PrefixIs
  <2>3. G = SubSeq(F, 1, n - 1) \o <<>>
    BY <1>3, <2>1 DEF RemoveAt
  <2> HIDE DEF n, G
  <2> QED
    BY <2>2, <2>3
<1>5. \A j \in 1..n : ~F[j].posted
  <2> TAKE j \in 1..n
  <2>1. ASSUME F[j].posted PROVE FALSE
    <3>1. n = 1 /\ ~Unsent(F, 0)
      <4>1. 0 \in Nat
        OBVIOUS
      <4> QED
        BY <2>1, <4>1, PostedAlone, Zenon
    <3>2. Last(F).sent = 0
      BY <1>1, <1>3
    <3> QED
      BY <1>1, <3>1, <3>2 DEF Unsent
  <2> QED
    BY <2>1
<1>6. Unsent(F, 0) /\ Begun(F, 0) = n - 1
  BY <1>1, <1>3 DEF Unsent, Begun
<1> HIDE DEF G, n
<1>7. n > 1 => G # <<>> /\ Last(G) = F[n - 1] /\ F[n - 1].sent = Length[F[n - 1].bundle]
               /\ F[n - 1].sent > 0
  <2>1. n > 1 => n - 1 \in 1..(n - 1) /\ n - 1 \in 1..n /\ n - 1 < n
    BY <1>1
  <2>2. n > 1 => FlightOK(o, r, F, cur, 0, n - 1) /\ Length[F[n - 1].bundle] > 0
    BY <1>2, <2>1
  <2>3. n > 1 => F[n - 1].sent = Length[F[n - 1].bundle]
    BY <2>1, <2>2 DEF FlightOK, n
  <2> QED
    BY <1>1, <1>4, <2>1, <2>2, <2>3 DEF Last
<1>8. n = 1 => G = <<>>
  BY <1>4
<1>9. ~Unsent(G, 0) /\ Begun(G, 0) = n - 1
  <2>1. CASE n = 1
    BY <1>4, <1>8, <2>1 DEF Unsent, Begun
  <2>2. CASE n > 1
    BY <1>4, <1>7, <2>2 DEF Unsent, Begun
  <2> QED
    BY <1>1, <2>1, <2>2
<1>10. FlightsOK(o, r, G, NoBundle, 0)
  <2>1. \A j \in 1..(n - 1) : FlightOK(o, r, G, NoBundle, 0, j)
    <3> TAKE j \in 1..(n - 1)
    <3>1. /\ j \in 1..n /\ FlightOK(o, r, F, cur, 0, j) /\ G[j] = F[j] /\ ~F[j].posted
          /\ j < n
      BY <1>1, <1>2, <1>4, <1>5
    <3> QED
      BY <1>4, <1>6, <1>9, <3>1 DEF FlightOK, n
  <2>2. \A i, j \in 1..(n - 1) : G[i].bundle = G[j].bundle => i = j
    <3>1. \A i, j \in 1..n : F[i].bundle = F[j].bundle => i = j
      BY DEF FlightsOK, n
    <3>2. \A i \in 1..(n - 1) : i \in 1..n
      BY <1>1
    <3> QED
      BY <1>4, <3>1, <3>2
  <2>3. Begun(G, 0) <= Len(o)
    BY <1>6, <1>9 DEF FlightsOK
  <2>4. G # <<>> => Last(G).sent = Length[Last(G).bundle]
    BY <1>1, <1>7, <1>8
  <2> QED
    BY <1>4, <2>1, <2>2, <2>3, <2>4 DEF FlightsOK
<1>11. SendAt(o, G, 0) = SendAt(o, F, 0)
  <2>1. SendAt(o, F, 0) = Place(Len(o) + 1, 0, 0)
    BY <1>6 DEF SendAt
  <2>2. CASE n = 1
    BY <1>8, <2>1, <2>2 DEF SendAt
  <2>3. CASE n > 1
    <3>1. n - 1 \in 1..n
      BY <1>1, <2>3
    <3>2. ~(Last(G).sent < Length[Last(G).bundle])
      BY <1>2, <1>7, <2>3, <3>1
    <3> QED
      BY <2>1, <3>2 DEF SendAt
  <2> QED
    BY <1>1, <2>2, <2>3
<1>12. AckedAt(o, G, 0) = AckedAt(o, F, 0)
  <2>1. 1 \in 1..n /\ ~F[1].posted
    BY <1>1, <1>5
  <2>2. CASE n = 1
    <3>1. F[1].acked = 0
      <4>1. FlightOK(o, r, F, cur, 0, 1) /\ F[1].sent = 0 /\ F[1].acked \in Nat
        BY <1>2, <1>3, <2>1, <2>2
      <4>2. F[1].acked <= F[1].sent
        BY <4>1 DEF FlightOK
      <4> QED
        BY <4>1, <4>2
    <3> QED
      BY <1>1, <1>6, <1>8, <1>9, <2>1, <3>1, <2>2 DEF AckedAt
  <2>3. CASE n > 1
    <3>1. G[1] = F[1] /\ G # <<>>
      BY <1>1, <1>4, <1>7, <2>3
    <3> QED
      BY <1>1, <1>6, <1>9, <2>1, <3>1 DEF AckedAt
  <2> QED
    BY <1>1, <2>2, <2>3
<1> QED
  BY <1>1, <1>3, <1>4, <1>5, <1>9, <1>10, <1>11, <1>12 DEF G, n

\* The receiver may have got more meanwhile.
LEMMA FlightsGrow ==
    ASSUME NEW o \in Seq(Bundles), NEW r, NEW r2, Grows(r, r2), NEW F \in Seq(Flights),
           NEW cur \in Bundles \cup {NoBundle}, NEW todo \in Nat, FlightsOK(o, r, F, cur, todo)
    PROVE  FlightsOK(o, r2, F, cur, todo)
<1>1. ASSUME NEW k \in 1..Len(F) PROVE FlightOK(o, r2, F, cur, todo, k)
  <2>1. FlightOK(o, r, F, cur, todo, k)
    BY DEF FlightsOK
  <2>2. F[k].acked <= r[F[k].bundle]
    BY <2>1 DEF FlightOK
  <2>3. /\ F[k].acked \in Nat /\ r[F[k].bundle] \in Nat /\ r2[F[k].bundle] \in Nat
        /\ r[F[k].bundle] <= r2[F[k].bundle]
    BY FlightType DEF Grows
  <2>4. F[k].acked <= r2[F[k].bundle]
    BY <2>2, <2>3
  <2> QED
    BY <2>1, <2>4 DEF FlightOK
<1> QED
  BY <1>1 DEF FlightsOK
-----------------------------------------------------------------------------
(* The receiver's steps.                                                   *)

LEMMA NewLastIs ==
    ASSUME NEW S, NEW s \in Seq(S), s # <<>>, NEW e \in S
    PROVE  LET t == Append(Front(s), e)
           IN  /\ t \in Seq(S) /\ Len(t) = Len(s) /\ t # <<>> /\ Last(t) = e /\ t[Len(s)] = e
               /\ \A k \in 1..Len(s) : k # Len(s) => t[k] = s[k]
<1> DEFINE n == Len(s)
           f == SubSeq(s, 1, n - 1)
           t == Append(f, e)
<1>1. n \in Nat /\ n > 0 /\ n - 1 \in 0..n /\ (n - 1) + 1 = n
      /\ \A k \in 1..n : k # n => k \in 1..(n - 1)
  BY TailIs
<1>2. f \in Seq(S) /\ Len(f) = n - 1 /\ \A j \in 1..(n - 1) : f[j] = s[j]
  BY <1>1, PrefixIs
<1> HIDE DEF f
<1>3. /\ t \in Seq(S) /\ Len(t) = (n - 1) + 1 /\ t # <<>> /\ Last(t) = e /\ t[(n - 1) + 1] = e
      /\ \A j \in 1..(n - 1) : t[j] = f[j]
  BY <1>2, AppendIs
<1> HIDE DEF t, n
<1>4. \A k \in 1..n : k # n => t[k] = s[k]
  BY <1>1, <1>2, <1>3
<1>5. Front(s) = f
  BY DEF Front, f, n
<1> QED
  BY <1>1, <1>3, <1>4, <1>5 DEF t, n

LEMMA IncomingType ==
    ASSUME NEW I \in Seq(Incomings), NEW k \in 1..Len(I)
    PROVE  /\ I[k] \in Incomings /\ I[k].data \in Seq(Items) /\ Len(I[k].data) \in Nat
           /\ I[k].acks \in SUBSET Nat /\ I[k].acked \in Nat /\ I[k].total \in Nat
<1>1. I[k] \in Incomings
  OBVIOUS
<1> QED
  BY <1>1 DEF Incomings

\* What a bundle coming in is.
LEMMA IncomingIs ==
    ASSUME NEW o \in Seq(Bundles), NEW r \in [Bundles -> Nat], NEW a \in Nat,
           NEW I \in Seq(Incomings), NEW todo \in Nat, IncomingOK(o, r, a, I, todo),
           NEW k \in 1..Len(I)
    PROVE  LET in == I[k]
               b == o[(a + k) - 1]
               end == Len(in.data) + (IF k = Len(I) THEN todo ELSE 0)
           IN  /\ (a + k) - 1 \in 1..Len(o) /\ b \in Bundles
               /\ Length[b] \in Nat /\ Length[b] > 0 /\ r[b] \in Nat /\ end \in Nat
               /\ in.data = Units(b, 1, Len(in.data)) /\ Len(in.data) <= r[b]
               /\ 0 < end /\ end <= Length[b]
               /\ in.total = (IF end = Length[b] THEN end ELSE 0)
               /\ k < Len(I) => end = Length[b]
               /\ k > 1 => in.acked = 0
               /\ in.acked <= Len(in.data) /\ in.acked < Length[b]
               /\ \A n \in in.acks : in.acked < n /\ n <= end
               /\ end > in.acked => end \in in.acks
<1>1. (a + k) - 1 \in 1..Len(o) /\ Len(o) \in Nat
  BY DEF IncomingOK
<1>2. o[(a + k) - 1] \in Bundles
  BY <1>1
<1>3. IncomingOK1(o, r, a, I, todo, k)
  BY DEF IncomingOK
<1>4. Len(I[k].data) + (IF k = Len(I) THEN todo ELSE 0) \in Nat
  <2>1. Len(I[k].data) \in Nat
    BY IncomingType
  <2> DEFINE rest == IF k = Len(I) THEN todo ELSE 0
  <2>2. rest \in Nat
    OBVIOUS
  <2> HIDE DEF rest
  <2>3. Len(I[k].data) + rest \in Nat
    BY <2>1, <2>2
  <2> QED
    BY <2>3 DEF rest
<1> QED
  BY <1>1, <1>2, <1>3, <1>4, LengthType DEF IncomingOK1

\* Where the receiver is: in its last bundle, or after it.
LEMMA ReceiveAtIs ==
    ASSUME NEW o \in Seq(Bundles), NEW r \in [Bundles -> Nat], NEW a \in Nat,
           NEW I \in Seq(Incomings), NEW todo \in Nat, IncomingOK(o, r, a, I, todo)
    PROVE  LET c == Len(I)
               d == Len(I[c].data)
               b == o[(a + c) - 1]
           IN  /\ c \in Nat /\ (I = <<>> <=> c = 0) /\ a > 0
               /\ c = 0 => ReceiveAt(o, a, I, todo) = Place(a, 0, 0) /\ todo = 0
               /\ c > 0 => /\ Last(I) = I[c] /\ c \in 1..c
                           /\ d = Length[b] => ReceiveAt(o, a, I, todo) = Place(a + c, 0, 0) /\ todo = 0
                           /\ d # Length[b] => ReceiveAt(o, a, I, todo) = Place((a + c) - 1, d, todo)
<1> DEFINE c == Len(I)
           d == Len(I[c].data)
           b == o[(a + c) - 1]
<1>1. c \in Nat /\ (I = <<>> <=> c = 0) /\ a > 0 /\ (I = <<>> => todo = 0)
  BY DEF IncomingOK
<1>2. CASE c = 0
  BY <1>1, <1>2 DEF ReceiveAt
<1>3. CASE c > 0
  <2>1. c \in 1..c /\ Last(I) = I[c] /\ ((a + c) - 1) + 1 = a + c
    BY <1>1, <1>3 DEF Last
  <2>2. d + todo <= Length[b] /\ Length[b] \in Nat /\ d \in Nat
    BY <2>1, IncomingIs, IncomingType
  <2>3. d = Length[b] => todo = 0
    BY <2>2
  <2>4. ReceiveAt(o, a, I, todo) = After(o, (a + c) - 1, d, todo)
    BY <1>1, <1>3, <2>1 DEF ReceiveAt
  <2> HIDE DEF c, d, b
  <2> QED
    BY <1>1, <1>3, <2>1, <2>3, <2>4 DEF After, c, d, b
<1> QED
  BY <1>1, <1>2, <1>3
\* The bundles coming in after the header m of a segment.
AfterSegment(I, m) ==
    LET list == IF m.start THEN Append(I, Incoming) ELSE I
        in == Last(list)
        end == Len(in.data) + m.len
    IN  Append(Front(list), [in EXCEPT !.acks = @ \cup {end},
                                       !.total = IF m.last THEN end ELSE @])

\* The header of a segment, as handle_data_segment takes it.
LEMMA ReceiveSegment ==
    ASSUME NEW o \in Seq(Bundles), NEW r \in [Bundles -> Nat], NEW a \in Nat,
           NEW I \in Seq(Incomings), IncomingOK(o, r, a, I, 0),
           NEW m \in Items, m.type = "segment", NEW q \in DataPlaces,
           DataStep(o, ReceiveAt(o, a, I, 0), m, q)
    PROVE  LET J == AfterSegment(I, m)
           IN  /\ IF m.start THEN I = <<>> \/ Last(I).total # 0 ELSE I # <<>>
               /\ m.len \in Nat
               /\ J \in Seq(Incomings) /\ IncomingOK(o, r, a, J, m.len)
               /\ ReceiveAt(o, a, J, m.len) = q /\ q.i = ReceiveAt(o, a, I, 0).i
               /\ AcksAt(a, J) = AcksAt(a, I)
<1> USE DEF AfterSegment
<1> DEFINE R == ReceiveAt(o, a, I, 0)
           c == Len(I)
           d == Len(I[c].data)
           b == o[(a + c) - 1]
           len == m.len
           list == IF m.start THEN Append(I, Incoming) ELSE I
           in == Last(list)
           end == Len(in.data) + len
           e == [in EXCEPT !.acks = @ \cup {end}, !.total = IF m.last THEN end ELSE @]
           J == Append(Front(list), e)
           w == Len(list)
           y == o[R.i]
<1>1. len \in Nat /\ m.start \in BOOLEAN /\ m.last \in BOOLEAN
  BY DEF Items
<1>2. /\ R.i \in 1..Len(o) /\ R.todo = 0 /\ len > 0 /\ R.at + len <= Length[y]
      /\ (m.start <=> R.at = 0) /\ (m.last <=> R.at + len = Length[y])
      /\ q = Place(R.i, R.at, len)
  BY DEF DataStep
<1>3. /\ c \in Nat /\ (I = <<>> <=> c = 0) /\ a > 0
      /\ c = 0 => R = Place(a, 0, 0)
      /\ c > 0 => /\ Last(I) = I[c] /\ c \in 1..c
                  /\ d = Length[b] => R = Place(a + c, 0, 0)
                  /\ d # Length[b] => R = Place((a + c) - 1, d, 0)
  BY ReceiveAtIs
<1>4. c > 0 => /\ d \in Nat /\ d > 0 /\ I[c] \in Incomings
               /\ I[c].data = Units(b, 1, d) /\ Length[b] \in Nat
               /\ I[c].total = IF d = Length[b] THEN d ELSE 0
  <2>1. CASE c > 0
    <3>1. c \in 1..Len(I) /\ c = Len(I)
      BY <1>3, <2>1
    <3>2. I[c] \in Incomings /\ d \in Nat
      BY <3>1, IncomingType
    <3>3. IncomingOK1(o, r, a, I, 0, c)
      BY <3>1 DEF IncomingOK
    <3>4. d + 0 > 0 /\ I[c].data = Units(b, 1, d) /\ I[c].total = IF d + 0 = Length[b] THEN d + 0 ELSE 0
      BY <3>3 DEF IncomingOK1
    <3>5. Length[b] \in Nat
      BY <3>1, IncomingIs
    <3> QED
      BY <3>2, <3>4, <3>5
  <2> QED
    BY <2>1
<1> HIDE DEF R, len
<1>5. /\ w \in Nat /\ w > 0 /\ (a + w) - 1 = R.i /\ list \in Seq(Incomings) /\ list # <<>>
      /\ in = list[w] /\ in \in Incomings /\ in.data = Units(y, 1, R.at) /\ Len(in.data) = R.at
      /\ R.at \in Nat
      /\ \A k \in 1..w : k # w => /\ k \in 1..c /\ list[k] = I[k]
                                  /\ (k = c => d = Length[b])
      /\ w = c => in = I[c] /\ ~m.start
      /\ w # c => in = Incoming /\ m.start /\ w = c + 1
      /\ IF m.start THEN I = <<>> \/ Last(I).total # 0 ELSE I # <<>>
      /\ c <= w
  <2>1. CASE m.start
    <3>1. R.at = 0 /\ R = Place(a + c, 0, 0) /\ (c > 0 => d = Length[b])
      <4>1. CASE c = 0
        BY <1>3, <4>1 DEF Place
      <4>2. CASE c > 0 /\ d = Length[b]
        BY <1>3, <4>2 DEF Place
      <4>3. CASE c > 0 /\ d # Length[b]
        BY <1>2, <1>3, <1>4, <2>1, <4>3 DEF Place
      <4> QED
        BY <1>3, <4>1, <4>2, <4>3
    <3>2. Incoming \in Incomings /\ Incoming.data = <<>>
      BY DEF Incoming, Incomings
    <3>3. Units(y, 1, 0) = <<>>
      BY DEF Units
    <3>4. /\ list = Append(I, Incoming) /\ list \in Seq(Incomings) /\ Len(list) = c + 1
          /\ list # <<>> /\ Last(list) = Incoming /\ list[c + 1] = Incoming
          /\ \A k \in 1..c : list[k] = I[k]
      BY <2>1, <3>2, AppendIs
    <3>5. Len(<<>>) = 0
      OBVIOUS
    <3>6. R.i = a + c /\ (a + (c + 1)) - 1 = a + c
      BY <1>3, <3>1 DEF Place
    <3>7. IF m.start THEN I = <<>> \/ Last(I).total # 0 ELSE I # <<>>
      BY <1>3, <1>4, <2>1, <3>1
    <3> HIDE DEF list, c, b, d, y
    <3>8. \A k \in 1..(c + 1) : k # c + 1 => k \in 1..c
      BY <1>3
    <3> QED
      BY <1>3, <2>1, <3>1, <3>2, <3>3, <3>4, <3>5, <3>6, <3>7, <3>8
  <2>2. CASE ~m.start
    <3>1. c > 0 /\ d # Length[b] /\ R = Place((a + c) - 1, d, 0)
      <4>1. R.at # 0
        BY <1>2, <2>2
      <4>2. CASE c = 0
        BY <1>3, <4>1, <4>2 DEF Place
      <4>3. CASE c > 0
        BY <1>3, <4>1, <4>3 DEF Place
      <4> QED
        BY <1>3, <4>2, <4>3
    <3>2. list = I /\ list # <<>>
      BY <1>3, <2>2, <3>1
    <3>3. R.i = (a + c) - 1 /\ R.at = d /\ y = b
      BY <3>1 DEF Place
    <3> HIDE DEF y, b, d, list
    <3>4. \A k \in 1..c : k # c => k \in 1..c
      OBVIOUS
    <3> QED
      BY <1>3, <1>4, <2>2, <3>1, <3>2, <3>3, <3>4 DEF d
  <2> QED
    BY <2>1, <2>2
<1>6. y \in Bundles /\ Length[y] \in Nat /\ Length[y] > 0
  <2>1. y \in Bundles
    BY <1>2
  <2> QED
    BY <2>1, LengthType
<1> HIDE DEF w, list, y, in, b, d, c
<1>7. end = R.at + len /\ end \in Nat
  <2>1. Len(in.data) = R.at /\ R.at \in Nat
    BY <1>5
  <2> QED
    BY <1>1, <2>1
<1>8. /\ e \in Incomings /\ e.data = in.data /\ e.acks = in.acks \cup {end} /\ e.acked = in.acked
      /\ e.total = IF end = Length[y] THEN end ELSE in.total
  <2>1. in \in Incomings /\ (IF m.last THEN end ELSE in.total) \in Nat /\ in.acks \cup {end} \in SUBSET Nat
    BY <1>5, <1>7 DEF Incomings
  <2>2. e = [in EXCEPT !.acks = in.acks \cup {end}, !.total = IF m.last THEN end ELSE in.total]
    OBVIOUS
  <2> HIDE DEF end, e
  <2>3. e \in Incomings /\ e.data = in.data /\ e.acks = in.acks \cup {end} /\ e.acked = in.acked
        /\ e.total = IF m.last THEN end ELSE in.total
    BY <2>1, <2>2 DEF Incomings
  <2> QED
    BY <1>2, <1>7, <2>3
<1> HIDE DEF end, e
<1>9. /\ J \in Seq(Incomings) /\ Len(J) = w /\ J # <<>> /\ Last(J) = e /\ J[w] = e
      /\ \A k \in 1..w : k # w => J[k] = list[k]
  BY <1>5, <1>8, NewLastIs DEF w
<1> HIDE DEF J
<1>10. ReceiveAt(o, a, J, len) = q
  <2>1. R.at # Length[y]
    BY <1>1, <1>2, <1>5, <1>6
  <2>2. ReceiveAt(o, a, J, len) = After(o, (a + w) - 1, Len(e.data), len)
    BY <1>9 DEF ReceiveAt
  <2>3. (a + w) - 1 = R.i /\ Len(e.data) = R.at
    BY <1>5, <1>8
  <2> QED
    BY <1>2, <2>1, <2>2, <2>3 DEF After, y
<1>11. AcksAt(a, J) = AcksAt(a, I)
  <2>1. CASE w = 1 /\ c = 0
    BY <1>3, <1>5, <1>8, <1>9, <2>1 DEF AcksAt, Incoming
  <2>2. CASE w = 1 /\ c = 1
    BY <1>3, <1>5, <1>8, <1>9, <2>2 DEF AcksAt
  <2>3. CASE w > 1
    <3>1. 1 \in 1..w /\ 1 # w
      BY <1>5, <2>3
    <3>2. J[1] = I[1] /\ c # 0
      BY <1>5, <1>9, <3>1
    <3> QED
      BY <1>3, <1>9, <3>2 DEF AcksAt
  <2>4. w = 1 => c = 0 \/ c = 1
    BY <1>3, <1>5
  <2> QED
    BY <1>5, <2>1, <2>2, <2>3, <2>4
<1>12. ASSUME NEW k \in 1..w PROVE IncomingOK1(o, r, a, J, len, k)
  <2>1. CASE k # w
    <3>1. J[k] = I[k] /\ k \in 1..c /\ (k = c => d = Length[b]) /\ k < w
      <4>1. k \in 1..c /\ list[k] = I[k] /\ (k = c => d = Length[b])
        BY <1>5, <2>1
      <4>2. w \in Nat
        BY <1>5
      <4>3. J[k] = list[k]
        BY <1>9, <2>1
      <4> QED
        BY <2>1, <4>1, <4>2, <4>3
    <3>2. IncomingOK1(o, r, a, I, 0, k)
      BY <3>1 DEF IncomingOK, c
    <3>3. Len(I[k].data) \in Nat /\ Len(I[k].data) + 0 = Len(I[k].data)
      BY <3>1, IncomingType DEF c
    <3>4. k = c => Len(I[k].data) = Length[o[(a + k) - 1]]
      BY <3>1 DEF d, b
    <3>5. ~(k = Len(J)) /\ (k < c \/ k = c)
      <4>1. c \in Nat /\ Len(J) = w
        BY <1>3, <1>9
      <4> QED
        BY <2>1, <3>1, <4>1
    <3> QED
      BY <3>1, <3>2, <3>3, <3>4, <3>5 DEF IncomingOK1, c
  <2>2. CASE k = w
    <3>1. (a + k) - 1 = R.i /\ o[(a + k) - 1] = y
      BY <1>5, <2>2 DEF y
    <3>2. /\ in.data = Units(y, 1, Len(in.data)) /\ Len(in.data) <= r[y] /\ (w > 1 => in.acked = 0)
          /\ in.acked <= Len(in.data) /\ in.acked < Length[y] /\ in.total = 0
          /\ (\A n \in in.acks : in.acked < n /\ n <= Len(in.data))
          /\ in.acked \in Nat /\ in.acks \subseteq Nat
      <4>1. CASE w = c
        <5>1. c \in 1..Len(I) /\ c = Len(I) /\ in = I[c] /\ y = b /\ d = R.at /\ R.at # Length[y]
          <6>1. c \in 1..Len(I) /\ c = Len(I) /\ in = I[c] /\ y = b
            BY <1>3, <1>5, <4>1 DEF c, y, b
          <6>2. d = R.at
            BY <1>5, <6>1 DEF d
          <6>3. R.at # Length[y]
            BY <1>1, <1>2, <1>5, <1>6
          <6> QED
            BY <6>1, <6>2, <6>3
        <5>2. IncomingOK1(o, r, a, I, 0, c)
          BY <5>1 DEF IncomingOK
        <5>3. Len(in.data) + 0 = Len(in.data)
          BY <1>5
        <5>4. in.acked \in Nat /\ in.acks \subseteq Nat
          BY <1>5 DEF Incomings
        <5> QED
          BY <1>5, <4>1, <5>1, <5>2, <5>3, <5>4 DEF IncomingOK1, b
      <4>2. CASE w # c
        <5>1. in.data = <<>> /\ in.acks = {} /\ in.acked = 0 /\ in.total = 0
          BY <1>5, <4>2 DEF Incoming
        <5>2. R.at = 0 /\ r[y] \in Nat
          BY <1>5, <1>6, <5>1
        <5> QED
          BY <1>5, <1>6, <5>1, <5>2
      <4> QED
        BY <4>1, <4>2
    <3>3. Len(J[k].data) + (IF k = Len(J) THEN len ELSE 0) = end
      BY <1>5, <1>7, <1>8, <1>9, <2>2
    <3>4. 0 < end /\ end <= Length[y] /\ end > Len(in.data) /\ e.acked < end
      <4>1. 0 < end /\ end <= Length[y] /\ end > Len(in.data)
        BY <1>1, <1>2, <1>5, <1>7
      <4>2. in.acked < end
        <5>1. in.acked \in Nat /\ Len(in.data) \in Nat /\ in.acked <= Len(in.data)
          BY <1>5, <3>2 DEF Incomings
        <5> QED
          BY <1>7, <4>1, <5>1
      <4> QED
        BY <1>8, <4>1, <4>2
    <3>5. J[k] = e /\ ~(k < Len(J))
      BY <1>5, <1>9, <2>2
    <3>6. \A n \in e.acks : e.acked < n /\ n <= end
      BY <1>5, <1>7, <1>8, <3>2, <3>4
    <3>7. e.total = (IF end = Length[y] THEN end ELSE 0) /\ end \in e.acks
      BY <1>8, <3>2
    <3>8. /\ e.data = Units(y, 1, Len(e.data)) /\ Len(e.data) <= r[y]
          /\ (k > 1 => e.acked = 0) /\ e.acked <= Len(e.data) /\ e.acked < Length[y]
      BY <1>8, <2>2, <3>2
    <3> QED
      BY <3>1, <3>3, <3>4, <3>5, <3>6, <3>7, <3>8 DEF IncomingOK1
  <2> QED
    BY <2>1, <2>2
<1>13. IncomingOK(o, r, a, J, len)
  <2>1. (a + w) - 1 <= Len(o)
    BY <1>2, <1>5
  <2> QED
    BY <1>3, <1>9, <1>12, <2>1 DEF IncomingOK
<1>14. q.i = R.i
  BY <1>2 DEF Place
<1> QED
  BY <1>1, <1>5, <1>9, <1>10, <1>11, <1>13, <1>14 DEF J, e, end, in, list, len, R
LEMMA UnitsAppend ==
    ASSUME NEW b \in Bundles, NEW d \in Nat
    PROVE  /\ Append(Units(b, 1, d), Unit(b, d + 1)) = Units(b, 1, d + 1)
           /\ Units(b, 1, d + 1) \in Seq(Items) /\ Len(Units(b, 1, d + 1)) = d + 1
           /\ Units(b, 1, d + 1)[1] = Unit(b, 1)
<1> DEFINE s == Units(b, 1, d)
           t == Units(b, 1, d + 1)
           u == Append(s, Unit(b, d + 1))
<1>1. 0 + 1 = 1 /\ 0 + d = d /\ 0 + (d + 1) = d + 1 /\ d + 1 \in Nat /\ 0 \in Nat
  OBVIOUS
<1>2. /\ s \in Seq(Items) /\ Len(s) = d /\ \A j \in 1..d : s[j] = Unit(b, 0 + j)
      /\ t \in Seq(Items) /\ Len(t) = d + 1 /\ \A j \in 1..(d + 1) : t[j] = Unit(b, 0 + j)
  <2>1. ASSUME NEW n \in Nat
        PROVE  /\ Units(b, 1, n) \in Seq(Items) /\ Len(Units(b, 1, n)) = n
               /\ \A j \in 1..n : Units(b, 1, n)[j] = Unit(b, 0 + j)
    <3>1. /\ Units(b, 0 + 1, 0 + n) \in Seq(Items) /\ Len(Units(b, 0 + 1, 0 + n)) = n
          /\ \A j \in 1..n : Units(b, 0 + 1, 0 + n)[j] = Unit(b, 0 + j)
      BY UnitsType
    <3>2. 0 + 1 = 1 /\ 0 + n = n
      OBVIOUS
    <3> QED
      BY <3>1, <3>2
  <2> QED
    BY <1>1, <2>1
<1>3. Unit(b, d + 1) \in Items
  BY <1>1 DEF Unit, Items
<1> HIDE DEF s, t
<1>4. /\ u \in Seq(Items) /\ Len(u) = d + 1 /\ u[d + 1] = Unit(b, d + 1)
      /\ \A j \in 1..d : u[j] = s[j]
  BY <1>2, <1>3, AppendIs
<1> HIDE DEF u
<1>5. \A j \in 1..(d + 1) : u[j] = t[j]
  <2> TAKE j \in 1..(d + 1)
  <2>1. 0 + j = j /\ (j \in 1..d \/ j = d + 1)
    OBVIOUS
  <2> QED
    BY <1>2, <1>4, <2>1
<1>6. u = t
  BY <1>2, <1>4, <1>5, SeqEqual
<1>7. t[1] = Unit(b, 1)
  <2>1. 1 \in 1..(d + 1) /\ 0 + 1 = 1
    OBVIOUS
  <2> QED
    BY <1>2, <2>1
<1> QED
  BY <1>2, <1>6, <1>7 DEF s, t, u

\* The bundle that is coming in with one more unit, and all of them.
Longer(I, m) == [Last(I) EXCEPT !.data = Append(@, m)]
AfterUnit(I, m) == Append(Front(I), Longer(I, m))

\* A unit of data, as handle_data_todo takes it.
LEMMA ReceiveUnit ==
    ASSUME NEW o \in Seq(Bundles), NEW r \in [Bundles -> Nat], NEW a \in Nat,
           NEW I \in Seq(Incomings), NEW todo \in Nat, IncomingOK(o, r, a, I, todo), todo > 0,
           NEW m \in Items, NEW q \in DataPlaces, DataStep(o, ReceiveAt(o, a, I, todo), m, q)
    PROVE  LET R == ReceiveAt(o, a, I, todo)
               in == Longer(I, m)
               J == AfterUnit(I, m)
               b == in.data[1].bundle
           IN  /\ I # <<>> /\ J \in Seq(Incomings) /\ m.type = "data"
               /\ b \in Bundles /\ R.i \in 1..Len(o) /\ b = o[R.i]
               /\ in.data = Units(b, 1, Len(in.data)) /\ in.data \in Seq(Items)
               /\ Len(in.data) \in Nat /\ Len(in.data) <= Length[b]
               /\ (todo = 1 /\ in.total # 0 /\ Len(in.data) = in.total) <=> Len(in.data) = Length[b]
               /\ \A r2 \in [Bundles -> Nat] :
                     Grows(r, r2) /\ Len(in.data) <= r2[b] => IncomingOK(o, r2, a, J, todo - 1)
               /\ ReceiveAt(o, a, J, todo - 1) = q
               /\ q.i = IF Len(in.data) = Length[b] THEN R.i + 1 ELSE R.i
               /\ AcksAt(a, J) = AcksAt(a, I)
<1> USE DEF AfterUnit, Longer
<1> DEFINE R == ReceiveAt(o, a, I, todo)
           c == Len(I)
           last == I[c]
           d == Len(last.data)
           y == o[(a + c) - 1]
           in == [Last(I) EXCEPT !.data = Append(@, m)]
           J == Append(Front(I), in)
<1>1. /\ c \in Nat /\ (I = <<>> <=> c = 0) /\ a > 0
      /\ c = 0 => todo = 0
      /\ c > 0 => /\ Last(I) = I[c] /\ c \in 1..c
                  /\ d = Length[y] => todo = 0
                  /\ d # Length[y] => R = Place((a + c) - 1, d, todo)
  BY ReceiveAtIs
<1>2. c > 0 /\ d # Length[y] /\ R = Place((a + c) - 1, d, todo) /\ Last(I) = last /\ c \in 1..Len(I)
  BY <1>1
<1>3. /\ last \in Incomings /\ d \in Nat /\ last.data \in Seq(Items) /\ last.acks \in SUBSET Nat
      /\ last.acked \in Nat /\ last.total \in Nat
  BY <1>2, IncomingType
<1>4. IncomingOK1(o, r, a, I, todo, c)
  BY <1>2 DEF IncomingOK
<1>5. /\ last.data = Units(y, 1, d) /\ d <= r[y] /\ d + todo <= Length[y]
      /\ last.total = (IF d + todo = Length[y] THEN d + todo ELSE 0)
      /\ (c > 1 => last.acked = 0) /\ last.acked <= d /\ last.acked < Length[y]
      /\ (\A n \in last.acks : last.acked < n /\ n <= d + todo)
      /\ (d + todo > last.acked => d + todo \in last.acks)
  BY <1>4 DEF IncomingOK1
<1>6. /\ (a + c) - 1 \in 1..Len(o) /\ y \in Bundles /\ Length[y] \in Nat /\ Length[y] > 0
  BY <1>2, IncomingIs
<1> HIDE DEF R, c, d, y, last
<1>7. /\ R.i = (a + c) - 1 /\ R.todo = todo /\ R.at = d
      /\ m.type = "data" /\ m = Unit(y, d + 1) /\ q = After(o, (a + c) - 1, d + 1, todo - 1)
  <2>1. R.i = (a + c) - 1 /\ R.todo = todo /\ R.at = d
    BY <1>2 DEF Place
  <2>2. R.todo # 0 /\ R # Start
    BY <2>1 DEF Start, Place
  <2>3. m.type = "data" /\ m = Unit(o[R.i], R.at + 1) /\ q = After(o, R.i, R.at + 1, R.todo - 1)
    BY <2>2 DEF DataStep, R
  <2> QED
    BY <2>1, <2>3 DEF y
<1>8. /\ in.data = Units(y, 1, d + 1) /\ in.data \in Seq(Items) /\ Len(in.data) = d + 1
      /\ in.data[1].bundle = y /\ in \in Incomings /\ in.acks = last.acks /\ in.acked = last.acked
      /\ in.total = last.total
  <2>1. in = [last EXCEPT !.data = Append(last.data, m)]
    BY <1>2
  <2>2. Append(last.data, m) = Units(y, 1, d + 1)
    BY <1>3, <1>5, <1>6, <1>7, UnitsAppend
  <2>3. Units(y, 1, d + 1) \in Seq(Items) /\ Len(Units(y, 1, d + 1)) = d + 1
        /\ Units(y, 1, d + 1)[1].bundle = y
    <3>1. Units(y, 1, d + 1)[1] = Unit(y, 1) /\ Unit(y, 1).bundle = y
      BY <1>3, <1>6, UnitsAppend DEF Unit
    <3> QED
      BY <1>3, <1>6, <3>1, UnitsAppend
  <2> HIDE DEF in
  <2>4. in.data = Append(last.data, m) /\ in.acks = last.acks /\ in.acked = last.acked
        /\ in.total = last.total
    BY <1>3, <2>1 DEF Incomings
  <2>5. in \in Incomings
    BY <1>3, <2>1, <2>2, <2>3 DEF Incomings
  <2> QED
    BY <2>2, <2>3, <2>4, <2>5
<1> HIDE DEF in
<1>9. /\ J \in Seq(Incomings) /\ Len(J) = c /\ J # <<>> /\ Last(J) = in /\ J[c] = in
      /\ \A k \in 1..c : k # c => J[k] = I[k]
  BY <1>1, <1>2, <1>8, NewLastIs DEF c
<1> HIDE DEF J
<1>10. d + 1 <= Length[y] /\ (d + 1) + (todo - 1) = d + todo /\ todo - 1 \in Nat
  BY <1>3, <1>5, <1>6
<1>11. ReceiveAt(o, a, J, todo - 1) = q
  BY <1>7, <1>8, <1>9 DEF ReceiveAt
<1>12. q.i = IF d + 1 = Length[y] THEN R.i + 1 ELSE R.i
  BY <1>7 DEF After, Place, y
<1>13. (todo = 1 /\ in.total # 0 /\ Len(in.data) = in.total) <=> Len(in.data) = Length[y]
  <2>1. in.total = (IF d + todo = Length[y] THEN d + todo ELSE 0) /\ Len(in.data) = d + 1
    BY <1>5, <1>8
  <2>2. ASSUME d + 1 = Length[y] PROVE todo = 1 /\ d + todo = Length[y] /\ d + todo # 0
    BY <1>3, <1>5, <1>6, <2>2
  <2>3. ASSUME todo = 1, d + todo # Length[y] PROVE d + 1 # Length[y]
    BY <2>3
  <2> QED
    BY <1>3, <2>1, <2>2, <2>3
<1>14. AcksAt(a, J) = AcksAt(a, I)
  <2>1. CASE c = 1
    BY <1>1, <1>2, <1>8, <1>9, <2>1 DEF AcksAt, last
  <2>2. CASE c # 1
    <3>1. 1 \in 1..c
      BY <1>1, <1>2
    <3> QED
      BY <1>1, <1>2, <1>9, <2>2, <3>1 DEF AcksAt
  <2> QED
    BY <2>1, <2>2
<1>15. ASSUME NEW r2 \in [Bundles -> Nat], Grows(r, r2), d + 1 <= r2[y]
       PROVE  IncomingOK(o, r2, a, J, todo - 1)
  <2>1. ASSUME NEW k \in 1..c PROVE IncomingOK1(o, r2, a, J, todo - 1, k)
    <3>1. CASE k # c
      <4>1. IncomingOK1(o, r, a, I, todo, k) /\ J[k] = I[k] /\ k # Len(J) /\ k # Len(I)
            /\ (k < Len(J) <=> k < Len(I))
        BY <1>9, <3>1 DEF IncomingOK, c
      <4>2. o[(a + k) - 1] \in Bundles /\ Len(I[k].data) \in Nat
        BY IncomingIs, IncomingType DEF c
      <4>3. Len(I[k].data) <= r[o[(a + k) - 1]]
        BY <4>1 DEF IncomingOK1
      <4>4. Len(I[k].data) <= r2[o[(a + k) - 1]]
        BY <1>15, <4>2, <4>3 DEF Grows
      <4> QED
        BY <4>1, <4>4 DEF IncomingOK1
    <3>2. CASE k = c
      <4>1. /\ J[k] = in /\ o[(a + k) - 1] = y /\ k = Len(J) /\ ~(k < Len(J))
        BY <1>1, <1>9, <3>2 DEF y
      <4>2. Len(J[k].data) + (IF k = Len(J) THEN todo - 1 ELSE 0) = d + todo
        BY <1>8, <1>10, <4>1
      <4>3. 0 < d + todo /\ d + todo <= Length[y] /\ in.acked <= d + 1
        BY <1>3, <1>5, <1>8
      <4>4. /\ in.data = Units(y, 1, Len(in.data)) /\ Len(in.data) <= r2[y]
            /\ in.total = (IF d + todo = Length[y] THEN d + todo ELSE 0)
            /\ (c > 1 => in.acked = 0) /\ in.acked < Length[y]
            /\ (\A n \in in.acks : in.acked < n /\ n <= d + todo)
            /\ (d + todo > in.acked => d + todo \in in.acks)
            /\ in.acked <= Len(in.data)
        BY <1>5, <1>8, <1>15, <4>3
      <4> QED
        BY <3>2, <4>1, <4>2, <4>3, <4>4 DEF IncomingOK1
    <3> QED
      BY <3>1, <3>2
  <2>2. (a + c) - 1 <= Len(o)
    BY <1>6
  <2> QED
    BY <1>1, <1>9, <2>1, <2>2 DEF IncomingOK
<1>16. R.i \in 1..Len(o) /\ y = o[R.i]
  BY <1>6, <1>7 DEF y
<1>17. I # <<>>
  BY <1>1, <1>2
<1>18. LET b == in.data[1].bundle
       IN  /\ b \in Bundles /\ b = o[R.i] /\ in.data = Units(b, 1, Len(in.data))
           /\ Len(in.data) \in Nat /\ Len(in.data) <= Length[b]
           /\ (todo = 1 /\ in.total # 0 /\ Len(in.data) = in.total) <=> Len(in.data) = Length[b]
           /\ q.i = IF Len(in.data) = Length[b] THEN R.i + 1 ELSE R.i
           /\ \A r2 \in [Bundles -> Nat] :
                 Grows(r, r2) /\ Len(in.data) <= r2[b] => IncomingOK(o, r2, a, J, todo - 1)
  <2> DEFINE b == in.data[1].bundle
  <2>1. b = y /\ Len(in.data) = d + 1 /\ d + 1 \in Nat
    BY <1>3, <1>8
  <2> HIDE DEF b
  <2>2. /\ b \in Bundles /\ b = o[R.i] /\ in.data = Units(b, 1, Len(in.data))
        /\ Len(in.data) \in Nat /\ Len(in.data) <= Length[b]
    BY <1>6, <1>8, <1>10, <1>16, <2>1
  <2>3. (todo = 1 /\ in.total # 0 /\ Len(in.data) = in.total) <=> Len(in.data) = Length[b]
    BY <1>13, <2>1
  <2>4. q.i = IF Len(in.data) = Length[b] THEN R.i + 1 ELSE R.i
    BY <1>12, <2>1
  <2>5. \A r2 \in [Bundles -> Nat] :
           Grows(r, r2) /\ Len(in.data) <= r2[b] => IncomingOK(o, r2, a, J, todo - 1)
    BY <1>15, <2>1
  <2> QED
    BY <2>2, <2>3, <2>4, <2>5 DEF b
<1> QED
  BY <1>7, <1>8, <1>9, <1>11, <1>14, <1>16, <1>17, <1>18 DEF J, in, R
\* The acknowledgements that are sent at once.
LEMMA InOrderIs ==
    ASSUME NEW S \in SUBSET Nat, IsFiniteSet(S), NEW q \in InOrder(S)
    PROVE  /\ q \in Seq(S) /\ q \in Seq(Nat) /\ Range(q) = S /\ DOMAIN q = 1..Len(q)
           /\ \A i, j \in 1..Len(q) : i < j => q[i] < q[j]
           /\ q # <<>> => Last(q) = q[Len(q)] /\ Last(q) \in S /\ \A n \in S : n <= Last(q)
<1> DEFINE c == Cardinality(S)
<1>1. c \in Nat
  BY FS_CardinalityType
<1> HIDE DEF c
<1>2. q \in [1..c -> S] /\ \A i, j \in 1..c : i < j => q[i] < q[j]
  <2>1. q \in [1..c -> S] /\ \A i, j \in DOMAIN q : i < j => q[i] < q[j]
    BY DEF InOrder, c
  <2>2. DOMAIN q = 1..c
    BY <2>1
  <2> QED
    BY <2>1, <2>2
<1>3. q \in Seq(S) /\ q \in Seq(Nat) /\ Len(q) = c /\ DOMAIN q = 1..c
  <2>1. q \in Seq(S)
    BY <1>1, <1>2, SeqDef
  <2>2. q \in Seq(Nat)
    <3>1. q \in [1..c -> Nat]
      BY <1>2
    <3> QED
      BY <1>1, <3>1, SeqDef
  <2>3. DOMAIN q = 1..c
    BY <1>2
  <2> QED
    BY <1>1, <2>1, <2>2, <2>3, LenProperties
<1>4. IsInjective(q)
  <2>1. ASSUME NEW i \in 1..c, NEW j \in 1..c, q[i] = q[j] PROVE i = j
    <3>1. q[i] \in Nat /\ q[j] \in Nat
      BY <1>2
    <3>2. ~(i < j) /\ ~(j < i)
      BY <1>2, <2>1, <3>1
    <3> QED
      BY <1>1, <3>2
  <2> QED
    BY <1>3, <2>1 DEF IsInjective
<1>5. Cardinality(1..c) = c
  <2>1. 1 \in Int /\ c \in Int /\ (1 > c => c = 0) /\ c - 1 + 1 = c
    BY <1>1
  <2> QED
    BY <2>1, FS_Interval
<1>6. q \in Surjection(1..c, S)
  <2>1. q \in Injection(1..c, S)
    BY <1>2, <1>4 DEF Injection
  <2>2. Cardinality(1..c) = Cardinality(S)
    BY <1>5 DEF c
  <2> QED
    BY <2>1, <2>2, FS_Injection
<1>7. Range(q) = S
  BY <1>2, <1>3, <1>6 DEF Range, Surjection
<1>8. ASSUME q # <<>> PROVE Last(q) = q[Len(q)] /\ Last(q) \in S /\ \A n \in S : n <= Last(q)
  <2>1. c > 0 /\ c \in 1..c /\ Last(q) = q[c]
    BY <1>1, <1>3, <1>8 DEF Last
  <2>2. ASSUME NEW n \in S PROVE n <= q[c]
    <3>1. PICK i \in 1..c : q[i] = n
      BY <1>6 DEF Surjection
    <3>2. n \in Nat /\ q[c] \in Nat
      BY <1>2, <2>1
    <3>3. CASE i = c
      BY <3>1, <3>2, <3>3
    <3>4. CASE i # c
      <4>1. i < c
        BY <1>1, <3>4
      <4> QED
        BY <1>2, <2>1, <3>1, <3>2, <4>1
    <3> QED
      BY <3>3, <3>4
  <2> QED
    BY <1>2, <1>3, <2>1, <2>2
<1> QED
  BY <1>2, <1>3, <1>7, <1>8

\* Acknowledgements of one bundle, the smallest first.
LEMMA AcksRun ==
    ASSUME NEW o \in Seq(Bundles), NEW r \in [Bundles -> Nat], NEW i \in 1..Len(o),
           NEW n \in Nat, NEW acks \in Seq(Nat), acks # <<>>,
           \A j, k \in 1..Len(acks) : j < k => acks[j] < acks[k],
           \A j \in 1..Len(acks) : n < acks[j] /\ acks[j] <= r[o[i]] /\ acks[j] <= Length[o[i]]
    PROVE  LET xs == [j \in DOMAIN acks |-> Ack(acks[j])]
           IN  /\ xs \in Seq(Items)
               /\ AckRun(o, r, Mark(i, n), xs,
                         IF Last(acks) = Length[o[i]] THEN Mark(i + 1, 0) ELSE Mark(i, Last(acks)))
<1> DEFINE c == Len(acks)
           xs == [j \in DOMAIN acks |-> Ack(acks[j])]
           y == Length[o[i]]
           To(l) == IF l = y THEN Mark(i + 1, 0) ELSE Mark(i, l)
           g == [j \in 1..(c + 1) |-> IF j = 1 THEN Mark(i, n) ELSE To(acks[j - 1])]
<1>1. c \in Nat /\ c > 0 /\ DOMAIN acks = 1..c /\ Last(acks) = acks[c] /\ i \in Nat
      /\ \A j \in 1..c : acks[j] \in Nat
  BY DEF Last
<1>2. y \in Nat
  BY LengthsAssumption
<1>3. \A j \in 1..c : Ack(acks[j]) \in Items /\ Ack(acks[j]).type = "ack" /\ Ack(acks[j]).len = acks[j]
  BY <1>1 DEF Ack, Items
<1>4. xs \in Seq(Items) /\ Len(xs) = c /\ \A j \in 1..c : xs[j] = Ack(acks[j])
  <2>1. xs = [j \in 1..c |-> Ack(acks[j])]
    BY <1>1
  <2> HIDE DEF xs
  <2> QED
    BY <1>1, <1>3, <2>1
<1>5. \A l \in Nat : To(l) \in AckPlaces
  BY <1>1, PlaceType
<1> HIDE DEF To, xs
<1>6. /\ g \in [1..(c + 1) -> AckPlaces] /\ g[1] = Mark(i, n)
      /\ \A j \in 1..c : g[j + 1] = To(acks[j])
  <2>1. \A j \in 1..(c + 1) : j # 1 => j - 1 \in 1..c
    BY <1>1
  <2>2. \A j \in 1..c : j + 1 \in 1..(c + 1) /\ j + 1 # 1 /\ (j + 1) - 1 = j
    BY <1>1
  <2>3. 1 \in 1..(c + 1)
    BY <1>1
  <2> QED
    BY <1>1, <1>5, <2>1, <2>2, <2>3, PlaceType
<1> HIDE DEF g, c
<1>7. ASSUME NEW j \in 1..c PROVE <<g[j], xs[j], g[j + 1]>> \in AckSteps(o, r)
  <2>1. acks[j] \in Nat /\ n < acks[j] /\ acks[j] <= r[o[i]] /\ acks[j] <= y
    BY <1>1 DEF c
  <2>2. g[j].i = i /\ g[j].n < acks[j]
    <3>1. CASE j = 1
      BY <1>6, <2>1, <3>1 DEF Mark
    <3>2. CASE j # 1
      <4>1. j - 1 \in 1..c /\ j - 1 < j /\ (j - 1) + 1 = j
        BY <1>1, <3>2
      <4>2. g[j] = To(acks[j - 1])
        BY <1>6, <4>1
      <4>3. acks[j - 1] < acks[j] /\ acks[j - 1] \in Nat
        BY <1>1, <4>1 DEF c
      <4>4. acks[j - 1] # y
        BY <1>2, <2>1, <4>3
      <4> QED
        BY <4>2, <4>3, <4>4 DEF To, Mark
    <3> QED
      BY <3>1, <3>2
  <2>3. xs[j].type = "ack" /\ xs[j].len = acks[j] /\ xs[j] \in Items
    BY <1>3, <1>4
  <2>4. g[j + 1] = IF xs[j].len = y THEN Mark(g[j].i + 1, 0) ELSE Mark(g[j].i, xs[j].len)
    BY <1>6, <2>2, <2>3 DEF To
  <2>5. AckStep(o, r, g[j], xs[j], g[j + 1])
    <3>1. /\ xs[j].type = "ack" /\ g[j].i \in 1..Len(o) /\ xs[j].len > g[j].n
          /\ xs[j].len <= r[o[g[j].i]] /\ xs[j].len <= Length[o[g[j].i]]
      <4>1. g[j].n \in Nat
        BY <1>1, <1>6 DEF AckPlaces
      <4> QED
        BY <2>1, <2>2, <2>3, <4>1
    <3>2. g[j + 1] = IF xs[j].len = Length[o[g[j].i]] THEN Mark(g[j].i + 1, 0) ELSE Mark(g[j].i, xs[j].len)
      BY <2>2, <2>4
    <3> QED
      BY <3>1, <3>2, Zenon DEF AckStep
  <2>6. g[j] \in AckPlaces /\ g[j + 1] \in AckPlaces
    <3>1. j \in 1..(c + 1) /\ j + 1 \in 1..(c + 1)
      BY <1>1 DEF c
    <3> QED
      BY <1>6, <3>1
  <2> QED
    BY <2>3, <2>5, <2>6 DEF AckSteps
<1>8. g[c + 1] = To(Last(acks))
  BY <1>1, <1>6
<1>9. AckRun(o, r, Mark(i, n), xs, To(Last(acks)))
  BY <1>4, <1>6, <1>7, <1>8 DEF AckRun, Leads
<1> QED
  BY <1>4, <1>9 DEF xs, To

\* The oldest bundle coming in, and where the receiver stands in the newest.
LEMMA OldestIs ==
    ASSUME NEW o \in Seq(Bundles), NEW r \in [Bundles -> Nat], NEW a \in Nat,
           NEW I \in Seq(Incomings), NEW todo \in Nat, IncomingOK(o, r, a, I, todo), I # <<>>
    PROVE  LET in == I[1]
               e == Len(in.data) + (IF 1 = Len(I) THEN todo ELSE 0)
           IN  /\ a \in 1..Len(o) /\ o[a] \in Bundles
               /\ Length[o[a]] \in Nat /\ Length[o[a]] > 0 /\ r[o[a]] \in Nat /\ e \in Nat
               /\ in.data = Units(o[a], 1, Len(in.data)) /\ Len(in.data) <= r[o[a]]
               /\ 0 < e /\ e <= Length[o[a]] /\ in.total = (IF e = Length[o[a]] THEN e ELSE 0)
               /\ 1 < Len(I) => e = Length[o[a]]
               /\ in.acked <= Len(in.data) /\ in.acked < Length[o[a]]
               /\ (\A n \in in.acks : in.acked < n /\ n <= e)
               /\ e > in.acked => e \in in.acks
<1> DEFINE in == I[1]
           d == Len(in.data)
           e == d + (IF 1 = Len(I) THEN todo ELSE 0)
<1>1. 1 \in 1..Len(I) /\ Len(I) \in Nat
  BY TailIs
<1>2. IncomingOK1(o, r, a, I, todo, 1) /\ a > 0 /\ (a + Len(I)) - 1 <= Len(o)
  BY <1>1 DEF IncomingOK
<1>3. (a + 1) - 1 = a
  OBVIOUS
<1>4. a \in 1..Len(o) /\ o[a] \in Bundles
  BY <1>1, <1>2
<1>5. Length[o[a]] \in Nat /\ Length[o[a]] > 0 /\ r[o[a]] \in Nat
  BY <1>4, LengthType
<1>6. in.data \in Seq(Items) /\ d \in Nat
  BY <1>1, IncomingType
<1>7. e \in Nat
  <2>1. (IF 1 = Len(I) THEN todo ELSE 0) \in Nat
    OBVIOUS
  <2> HIDE DEF d
  <2> QED
    BY <1>6, <2>1
<1> DEFINE b == o[(a + 1) - 1]
<1>8. b = o[a]
  BY <1>3
<1>9. /\ in.data = Units(b, 1, d) /\ d <= r[b] /\ 0 < e /\ e <= Length[b]
      /\ in.total = (IF e = Length[b] THEN e ELSE 0)
      /\ (1 < Len(I) => e = Length[b])
      /\ in.acked <= d /\ in.acked < Length[b]
      /\ (\A n \in in.acks : in.acked < n /\ n <= e)
      /\ (e > in.acked => e \in in.acks)
  BY <1>2 DEF IncomingOK1
<1> HIDE DEF b, e, d, in
<1> QED
  BY <1>4, <1>5, <1>7, <1>8, <1>9 DEF e, d, in

\* The oldest bundle coming in is acknowledged as far as it has arrived; it goes
\* when all of it has been.
LEMMA SendAcks ==
    ASSUME NEW o \in Seq(Bundles), NEW r \in [Bundles -> Nat], NEW a \in Nat,
           NEW I \in Seq(Incomings), NEW todo \in Nat, IncomingOK(o, r, a, I, todo), I # <<>>,
           NEW S \in SUBSET {n \in Head(I).acks : n <= Len(Head(I).data)}, IsFiniteSet(S),
           \A m \in Head(I).acks, n \in S : m <= n => m \in S,
           NEW acks \in InOrder(S)
    PROVE  LET front == [Head(I) EXCEPT !.acks = @ \ Range(acks),
                                        !.acked = IF acks = <<>> THEN @ ELSE Last(acks)]
               J == IF front.total # 0 /\ front.total = front.acked
                    THEN Tail(I) ELSE <<front>> \o Tail(I)
               xs == [j \in DOMAIN acks |-> Ack(acks[j])]
           IN  /\ J \in Seq(Incomings) /\ (acks = <<>> => J = I) /\ xs \in Seq(Items)
               /\ \E a2 \in Nat :
                     /\ IncomingOK(o, r, a2, J, todo)
                     /\ ReceiveAt(o, a2, J, todo) = ReceiveAt(o, a, I, todo)
                     /\ AckRun(o, r, AcksAt(a, I), xs, AcksAt(a2, J))
<1> DEFINE in == I[1]
           c == Len(I)
           b == o[a]
           d == Len(in.data)
           top == IF acks = <<>> THEN in.acked ELSE Last(acks)
           front == [in EXCEPT !.acks = @ \ Range(acks), !.acked = top]
           J == IF front.total # 0 /\ front.total = front.acked
                THEN Tail(I) ELSE <<front>> \o Tail(I)
           xs == [j \in DOMAIN acks |-> Ack(acks[j])]
           end == d + (IF 1 = c THEN todo ELSE 0)
<1>1. c \in Nat /\ c > 0 /\ I[1] = in /\ Head(I) = in /\ 1 \in 1..c
  BY TailIs
<1>2. in \in Incomings /\ in.data \in Seq(Items) /\ d \in Nat /\ in.acks \in SUBSET Nat
      /\ in.acked \in Nat /\ in.total \in Nat
  BY <1>1, IncomingType
<1> HIDE DEF in, d
<1>3. /\ a \in 1..Len(o) /\ b \in Bundles /\ Length[b] \in Nat /\ Length[b] > 0
      /\ r[b] \in Nat /\ end \in Nat /\ in.data = Units(b, 1, d) /\ d <= r[b]
      /\ 0 < end /\ end <= Length[b] /\ in.total = (IF end = Length[b] THEN end ELSE 0)
      /\ (1 < c => end = Length[b]) /\ in.acked <= d /\ in.acked < Length[b]
      /\ (\A n \in in.acks : in.acked < n /\ n <= end)
      /\ (end > in.acked => end \in in.acks)
  <2> USE DEF in, d
  <2>1. /\ a \in 1..Len(o) /\ b \in Bundles /\ Length[b] \in Nat /\ Length[b] > 0
        /\ r[b] \in Nat /\ end \in Nat /\ d <= r[b] /\ 0 < end /\ end <= Length[b]
    BY OldestIs
  <2>2. in.data = Units(b, 1, d)
    BY OldestIs, Zenon
  <2>3. in.total = (IF end = Length[b] THEN end ELSE 0)
    BY OldestIs, Zenon
  <2>4. 1 < c => end = Length[b]
    BY OldestIs, Zenon
  <2>5. in.acked <= d /\ in.acked < Length[b]
    BY OldestIs
  <2>6. \A n \in in.acks : in.acked < n /\ n <= end
    BY OldestIs
  <2>7. end > in.acked => end \in in.acks
    BY OldestIs
  <2> HIDE DEF in, d, end, b, c
  <2> QED
    BY <2>1, <2>2, <2>3, <2>4, <2>5, <2>6, <2>7
<1>4. end >= d /\ (c # 1 => end = d) /\ (c = 1 => end = d + todo)
  BY <1>2
<1> HIDE DEF end, b
<1>5. S \in SUBSET Nat /\ \A n \in S : n \in in.acks /\ n <= d
  BY <1>1, <1>2 DEF d
<1>6. /\ acks \in Seq(Nat) /\ Range(acks) = S /\ DOMAIN acks = 1..Len(acks)
      /\ (\A j, k \in 1..Len(acks) : j < k => acks[j] < acks[k])
      /\ (acks # <<>> => Last(acks) \in S /\ \A n \in S : n <= Last(acks))
  BY <1>5, InOrderIs
<1>7. acks = <<>> => S = {}
  <2>1. acks = <<>> => DOMAIN acks = {}
    OBVIOUS
  <2> QED
    BY <1>6, <2>1 DEF Range
<1>8. top \in Nat /\ in.acked <= top /\ top <= d /\ \A n \in S : n <= top
  <2>1. CASE acks = <<>>
    BY <1>2, <1>3, <1>7, <2>1
  <2>2. CASE acks # <<>>
    <3>1. Last(acks) \in S /\ Last(acks) \in Nat /\ Last(acks) \in in.acks /\ Last(acks) <= d
      BY <1>5, <1>6, <2>2
    <3>2. in.acked < Last(acks) /\ \A n \in S : n <= Last(acks)
      BY <1>3, <1>6, <2>2, <3>1
    <3> QED
      BY <1>2, <2>2, <3>1, <3>2
  <2> QED
    BY <2>1, <2>2
<1>9. \A n \in in.acks \ S : top < n
  <2> SUFFICES ASSUME NEW n \in in.acks, n \notin S PROVE top < n
    OBVIOUS
  <2>1. n \in Nat /\ in.acked < n
    BY <1>2, <1>3
  <2>2. CASE acks = <<>>
    BY <2>1, <2>2
  <2>3. CASE acks # <<>>
    <3>1. Last(acks) \in S /\ Last(acks) \in Nat
      BY <1>5, <1>6, <2>3
    <3>2. ~(n <= Last(acks))
      BY <1>1, <3>1
    <3> QED
      BY <2>1, <2>3, <3>1, <3>2
  <2> QED
    BY <2>2, <2>3
<1> HIDE DEF top
<1>10. /\ front \in Incomings /\ front.data = in.data /\ front.acks = in.acks \ S
       /\ front.acked = top /\ front.total = in.total
  <2>1. in.acks \ Range(acks) \in SUBSET Nat
    BY <1>2
  <2> QED
    BY <1>2, <1>6, <1>8, <2>1 DEF Incomings
<1> HIDE DEF front
<1>11. ASSUME acks = <<>> PROVE J = I
  <2>1. front = in
    <3>1. in.acks \ Range(acks) = in.acks /\ top = in.acked
      BY <1>6, <1>7, <1>11 DEF top
    <3> QED
      BY <1>2, <3>1 DEF front, Incomings
  <2>2. ~(front.total # 0 /\ front.total = front.acked)
    BY <1>2, <1>3, <2>1
  <2>3. <<in>> \o Tail(I) = I
    <3>1. /\ <<in>> \o Tail(I) \in Seq(Incomings) /\ Len(<<in>> \o Tail(I)) = Len(I)
          /\ (<<in>> \o Tail(I))[1] = in
          /\ \A k \in 1..Len(I) : k # 1 => (<<in>> \o Tail(I))[k] = I[k]
      BY <1>2, NewHeadIs
    <3>2. \A k \in 1..Len(I) : (<<in>> \o Tail(I))[k] = I[k]
      BY <1>1, <3>1
    <3> QED
      BY <3>1, <3>2, SeqEqual
  <2> QED
    BY <2>1, <2>2, <2>3
<1>12. xs \in Seq(Items)
       /\ AckRun(o, r, AcksAt(a, I), xs, IF top = Length[b] THEN Mark(a + 1, 0) ELSE Mark(a, top))
  <2>1. AcksAt(a, I) = Mark(a, in.acked)
    BY <1>1 DEF AcksAt
  <2>2. CASE acks = <<>>
    <3>1. xs = <<>>
      BY <2>2
    <3>2. top = in.acked /\ top # Length[b]
      BY <1>2, <1>3, <2>2 DEF top
    <3>3. Mark(a, in.acked) \in AckPlaces
      BY <1>2, PlaceType
    <3> QED
      BY <2>1, <3>1, <3>2, <3>3, LeadsEmpty DEF AckRun
  <2>3. CASE acks # <<>>
    <3>1. \A j \in 1..Len(acks) : in.acked < acks[j] /\ acks[j] <= r[o[a]] /\ acks[j] <= Length[o[a]]
      <4> TAKE j \in 1..Len(acks)
      <4>1. acks[j] \in S /\ acks[j] \in Nat
        BY <1>5, <1>6 DEF Range
      <4>2. in.acked < acks[j] /\ acks[j] <= d
        BY <1>3, <1>5, <4>1
      <4> QED
        BY <1>2, <1>3, <1>4, <4>1, <4>2 DEF b
    <3>2. /\ xs \in Seq(Items)
          /\ AckRun(o, r, Mark(a, in.acked), xs,
                    IF Last(acks) = Length[o[a]] THEN Mark(a + 1, 0) ELSE Mark(a, Last(acks)))
      BY <1>2, <1>3, <1>6, <2>3, <3>1, AcksRun
    <3>3. top = Last(acks)
      BY <2>3 DEF top
    <3> QED
      BY <2>1, <3>2, <3>3 DEF b
  <2> QED
    BY <2>2, <2>3
<1> HIDE DEF xs
<1> HIDE DEF c
<1>13. /\ Len(I[c].data) = Length[o[(a + c) - 1]] =>
               ReceiveAt(o, a, I, todo) = Place(a + c, 0, 0) /\ todo = 0
       /\ Len(I[c].data) # Length[o[(a + c) - 1]] =>
               ReceiveAt(o, a, I, todo) = Place((a + c) - 1, Len(I[c].data), todo)
  BY <1>1, ReceiveAtIs DEF c
<1> USE DEF c
<1>16. front = [Head(I) EXCEPT !.acks = @ \ Range(acks),
                              !.acked = IF acks = <<>> THEN @ ELSE Last(acks)]
  BY <1>1, <1>2 DEF front, top
<1>14. CASE front.total # 0 /\ front.total = front.acked
  <2>1. J = Tail(I)
    BY <1>14
  <2>2. end = Length[b] /\ top = Length[b] /\ d = Length[b]
    BY <1>2, <1>3, <1>4, <1>8, <1>10, <1>14
  <2>3. /\ Tail(I) \in Seq(Incomings) /\ Len(Tail(I)) = c - 1
        /\ (\A k \in 1..(c - 1) : k + 1 \in 1..c /\ Tail(I)[k] = I[k + 1])
        /\ (Tail(I) = <<>> <=> c = 1)
        /\ (Tail(I) # <<>> => Last(Tail(I)) = Last(I)) /\ Last(I) = I[c]
    BY <1>1, TailIs
  <2>4. c = 1 => todo = 0
    BY <1>2, <1>4, <2>2
  <2>5. IncomingOK(o, r, a + 1, Tail(I), todo)
    <3>1. a + 1 > 0 /\ ((a + 1) + Len(Tail(I))) - 1 <= Len(o)
      BY <1>1, <2>3 DEF IncomingOK
    <3>2. ASSUME NEW k \in 1..Len(Tail(I)) PROVE IncomingOK1(o, r, a + 1, Tail(I), todo, k)
      <4>1. /\ k + 1 \in 1..c /\ Tail(I)[k] = I[k + 1] /\ k + 1 > 1
            /\ ((a + 1) + k) - 1 = (a + (k + 1)) - 1
            /\ (k = Len(Tail(I)) <=> k + 1 = c) /\ (k < Len(Tail(I)) <=> k + 1 < c)
        <5>1. k \in 1..(c - 1) /\ k \in Nat
          BY <2>3
        <5>2. k + 1 \in 1..c /\ Tail(I)[k] = I[k + 1]
          BY <2>3, <5>1
        <5>3. Len(Tail(I)) = c - 1 /\ c \in Nat
          BY <1>1, <2>3
        <5> HIDE DEF c
        <5>4. /\ k + 1 > 1 /\ ((a + 1) + k) - 1 = (a + (k + 1)) - 1
              /\ (k = Len(Tail(I)) <=> k + 1 = c) /\ (k < Len(Tail(I)) <=> k + 1 < c)
          BY <5>1, <5>3
        <5> QED
          BY <5>2, <5>4
      <4>2. IncomingOK1(o, r, a, I, todo, k + 1)
        BY <4>1 DEF IncomingOK
      <4>3. I[k + 1].acked = 0
        BY <4>1, <4>2 DEF IncomingOK1
      <4> QED
        BY <4>1, <4>2, <4>3 DEF IncomingOK1
    <3> QED
      BY <2>3, <2>4, <3>1, <3>2 DEF IncomingOK
  <2>6. ReceiveAt(o, a + 1, Tail(I), todo) = ReceiveAt(o, a, I, todo)
    <3>1. CASE c = 1
      <4>1. Len(I[c].data) = Length[o[(a + c) - 1]]
        <5>1. (a + 1) - 1 = a
          OBVIOUS
        <5> QED
          BY <1>1, <2>2, <3>1, <5>1 DEF d, b
      <4> QED
        BY <1>13, <2>3, <3>1, <4>1 DEF ReceiveAt
    <3>2. CASE c # 1
      <4>1. ((a + 1) + Len(Tail(I))) - 1 = (a + c) - 1 /\ Tail(I) # <<>>
        BY <1>1, <2>3, <3>2
      <4> QED
        BY <2>3, <4>1 DEF ReceiveAt
    <3> QED
      BY <3>1, <3>2
  <2>7. AcksAt(a + 1, Tail(I)) = Mark(a + 1, 0)
    <3>1. CASE c = 1
      BY <2>3, <3>1 DEF AcksAt
    <3>2. CASE c # 1
      <4>1. Tail(I)[1] = I[2] /\ Tail(I) # <<>> /\ 2 \in 1..c
        BY <1>1, <2>3, <3>2
      <4>2. I[2].acked = 0
        <5>1. IncomingOK1(o, r, a, I, todo, 2)
          BY <4>1 DEF IncomingOK
        <5> QED
          BY <5>1 DEF IncomingOK1
      <4> QED
        BY <4>1, <4>2 DEF AcksAt
    <3> QED
      BY <3>1, <3>2
  <2>8. J \in Seq(Incomings) /\ a + 1 \in Nat /\ AckRun(o, r, AcksAt(a, I), xs, AcksAt(a + 1, J))
    <3> HIDE DEF J
    <3>1. AckRun(o, r, AcksAt(a, I), xs, Mark(a + 1, 0))
      BY <1>12, <2>2
    <3> QED
      BY <1>12, <2>1, <2>3, <2>7, <3>1
  <2>9. \E a2 \in Nat : /\ IncomingOK(o, r, a2, J, todo)
                        /\ ReceiveAt(o, a2, J, todo) = ReceiveAt(o, a, I, todo)
                        /\ AckRun(o, r, AcksAt(a, I), xs, AcksAt(a2, J))
    BY <2>1, <2>5, <2>6, <2>8
  <2> HIDE DEF J
  <2> QED
    BY <1>11, <1>12, <1>16, <2>8, <2>9 DEF J, xs
<1>15. CASE ~(front.total # 0 /\ front.total = front.acked)
  <2>1. J = <<front>> \o Tail(I)
    BY <1>15
  <2>2. /\ J \in Seq(Incomings) /\ Len(J) = c /\ J # <<>> /\ J[1] = front
        /\ \A k \in 1..c : k # 1 => J[k] = I[k]
    BY <1>10, <2>1, NewHeadIs
  <2>3. top < Length[b]
    <3>1. d <= Length[b]
      BY <1>2, <1>3, <1>4
    <3>2. top # Length[b]
      <4> SUFFICES ASSUME top = Length[b] PROVE FALSE
        OBVIOUS
      <4>1. end = Length[b] /\ in.total = Length[b]
        BY <1>2, <1>3, <1>4, <1>8
      <4> QED
        BY <1>3, <1>10, <1>15, <4>1
    <3> QED
      BY <1>2, <1>3, <1>8, <3>1, <3>2
  <2> HIDE DEF J
  <2>4. IncomingOK(o, r, a, J, todo)
    <3>1. a > 0 /\ (a + Len(J)) - 1 <= Len(o)
      BY <2>2 DEF IncomingOK
    <3>2. ASSUME NEW k \in 1..Len(J) PROVE IncomingOK1(o, r, a, J, todo, k)
      <4>1. CASE k = 1
        <5>1. (a + 1) - 1 = a /\ J[1] = front /\ Len(J) = c
          BY <2>2
        <5>2. Len(front.data) = d /\ Len(front.data) + (IF 1 = Len(J) THEN todo ELSE 0) = end
          BY <1>10, <5>1 DEF d, end
        <5>3. front.data = Units(o[a], 1, Len(front.data)) /\ Len(front.data) <= r[o[a]]
          BY <1>3, <1>10, <5>2 DEF b
        <5>4. \A n \in front.acks : front.acked < n /\ n <= end
          BY <1>3, <1>9, <1>10
        <5>5. end > front.acked => end \in front.acks
          <6> SUFFICES ASSUME end > top PROVE end \in in.acks \ S
            BY <1>10
          <6>1. end \notin S
            BY <1>3, <1>8
          <6>2. end > in.acked
            BY <1>2, <1>3, <1>8
          <6> QED
            BY <1>3, <6>1, <6>2
        <5>6. /\ 0 < end /\ end <= Length[o[a]]
              /\ front.total = (IF end = Length[o[a]] THEN end ELSE 0)
              /\ (1 < Len(J) => end = Length[o[a]])
              /\ front.acked <= Len(front.data) /\ front.acked < Length[o[a]]
          BY <1>3, <1>8, <1>10, <2>3, <5>1, <5>2 DEF b
        <5> HIDE DEF b
        <5> QED
          BY <4>1, <5>1, <5>2, <5>3, <5>4, <5>5, <5>6 DEF IncomingOK1
      <4>2. CASE k # 1
        <5>1. J[k] = I[k] /\ Len(J) = Len(I) /\ k \in 1..Len(I)
          BY <2>2, <4>2
        <5>2. IncomingOK1(o, r, a, I, todo, k)
          BY <5>1 DEF IncomingOK
        <5> QED
          BY <5>1, <5>2 DEF IncomingOK1
      <4> QED
        BY <4>1, <4>2
    <3> QED
      BY <2>2, <3>1, <3>2 DEF IncomingOK
  <2>5. ReceiveAt(o, a, J, todo) = ReceiveAt(o, a, I, todo)
    <3>1. Last(J) = J[c] /\ Last(I) = I[c] /\ Len(J) = Len(I)
      BY <1>1, <2>2, TailIs
    <3>2. Last(J).data = Last(I).data
      BY <1>1, <1>10, <2>2, <3>1
    <3> QED
      BY <2>2, <3>1, <3>2 DEF ReceiveAt
  <2>6. AcksAt(a, J) = Mark(a, top)
    BY <1>10, <2>2 DEF AcksAt
  <2>7. top # Length[b]
    BY <1>3, <1>8, <2>3
  <2> QED
    <3>1. AckRun(o, r, AcksAt(a, I), xs, AcksAt(a, J))
      BY <1>12, <2>6, <2>7
    <3> QED
      BY <1>11, <1>12, <1>16, <2>2, <2>4, <2>5, <3>1 DEF J, xs
<1> QED
  BY <1>14, <1>15

-----------------------------------------------------------------------------
(* What items that are not about the data do to the runs.                  *)

LEMMA NoAckRun ==
    ASSUME NEW o, NEW r, NEW p \in AckPlaces, NEW xs \in Seq(Items),
           \A j \in 1..Len(xs) : xs[j].type # "ack"
    PROVE  AckRun(o, r, p, xs, p)
<1> DEFINE g == [j \in 1..(Len(xs) + 1) |-> p]
<1>1. /\ Len(xs) \in Nat /\ g \in [1..(Len(xs) + 1) -> AckPlaces]
      /\ \A j \in 1..(Len(xs) + 1) : g[j] = p
      /\ 1 \in 1..(Len(xs) + 1) /\ Len(xs) + 1 \in 1..(Len(xs) + 1)
  OBVIOUS
<1> HIDE DEF g
<1>2. ASSUME NEW j \in 1..Len(xs) PROVE <<g[j], xs[j], g[j + 1]>> \in AckSteps(o, r)
  <2>1. xs[j] \in Items /\ j \in 1..(Len(xs) + 1) /\ j + 1 \in 1..(Len(xs) + 1)
    BY <1>1
  <2>2. AckStep(o, r, p, xs[j], p)
    BY DEF AckStep
  <2> QED
    BY <1>1, <2>1, <2>2 DEF AckSteps
<1> QED
  BY <1>1, <1>2 DEF AckRun, Leads

LEMMA IdleRun ==
    ASSUME NEW o, NEW p \in DataPlaces, p.i > 0, p.todo = 0, NEW xs \in Seq(Items),
           \A j \in 1..Len(xs) : xs[j].type \in {"ack", "keepalive", "shutdown"}
    PROVE  DataRun(o, p, xs, p)
<1> DEFINE g == [j \in 1..(Len(xs) + 1) |-> p]
<1>1. /\ Len(xs) \in Nat /\ g \in [1..(Len(xs) + 1) -> DataPlaces]
      /\ \A j \in 1..(Len(xs) + 1) : g[j] = p
      /\ 1 \in 1..(Len(xs) + 1) /\ Len(xs) + 1 \in 1..(Len(xs) + 1)
  OBVIOUS
<1> HIDE DEF g
<1>2. ASSUME NEW j \in 1..Len(xs) PROVE <<g[j], xs[j], g[j + 1]>> \in DataSteps(o)
  <2>1. xs[j] \in Items /\ j \in 1..(Len(xs) + 1) /\ j + 1 \in 1..(Len(xs) + 1)
    BY <1>1
  <2>2. DataStep(o, p, xs[j], p)
    BY DEF DataStep
  <2> QED
    BY <1>1, <2>1, <2>2 DEF DataSteps
<1> QED
  BY <1>1, <1>2 DEF DataRun, Leads

LEMMA DataRunNone ==
    ASSUME NEW o, NEW p \in DataPlaces, NEW q
    PROVE  DataRun(o, p, <<>>, q) <=> q = p
BY LeadsEmpty DEF DataRun

LEMMA DataRunPart ==
    ASSUME NEW o, NEW xs \in Seq(Items), NEW ys \in Seq(Items), NEW p, NEW q,
           DataRun(o, p, xs \o ys, q)
    PROVE  \E m \in DataPlaces : DataRun(o, p, xs, m)
BY LeadsPart DEF DataRun

\* The acknowledgements that still arrive when the rest is lost.
LEMMA AckRunPart ==
    ASSUME NEW o \in Seq(Bundles), NEW r, NEW xs \in Seq(Items), NEW ys \in Seq(Items),
           NEW p, NEW q, AckRun(o, r, p, xs \o ys, q), NEW z \in DataPlaces, NotAhead(q, z)
    PROVE  \E m \in AckPlaces : AckRun(o, r, p, xs, m) /\ NotAhead(m, z)
<1> DEFINE zs == xs \o ys
<1>1. PICK g \in [1..(Len(zs) + 1) -> AckPlaces] :
         /\ g[1] = p /\ g[Len(zs) + 1] = q
         /\ \A j \in 1..Len(zs) : <<g[j], zs[j], g[j + 1]>> \in AckSteps(o, r)
  BY DEF AckRun, Leads
<1> DEFINE k == Len(xs)
           n == Len(ys)
           h == [j \in 1..(k + 1) |-> g[j]]
           f == [j \in 1..(n + 1) |-> g[j + k]]
<1>2. /\ k \in Nat /\ n \in Nat /\ Len(zs) = k + n
      /\ (\A j \in 1..k : zs[j] = xs[j]) /\ (\A j \in 1..n : zs[j + k] = ys[j])
  OBVIOUS
<1> HIDE DEF k, n, zs
<1>3. /\ h \in [1..(k + 1) -> AckPlaces] /\ h[1] = p /\ h[k + 1] = g[k + 1]
      /\ \A j \in 1..k : h[j] = g[j] /\ h[j + 1] = g[j + 1] /\ j \in 1..Len(zs)
  BY <1>1, <1>2
<1>4. /\ f \in [1..(n + 1) -> AckPlaces] /\ f[1] = g[k + 1] /\ f[n + 1] = q
      /\ \A j \in 1..n : f[j] = g[j + k] /\ f[j + 1] = g[(j + k) + 1] /\ j + k \in 1..Len(zs)
  <2>1. \A j \in 1..(n + 1) : j + k \in 1..(Len(zs) + 1)
    BY <1>2
  <2>2. 1 \in 1..(n + 1) /\ 1 + k = k + 1 /\ n + 1 \in 1..(n + 1) /\ (n + 1) + k = Len(zs) + 1
    BY <1>2
  <2>3. \A j \in 1..n : /\ j \in 1..(n + 1) /\ j + 1 \in 1..(n + 1) /\ (j + 1) + k = (j + k) + 1
                        /\ j + k \in 1..Len(zs)
    BY <1>2
  <2>4. f \in [1..(n + 1) -> AckPlaces] /\ \A j \in 1..(n + 1) : f[j] = g[j + k]
    BY <1>1, <2>1
  <2> HIDE DEF f
  <2> QED
    BY <1>1, <2>2, <2>3, <2>4
<1> HIDE DEF f, h
<1>5. AckRun(o, r, p, xs, g[k + 1])
  BY <1>1, <1>2, <1>3 DEF AckRun, Leads, k
<1>6. AckRun(o, r, g[k + 1], ys, q)
  <2>1. \A j \in 1..n : <<f[j], ys[j], f[j + 1]>> \in AckSteps(o, r)
    BY <1>1, <1>2, <1>4
  <2> QED
    BY <1>2, <1>4, <2>1 DEF AckRun, Leads, n
<1>7. g[k + 1] \in AckPlaces
  BY <1>2, <1>3
<1> QED
  BY <1>5, <1>6, <1>7, AckRunBehind

-----------------------------------------------------------------------------
(* The places.                                                             *)

LEMMA SendAtIs ==
    ASSUME NEW o \in Seq(Bundles), NEW r \in [Bundles -> Nat], NEW F \in Seq(Flights),
           NEW cur \in Bundles \cup {NoBundle}, NEW todo \in Nat, FlightsOK(o, r, F, cur, todo)
    PROVE  LET p == SendAt(o, F, todo) IN
           /\ p \in DataPlaces /\ p.i > 0 /\ (todo = 0 => p.todo = 0)
<1>1. Len(o) \in Nat /\ Len(F) \in Nat
  OBVIOUS
<1>2. CASE F # <<>> /\ ~Unsent(F, todo) /\ Last(F).sent < Length[Last(F).bundle]
  <2>1. SendAt(o, F, todo) = Place(Len(o), Last(F).sent, todo)
    BY <1>2 DEF SendAt
  <2>2. Len(F) \in 1..Len(F) /\ Last(F) = F[Len(F)]
    BY <1>2, TailIs
  <2>3. Last(F).sent \in Nat
    BY <2>2, FlightType
  <2>4. Begun(F, todo) = Len(F) /\ Begun(F, todo) <= Len(o)
    BY <1>2 DEF Begun, FlightsOK
  <2>5. Len(o) > 0
    BY <1>1, <2>2, <2>4
  <2> QED
    BY <1>1, <2>1, <2>3, <2>5, PlaceType DEF Place
<1>3. CASE ~(F # <<>> /\ ~Unsent(F, todo) /\ Last(F).sent < Length[Last(F).bundle])
  <2>1. SendAt(o, F, todo) = Place(Len(o) + 1, 0, 0)
    BY <1>3 DEF SendAt
  <2> QED
    BY <1>1, <2>1, PlaceType DEF Place
<1> QED
  BY <1>2, <1>3

LEMMA ReceiveAtType ==
    ASSUME NEW o \in Seq(Bundles), NEW r \in [Bundles -> Nat], NEW a \in Nat,
           NEW I \in Seq(Incomings), NEW todo \in Nat, IncomingOK(o, r, a, I, todo)
    PROVE  /\ ReceiveAt(o, a, I, todo) \in DataPlaces /\ ReceiveAt(o, a, I, todo).i > 0
           /\ AcksAt(a, I) \in AckPlaces
<1>1. a > 0
  BY DEF IncomingOK
<1>2. CASE I = <<>>
  BY <1>1, <1>2, PlaceType DEF ReceiveAt, AcksAt, Place
<1>3. CASE I # <<>>
  <2>1. Len(I) \in Nat /\ Len(I) > 0 /\ Last(I) = I[Len(I)] /\ Len(I) \in 1..Len(I) /\ 1 \in 1..Len(I)
    BY <1>3, TailIs
  <2>2. Len(Last(I).data) \in Nat /\ I[1].acked \in Nat
    BY <2>1, IncomingType
  <2>3. (a + Len(I)) - 1 \in Nat /\ (a + Len(I)) - 1 > 0
    BY <1>1, <2>1
  <2>4. ReceiveAt(o, a, I, todo) = After(o, (a + Len(I)) - 1, Len(Last(I).data), todo)
    BY <1>3 DEF ReceiveAt
  <2> DEFINE i == (a + Len(I)) - 1
  <2> HIDE DEF i
  <2>5. i \in Nat /\ i > 0 /\ ReceiveAt(o, a, I, todo) = After(o, i, Len(Last(I).data), todo)
    BY <2>3, <2>4 DEF i
  <2>6. After(o, i, Len(Last(I).data), todo).i > 0
    BY <2>2, <2>5 DEF After, Place
  <2> QED
    BY <1>3, <2>2, <2>5, <2>6, AfterType, PlaceType DEF AcksAt
<1> QED
  BY <1>2, <1>3

-----------------------------------------------------------------------------
(* The receiver's side when more has arrived or been begun.                *)

LEMMA IncomingGrows ==
    ASSUME NEW o \in Seq(Bundles), NEW r \in [Bundles -> Nat], NEW r2 \in [Bundles -> Nat],
           Grows(r, r2), NEW a \in Nat, NEW I \in Seq(Incomings), NEW todo \in Nat,
           IncomingOK(o, r, a, I, todo)
    PROVE  IncomingOK(o, r2, a, I, todo)
<1>1. ASSUME NEW k \in 1..Len(I) PROVE IncomingOK1(o, r2, a, I, todo, k)
  <2>1. IncomingOK1(o, r, a, I, todo, k)
    BY DEF IncomingOK
  <2>2. o[(a + k) - 1] \in Bundles /\ Len(I[k].data) \in Nat
    BY IncomingIs, IncomingType
  <2>3. Len(I[k].data) <= r2[o[(a + k) - 1]]
    <3>1. Len(I[k].data) <= r[o[(a + k) - 1]]
      BY <2>1 DEF IncomingOK1
    <3>2. r[o[(a + k) - 1]] <= r2[o[(a + k) - 1]]
      BY <2>2 DEF Grows
    <3>3. r[o[(a + k) - 1]] \in Nat /\ r2[o[(a + k) - 1]] \in Nat
      BY <2>2
    <3> QED
      BY <2>2, <3>1, <3>2, <3>3
  <2> QED
    BY <2>1, <2>3 DEF IncomingOK1
<1> QED
  BY <1>1 DEF IncomingOK

LEMMA IncomingMore ==
    ASSUME NEW o \in Seq(Bundles), NEW b \in Bundles, NEW r \in [Bundles -> Nat],
           NEW a \in Nat, NEW I \in Seq(Incomings), NEW todo \in Nat,
           IncomingOK(o, r, a, I, todo)
    PROVE  /\ IncomingOK(Append(o, b), r, a, I, todo)
           /\ ReceiveAt(Append(o, b), a, I, todo) = ReceiveAt(o, a, I, todo)
<1> DEFINE p == Append(o, b)
<1>1. /\ p \in Seq(Bundles) /\ Len(p) = Len(o) + 1 /\ Len(o) \in Nat
      /\ \A i \in 1..Len(o) : i \in 1..Len(p) /\ p[i] = o[i]
  BY Appended
<1> HIDE DEF p
<1>2. ASSUME NEW k \in 1..Len(I)
      PROVE  IncomingOK1(p, r, a, I, todo, k) /\ p[(a + k) - 1] = o[(a + k) - 1]
  <2>1. IncomingOK1(o, r, a, I, todo, k)
    BY DEF IncomingOK
  <2>2. (a + k) - 1 \in 1..Len(o)
    BY IncomingIs
  <2>3. p[(a + k) - 1] = o[(a + k) - 1]
    BY <1>1, <2>2
  <2> QED
    BY <2>1, <2>3 DEF IncomingOK1
<1>3. a > 0 /\ (a + Len(I)) - 1 <= Len(p) /\ (I = <<>> => todo = 0)
  BY <1>1 DEF IncomingOK
<1>4. IncomingOK(p, r, a, I, todo)
  BY <1>2, <1>3 DEF IncomingOK
<1>5. ReceiveAt(p, a, I, todo) = ReceiveAt(o, a, I, todo)
  <2>1. CASE I = <<>>
    BY <2>1 DEF ReceiveAt
  <2>2. CASE I # <<>>
    <3>1. Len(I) \in 1..Len(I)
      BY <2>2, TailIs
    <3>2. p[(a + Len(I)) - 1] = o[(a + Len(I)) - 1]
      BY <1>2, <3>1
    <3> QED
      BY <2>2, <3>2 DEF ReceiveAt, After
  <2> QED
    BY <2>1, <2>2
<1> QED
  BY <1>4, <1>5 DEF p

\* The sender does not fall behind what has been acknowledged.
LEMMA AheadStays ==
    ASSUME NEW o \in Seq(Bundles), NEW xs \in Seq(Items), NEW p \in DataPlaces, p.i > 0,
           NEW q \in DataPlaces, DataRun(o, p, xs, q), NEW m \in AckPlaces, NotAhead(m, p)
    PROVE  NotAhead(m, q)
<1> DEFINE K == {z \in DataPlaces : z.i > 0 /\ NotAhead(m, z)}
<1>1. p \in K
  OBVIOUS
<1>2. ASSUME NEW v \in DataPlaces, NEW x \in Items, NEW w \in DataPlaces,
             v \in K, <<v, x, w>> \in DataSteps(o)
      PROVE  w \in K
  <2>1. v.i \in Nat /\ v.at \in Nat /\ v.i > 0 /\ NotAhead(m, v) /\ m.i \in Nat /\ m.n \in Nat
    BY <1>2 DEF DataPlaces, AckPlaces
  <2>2. DataStep(o, v, x, w)
    BY <1>2 DEF DataSteps
  <2>3. CASE v = Start
    BY <2>1, <2>3 DEF Start, Place
  <2>4. CASE w = v
    BY <1>2, <2>4
  <2>5. CASE w = Place(v.i, v.at, x.len)
    BY <2>1, <2>5 DEF NotAhead, Place
  <2>6. CASE w = After(o, v.i, v.at + 1, v.todo - 1)
    <3>1. CASE w = Place(v.i + 1, 0, 0)
      BY <2>1, <3>1 DEF NotAhead, Place
    <3>2. CASE w = Place(v.i, v.at + 1, v.todo - 1)
      BY <2>1, <3>2 DEF NotAhead, Place
    <3> QED
      BY <2>6, <3>1, <3>2 DEF After
  <2> QED
    BY <2>2, <2>3, <2>4, <2>5, <2>6 DEF DataStep
<1>3. q \in K
  <2> HIDE DEF K
  <2>1. Leads(DataSteps(o), DataPlaces, p, xs, q)
    BY DEF DataRun
  <2> QED
    BY <1>1, <1>2, <2>1, LeadsWithin
<1> QED
  BY <1>3

-----------------------------------------------------------------------------
(* The two sides and the pipes between them.                               *)

LEMMA PeerIs ==
    ASSUME NEW s \in Sides
    PROVE  /\ Peer(s) \in Sides /\ Peer(s) # s /\ Peer(Peer(s)) = s /\ Sides = {s, Peer(s)}
<1>1. PICK u, v \in Sides : u # v /\ Sides = {u, v}
  BY SidesAssumption
<1>2. ASSUME NEW t \in Sides PROVE Peer(t) \in Sides /\ Peer(t) # t
  <2>1. \E w \in Sides : w # t
    BY <1>1
  <2> QED
    BY <2>1 DEF Peer
<1>3. Peer(s) \in Sides /\ Peer(s) # s /\ Peer(Peer(s)) \in Sides /\ Peer(Peer(s)) # Peer(s)
  BY <1>2
<1> QED
  BY <1>1, <1>3

LEMMA PipeType ==
    ASSUME TypeOK, NEW s \in Sides
    PROVE  Pipe(s) \in Seq(Items)
<1>1. Peer(s) \in Sides
  BY PeerIs
<1> QED
  BY <1>1 DEF TypeOK, Pipe

LEMMA SplitAt ==
    ASSUME NEW s \in Seq(Items), NEW n \in 0..Len(s)
    PROVE  /\ SubSeq(s, 1, n) \in Seq(Items) /\ SubSeq(s, n + 1, Len(s)) \in Seq(Items)
           /\ SubSeq(s, 1, n) \o SubSeq(s, n + 1, Len(s)) = s
<1>1. Len(s) \in Nat /\ n \in Nat
  OBVIOUS
<1>2. SubSeq(s, 1, n) \in Seq(Items) /\ Len(SubSeq(s, 1, n)) = n
      /\ \A j \in 1..n : SubSeq(s, 1, n)[j] = s[j]
  BY PrefixIs
<1>3. SubSeq(s, n + 1, Len(s)) \in Seq(Items) /\ Len(SubSeq(s, n + 1, Len(s))) = Len(s) - n
      /\ \A j \in 1..(Len(s) - n) : SubSeq(s, n + 1, Len(s))[j] = s[j + n]
  OBVIOUS
<1> DEFINE u == SubSeq(s, 1, n)
           v == SubSeq(s, n + 1, Len(s))
<1>4. u \in Seq(Items) /\ v \in Seq(Items) /\ Len(u) = n /\ Len(v) = Len(s) - n
  BY <1>2, <1>3
<1>5. (\A j \in 1..n : u[j] = s[j]) /\ (\A j \in 1..(Len(s) - n) : v[j] = s[j + n])
  BY <1>2, <1>3
<1> HIDE DEF u, v
<1>6. u \o v \in Seq(Items) /\ Len(u \o v) = Len(s)
      /\ \A j \in 1..Len(s) : (u \o v)[j] = IF j <= n THEN u[j] ELSE v[j - n]
  BY <1>1, <1>4
<1>7. \A j \in 1..Len(s) : (u \o v)[j] = s[j]
  <2> TAKE j \in 1..Len(s)
  <2>1. CASE j <= n
    BY <1>1, <1>5, <1>6, <2>1
  <2>2. CASE ~(j <= n)
    <3>1. j - n \in 1..(Len(s) - n) /\ (j - n) + n = j
      BY <1>1, <2>2
    <3> QED
      BY <1>5, <1>6, <2>2, <3>1
  <2> QED
    BY <2>1, <2>2
<1>8. u \o v = s
  BY <1>6, <1>7, SeqEqual
<1> QED
  BY <1>4, <1>8 DEF u, v

LEMMA Joined ==
    ASSUME NEW s \in Seq(Items), NEW t \in Seq(Items), NEW u \in Seq(Items)
    PROVE  (s \o t) \o u = s \o (t \o u) /\ s \o t \in Seq(Items)
BY ConcatAssociative

\* What a side writes comes to the end of its peer's pipe.
LEMMA WritePipe ==
    ASSUME TypeOK, NEW x \in Sides, NEW xs \in Seq(Items), FillAndSend(x, xs),
           recvbuf'[Peer(x)] = recvbuf[Peer(x)]
    PROVE  /\ Pipe(Peer(x))' = Pipe(Peer(x)) \o xs
           /\ recvbuf'[x] = recvbuf[x] => Pipe(x)' = Pipe(x)
           /\ wire' \in [Sides -> Seq(Items)] /\ sendbuf' \in [Sides -> Seq(Items)]
           /\ sendbuf'[Peer(x)] = sendbuf[Peer(x)]
<1> DEFINE y == Peer(x)
           out == sendbuf[x] \o xs
<1>1. y \in Sides /\ y # x /\ Peer(y) = x
  BY PeerIs
<1>2. /\ sendbuf \in [Sides -> Seq(Items)] /\ wire \in [Sides -> Seq(Items)]
      /\ recvbuf \in [Sides -> Seq(Items)]
  BY DEF TypeOK
<1>3. PICK n \in 0..Least(Len(out), WireLen - Len(wire[x])) :
         /\ wire' = Put(wire, x, wire[x] \o SubSeq(out, 1, n))
         /\ sendbuf' = Put(sendbuf, x, SubSeq(out, n + 1, Len(out)))
  BY DEF FillAndSend
<1>4. out \in Seq(Items) /\ sendbuf[x] \in Seq(Items) /\ wire[x] \in Seq(Items) /\ recvbuf[y] \in Seq(Items)
  BY <1>1, <1>2
<1>5. n \in 0..Len(out)
  <2>1. Len(out) \in Nat /\ Len(wire[x]) \in Nat /\ WireLen \in Nat
    BY <1>4, LengthsAssumption
  <2> HIDE DEF out
  <2> QED
    BY <1>3, <2>1 DEF Least
<1> DEFINE u == SubSeq(out, 1, n)
           v == SubSeq(out, n + 1, Len(out))
<1>6. u \in Seq(Items) /\ v \in Seq(Items) /\ u \o v = out
  <2> HIDE DEF out
  <2> QED
    BY <1>4, <1>5, SplitAt DEF out
<1>7. wire' = [wire EXCEPT ![x] = wire[x] \o u] /\ sendbuf' = [sendbuf EXCEPT ![x] = v]
  BY <1>3 DEF Put
<1> HIDE DEF u, v, y
<1>8. wire' \in [Sides -> Seq(Items)] /\ sendbuf' \in [Sides -> Seq(Items)]
  <2>1. wire[x] \o u \in Seq(Items)
    BY <1>4, <1>6, Concat
  <2> QED
    BY <1>2, <1>6, <1>7, <2>1
<1>9. wire'[x] = wire[x] \o u /\ sendbuf'[x] = v /\ wire'[y] = wire[y] /\ sendbuf'[y] = sendbuf[y]
  BY <1>1, <1>2, <1>7
<1>10. recvbuf'[x] = recvbuf[x] => Pipe(x)' = Pipe(x)
  <2>1. Peer(x) = y
    BY DEF y
  <2> QED
    BY <1>9, <2>1 DEF Pipe
<1>11. Pipe(y)' = Pipe(y) \o xs
  <2> DEFINE R == recvbuf[y]
             W == wire[x]
             S == sendbuf[x]
  <2>1. Pipe(y) = (R \o W) \o S /\ Pipe(y)' = (R \o (W \o u)) \o v
    <3>1. recvbuf'[y] = recvbuf[y]
      BY DEF y
    <3> QED
      BY <1>1, <1>9, <3>1 DEF Pipe
  <2>2. R \in Seq(Items) /\ W \in Seq(Items) /\ S \in Seq(Items) /\ u \o v = S \o xs
    BY <1>4, <1>6
  <2> HIDE DEF R, W, S
  <2>3. R \o (W \o u) = (R \o W) \o u /\ R \o W \in Seq(Items)
    <3>1. u \in Seq(Items)
      BY <1>6
    <3>2. R \in Seq(Items) /\ W \in Seq(Items)
      BY <2>2
    <3>4. (R \o W) \o u = R \o (W \o u)
      BY <3>1, <3>2, Joined
    <3>3. R \o W \in Seq(Items)
      BY <2>2, Concat
    <3> QED
      BY <3>3, <3>4
  <2>4. ((R \o W) \o u) \o v = (R \o W) \o (u \o v)
    BY <1>6, <2>3, Joined
  <2>5. ((R \o W) \o S) \o xs = (R \o W) \o (S \o xs)
    BY <2>2, <2>3, Joined
  <2> QED
    BY <2>1, <2>2, <2>3, <2>4, <2>5
<1> QED
  BY <1>8, <1>9, <1>10, <1>11 DEF y

LEMMA SendPipe ==
    ASSUME TypeOK, NEW x \in Sides, NEW xs \in Seq(Items), FillAndSend(x, xs),
           recvbuf' = recvbuf
    PROVE  /\ Pipe(Peer(x))' = Pipe(Peer(x)) \o xs /\ Pipe(x)' = Pipe(x)
           /\ wire' \in [Sides -> Seq(Items)] /\ sendbuf' \in [Sides -> Seq(Items)]
<1>1. recvbuf'[Peer(x)] = recvbuf[Peer(x)] /\ recvbuf'[x] = recvbuf[x]
  OBVIOUS
<1> QED
  BY <1>1, WritePipe

\* Reading moves what is in the pipe from the kernel to the buffer.
LEMMA ReadPipe ==
    ASSUME TypeOK, NEW x \in Sides, Read(x)
    PROVE  /\ Pipe(Peer(x))' = Pipe(Peer(x)) /\ Pipe(x)' = Pipe(x)
           /\ wire' \in [Sides -> Seq(Items)] /\ recvbuf' \in [Sides -> Seq(Items)]
           /\ recvbuf'[x] # <<>> /\ recvbuf'[Peer(x)] = recvbuf[Peer(x)]
<1> DEFINE y == Peer(x)
           W == wire[y]
           R == recvbuf[x]
<1>1. y \in Sides /\ y # x /\ Peer(y) = x
  BY PeerIs
<1>2. /\ sendbuf \in [Sides -> Seq(Items)] /\ wire \in [Sides -> Seq(Items)]
      /\ recvbuf \in [Sides -> Seq(Items)]
  BY DEF TypeOK
<1>3. PICK n \in 1..Len(W) :
         /\ recvbuf' = [recvbuf EXCEPT ![x] = R \o SubSeq(W, 1, n)]
         /\ wire' = [wire EXCEPT ![y] = SubSeq(W, n + 1, Len(W))]
  BY DEF Read, Put
<1>4. W \in Seq(Items) /\ R \in Seq(Items) /\ sendbuf[y] \in Seq(Items) /\ sendbuf' = sendbuf
  BY <1>1, <1>2 DEF Read
<1> DEFINE u == SubSeq(W, 1, n)
           v == SubSeq(W, n + 1, Len(W))
<1>5. u \in Seq(Items) /\ v \in Seq(Items) /\ u \o v = W /\ Len(u) = n /\ n > 0
  <2> HIDE DEF W
  <2>1. Len(W) \in Nat
    BY <1>4
  <2>2. n \in 0..Len(W) /\ n > 0
    BY <1>3, <2>1
  <2> QED
    BY <1>4, <2>2, SplitAt, PrefixIs
<1> HIDE DEF u, v, y, W
<1>6. R \o u \in Seq(Items) /\ R \o u # <<>>
  <2> HIDE DEF R
  <2> QED
    BY <1>4, <1>5
<1>7. recvbuf' = [recvbuf EXCEPT ![x] = R \o u] /\ wire' = [wire EXCEPT ![y] = v]
  BY <1>3 DEF u, v
<1>8. /\ recvbuf'[x] = R \o u /\ recvbuf'[y] = recvbuf[y] /\ wire'[y] = v /\ wire'[x] = wire[x]
      /\ wire' \in [Sides -> Seq(Items)] /\ recvbuf' \in [Sides -> Seq(Items)]
  BY <1>1, <1>2, <1>5, <1>6, <1>7
<1>9. Pipe(y)' = Pipe(y)
  BY <1>1, <1>4, <1>8 DEF Pipe
<1>10. Pipe(x)' = Pipe(x)
  <2>1. Pipe(x) = (R \o W) \o sendbuf[y] /\ Pipe(x)' = ((R \o u) \o v) \o sendbuf[y]
    BY <1>4, <1>8 DEF Pipe, y, W
  <2> HIDE DEF R
  <2>2. (R \o u) \o v = R \o W
    BY <1>4, <1>5, Joined
  <2> QED
    BY <2>1, <2>2
<1> QED
  BY <1>6, <1>8, <1>9, <1>10 DEF y

\* The head of the buffer is the head of the pipe.
LEMMA TakePipe ==
    ASSUME TypeOK, NEW x \in Sides, recvbuf[x] # <<>>,
           recvbuf' = Put(recvbuf, x, Tail(recvbuf[x])), sendbuf' = sendbuf, wire' = wire
    PROVE  /\ Pipe(Peer(x))' = Pipe(Peer(x)) /\ Pipe(x) # <<>> /\ Pipe(x) \in Seq(Items)
           /\ Head(Pipe(x)) = Head(recvbuf[x]) /\ Pipe(x)' = Tail(Pipe(x))
           /\ recvbuf' \in [Sides -> Seq(Items)] /\ Head(recvbuf[x]) \in Items
<1> DEFINE y == Peer(x)
           R == recvbuf[x]
           W == wire[y]
           S == sendbuf[y]
<1>1. y \in Sides /\ y # x /\ Peer(y) = x
  BY PeerIs
<1>2. /\ sendbuf \in [Sides -> Seq(Items)] /\ wire \in [Sides -> Seq(Items)]
      /\ recvbuf \in [Sides -> Seq(Items)]
  BY DEF TypeOK
<1>3. W \in Seq(Items) /\ R \in Seq(Items) /\ S \in Seq(Items) /\ R # <<>>
  BY <1>1, <1>2
<1>4. Pipe(x) = (R \o W) \o S
  BY DEF Pipe
<1> HIDE DEF y
<1>5. Head(R) \in Items /\ Tail(R) \in Seq(Items)
  <2> HIDE DEF R
  <2> QED
    BY <1>3, TailIs
<1>6. recvbuf'[x] = Tail(R) /\ recvbuf'[y] = recvbuf[y] /\ recvbuf' \in [Sides -> Seq(Items)]
  BY <1>1, <1>2, <1>5 DEF Put
<1>7. Pipe(x)' = (Tail(R) \o W) \o S
  BY <1>6 DEF Pipe, y
<1>8. Pipe(y)' = Pipe(y)
  BY <1>1, <1>6 DEF Pipe
<1> HIDE DEF R, W, S
<1>9. (R \o W) \o S = R \o (W \o S) /\ (Tail(R) \o W) \o S = Tail(R) \o (W \o S)
  BY <1>3, <1>5, Joined
<1> DEFINE V == W \o S
<1>10. V \in Seq(Items)
  BY <1>3, Concat
<1> HIDE DEF V
<1>11. R \o V \in Seq(Items) /\ R \o V # <<>> /\ Head(R \o V) = Head(R) /\ Tail(R \o V) = Tail(R) \o V
  <2>1. /\ Len(R) \in Nat /\ Len(R) > 0 /\ Head(R) = R[1] /\ Len(Tail(R)) = Len(R) - 1
        /\ \A k \in 1..(Len(R) - 1) : Tail(R)[k] = R[k + 1]
    BY <1>3, TailIs
  <2>2. R \o V \in Seq(Items) /\ Len(R \o V) = Len(R) + Len(V) /\ Len(V) \in Nat
        /\ \A k \in 1..(Len(R) + Len(V)) : (R \o V)[k] = IF k <= Len(R) THEN R[k] ELSE V[k - Len(R)]
    BY <1>3, <1>10
  <2>3. R \o V # <<>>
    BY <2>1, <2>2
  <2> DEFINE Z == R \o V
             T == Tail(R) \o V
  <2> HIDE DEF Z
  <2>4. Head(Z) = Z[1] /\ Tail(Z) \in Seq(Items) /\ Len(Tail(Z)) = Len(Z) - 1
        /\ \A k \in 1..(Len(Z) - 1) : Tail(Z)[k] = Z[k + 1]
    BY <2>2, <2>3, TailIs DEF Z
  <2>5. Head(Z) = Head(R)
    BY <2>1, <2>2, <2>4 DEF Z
  <2>6. T \in Seq(Items) /\ Len(T) = (Len(R) - 1) + Len(V)
        /\ \A k \in 1..((Len(R) - 1) + Len(V)) :
              T[k] = IF k <= Len(R) - 1 THEN Tail(R)[k] ELSE V[k - (Len(R) - 1)]
    BY <1>5, <1>10, <2>1, <2>2
  <2> HIDE DEF T
  <2>7. Tail(Z) = T
    <3>1. Len(Tail(Z)) = Len(T) /\ Len(Tail(Z)) = (Len(R) - 1) + Len(V)
      BY <2>1, <2>2, <2>4, <2>6 DEF Z
    <3>2. ASSUME NEW k \in 1..Len(Tail(Z)) PROVE Tail(Z)[k] = T[k]
      <4>1. k \in 1..((Len(R) - 1) + Len(V)) /\ k + 1 \in 1..(Len(R) + Len(V)) /\ k \in 1..(Len(Z) - 1)
        BY <2>1, <2>2, <2>4, <3>1 DEF Z
      <4>2. Tail(Z)[k] = IF k + 1 <= Len(R) THEN R[k + 1] ELSE V[(k + 1) - Len(R)]
        BY <2>2, <2>4, <4>1 DEF Z
      <4>3. CASE k + 1 <= Len(R)
        <5>1. k <= Len(R) - 1 /\ k \in 1..(Len(R) - 1)
          BY <2>1, <4>1, <4>3
        <5> QED
          BY <2>1, <2>6, <4>1, <4>2, <4>3, <5>1
      <4>4. CASE ~(k + 1 <= Len(R))
        <5>1. ~(k <= Len(R) - 1) /\ (k + 1) - Len(R) = k - (Len(R) - 1)
          BY <2>1, <4>1, <4>4
        <5> QED
          BY <2>6, <4>1, <4>2, <4>4, <5>1
      <4> QED
        BY <4>3, <4>4
    <3> QED
      BY <2>4, <2>6, <3>1, <3>2, SeqEqual
  <2> QED
    BY <2>2, <2>3, <2>5, <2>7 DEF Z, T
<1> QED
  BY <1>4, <1>5, <1>6, <1>7, <1>8, <1>9, <1>11 DEF V, R, y

\* What a side has not written when it closes is lost.
LEMMA ClosePipe ==
    ASSUME TypeOK, NEW x \in Sides, recvbuf' = Put(recvbuf, x, <<>>),
           sendbuf' = Put(sendbuf, x, <<>>), wire' = wire
    PROVE  /\ Pipe(Peer(x)) = Pipe(Peer(x))' \o sendbuf[x] /\ sendbuf[x] \in Seq(Items)
           /\ Pipe(Peer(x))' \in Seq(Items)
<1> DEFINE y == Peer(x)
           R == recvbuf[y]
           W == wire[x]
<1>1. y \in Sides /\ y # x /\ Peer(y) = x
  BY PeerIs
<1>2. /\ sendbuf \in [Sides -> Seq(Items)] /\ wire \in [Sides -> Seq(Items)]
      /\ recvbuf \in [Sides -> Seq(Items)]
  BY DEF TypeOK
<1> HIDE DEF y
<1>3. recvbuf'[y] = R /\ sendbuf'[x] = <<>>
  BY <1>1, <1>2 DEF Put
<1>4. Pipe(y) = (R \o W) \o sendbuf[x] /\ Pipe(y)' = (R \o W) \o <<>>
  BY <1>1, <1>3 DEF Pipe
<1>5. R \o W \in Seq(Items) /\ sendbuf[x] \in Seq(Items)
  BY <1>1, <1>2
<1>6. (R \o W) \o <<>> = R \o W
  <2> DEFINE Z == R \o W
  <2> HIDE DEF Z
  <2>1. Z \o <<>> = Z
    BY <1>5, ConcatEmptySeq DEF Z
  <2> QED
    BY <2>1 DEF Z
<1> QED
  BY <1>4, <1>5, <1>6 DEF y
=============================================================================
