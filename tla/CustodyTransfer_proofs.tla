------------------------ MODULE CustodyTransfer_proofs ------------------------
(***************************************************************************)
(* Custody is not lost, for any number of nodes and any routes without a   *)
(* loop.  A node gives custody up when a signal arrives; the invariant     *)
(* says who has custody then: while a signal of m is under way, a node     *)
(* that is no farther from the destination than m has it, and the one that *)
(* the signal is for is farther.                                           *)
(***************************************************************************)
EXTENDS CustodyTransfer, TLAPS

\* What ends the promise.
Resolved == over \/ taken \/ gap

\* A node as near to the destination as m has custody.
Covered(m) == Resolved \/ \E k \in Nodes : Holds(k) /\ Rank[k] <= Rank[m]

AcceptingPlain == \A n \in accepting : copy[n] = "plain"

\* Who has custody names itself; every other custodian is one that the bundle
\* has come from.
Downhill ==
    /\ \A n \in Nodes : copy[n] = "custody" => custodian[n] = n
    /\ \A n \in Nodes : copy[n] = "plain" /\ custodian[n] # None
                            => Rank[n] < Rank[custodian[n]]
    /\ \A m \in net : m.custodian # None => Rank[m.to] < Rank[m.custodian]
    /\ \A c \in Nodes : list = Kept(c) => Rank[Dst] < Rank[c]
    /\ \A s \in signals : Rank[s.from] < Rank[s.to]

SignalsCovered == \A s \in signals : Covered(s.from)

IInv == TypeOK /\ AcceptingPlain /\ Downhill /\ SignalsCovered /\ SomeoneHasCustody

USE NodesAssumption, RoutesAssumption, BoundAssumption

-----------------------------------------------------------------------------
(* The initial states *)

LEMMA InitIInv == Init => IInv
<1> SUFFICES ASSUME Init PROVE IInv
  OBVIOUS
<1>1. TypeOK
  <2>1. /\ copy \in [Nodes -> {"absent", "plain", "custody"}]
        /\ custodian \in [Nodes -> Custodians]
        /\ sent \in [Nodes -> SUBSET Nodes] /\ timers \in [Nodes -> SUBSET Nodes]
    BY DEF Init, Custodians
  <2>2. /\ list \in {Nothing, ThePending} \cup {Kept(c) : c \in Custodians}
        /\ crashes \in 0..MaxCrashes
    BY DEF Init
  <2> QED BY <2>1, <2>2 DEF Init, TypeOK
<1>2. AcceptingPlain /\ Downhill /\ SignalsCovered /\ SomeoneHasCustody
  BY DEF Init, AcceptingPlain, Downhill, SignalsCovered, SomeoneHasCustody, Nothing, Kept
<1> QED BY <1>1, <1>2 DEF IInv

-----------------------------------------------------------------------------
(* Types *)

\* What Settle, Fresh and Without leave.
LEMMA SettleType ==
  ASSUME TypeOK, NEW n \in Nodes, NEW c \in Custodians,
         NEW status \in {"plain", "custody"}, Settle(n, status, c)
  PROVE  /\ copy' \in [Nodes -> {"absent", "plain", "custody"}]
         /\ custodian' \in [Nodes -> Custodians]
         /\ list' \in {Nothing, ThePending} \cup {Kept(d) : d \in Custodians}
         /\ cache' \in BOOLEAN
BY DEF Settle, TypeOK

LEMMA SignalToType ==
  ASSUME NEW n \in Nodes, NEW c \in Custodians
  PROVE  SignalTo(n, c) \subseteq [from : Nodes, to : Nodes]
BY DEF SignalTo, Signal, Custodians

LEMMA FreshType ==
  ASSUME TypeOK, NEW n \in Nodes, NEW c \in Custodians, Fresh(n, c)
  PROVE  /\ copy' \in [Nodes -> {"absent", "plain", "custody"}]
         /\ custodian' \in [Nodes -> Custodians] /\ accepting' \subseteq Nodes
         /\ list' \in {Nothing, ThePending} \cup {Kept(d) : d \in Custodians}
         /\ cache' \in BOOLEAN
         /\ signals' \subseteq [from : Nodes, to : Nodes]
<1>1. CASE ~over /\ n \notin Accepts
  BY <1>1, SettleType DEF Fresh, TypeOK
<1>2. CASE over \/ n \in Accepts
  BY <1>2, SignalToType DEF Fresh, TypeOK
<1> QED BY <1>1, <1>2

LEMMA WithoutType ==
  ASSUME TypeOK, NEW n \in Nodes, Without(n)
  PROVE  /\ copy' \in [Nodes -> {"absent", "plain", "custody"}]
         /\ custodian' \in [Nodes -> Custodians]
         /\ sent' \in [Nodes -> SUBSET Nodes] /\ timers' \in [Nodes -> SUBSET Nodes]
BY DEF Without, TypeOK, Custodians

\* Every action keeps the types.
LEMMA TypeInvariant == TypeOK /\ [Next]_vars => TypeOK'
<1> SUFFICES ASSUME TypeOK, [Next]_vars PROVE TypeOK'
  OBVIOUS
<1> USE DEF bundle, log, delivery, wires, inputs
<1>1. ASSUME Create PROVE TypeOK'
  <2>1. Fresh(Src, None)
    BY <1>1 DEF Create
  <2>2. /\ copy' \in [Nodes -> {"absent", "plain", "custody"}]
        /\ custodian' \in [Nodes -> Custodians] /\ accepting' \subseteq Nodes
        /\ list' \in {Nothing, ThePending} \cup {Kept(d) : d \in Custodians}
        /\ cache' \in BOOLEAN
        /\ signals' \subseteq [from : Nodes, to : Nodes]
    BY <2>1, FreshType DEF Custodians
  <2> QED BY <1>1, <2>2 DEF Create, TypeOK
<1>2. ASSUME Take PROVE TypeOK'
  <2>1. CASE list.pending
    BY <1>2, <2>1, WithoutType DEF Take, TypeOK
  <2>2. CASE ~list.pending
    <3>1. list.custodian \in Custodians
      BY <1>2, <2>2 DEF Take, TypeOK, Nothing, ThePending, Kept
    <3>2. SignalTo(Dst, list.custodian) \subseteq [from : Nodes, to : Nodes]
      BY <3>1, SignalToType
    <3> QED BY <1>2, <2>2, <3>2 DEF Take, TypeOK
  <2> QED BY <2>1, <2>2
<1>3. ASSUME LifetimeEnds PROVE TypeOK'
  BY <1>3 DEF LifetimeEnds, TypeOK
<1>4. ASSUME Lose PROVE TypeOK'
  BY <1>4 DEF Lose, TypeOK
<1>5. ASSUME NEW n \in Nodes, AcceptCustody(n) PROVE TypeOK'
  <2>1. /\ copy' \in [Nodes -> {"absent", "plain", "custody"}]
        /\ custodian' \in [Nodes -> Custodians]
        /\ list' \in {Nothing, ThePending} \cup {Kept(d) : d \in Custodians}
        /\ cache' \in BOOLEAN
    BY <1>5, SettleType DEF AcceptCustody, Custodians
  <2> QED BY <1>5, <2>1 DEF AcceptCustody, TypeOK
<1>6. ASSUME NEW n \in Nodes, Expire(n) PROVE TypeOK'
  BY <1>6, WithoutType DEF Expire, TypeOK, Custodians
<1>7. ASSUME NEW n \in Nodes, Crash(n) PROVE TypeOK'
  <2>1. /\ copy' \in [Nodes -> {"absent", "plain", "custody"}]
        /\ custodian' \in [Nodes -> Custodians]
        /\ list' \in {Nothing, ThePending} \cup {Kept(d) : d \in Custodians}
        /\ cache' \in BOOLEAN
    <3>1. CASE UNCHANGED <<copy, custodian>>
      BY <1>7, <3>1 DEF Crash, Reload, TypeOK
    <3>2. CASE /\ list' = Kept(custodian[n]) /\ cache' = TRUE
               /\ copy' = [copy EXCEPT ![n] = "absent"]
               /\ custodian' = [custodian EXCEPT ![n] = None]
      BY <3>2 DEF TypeOK, Custodians
    <3> QED BY <1>7, <3>1, <3>2 DEF Crash, Reload
  <2>2. /\ sent' \in [Nodes -> SUBSET Nodes] /\ timers' \in [Nodes -> SUBSET Nodes]
        /\ gap' \in BOOLEAN /\ crashes' \in 0..MaxCrashes /\ accepting' \subseteq Nodes
    BY <1>7 DEF Crash, TypeOK
  <2> QED BY <1>7, <2>1, <2>2 DEF Crash, TypeOK
<1>8. ASSUME NEW n \in Nodes, NEW c \in Custodians, Receive(n, c) PROVE TypeOK'
  <2>1. CASE Fresh(n, c)
    BY <1>8, <2>1, FreshType DEF Receive, TypeOK
  <2>2. CASE Suppress(n, c)
    BY <1>8, <2>2, SignalToType DEF Receive, Suppress, Redundant, TypeOK
  <2> QED BY <1>8, <2>1, <2>2 DEF Receive
<1>9. ASSUME NEW n \in Nodes, NEW h \in Nodes, Send(n, h) PROVE TypeOK'
  <2>1. net' \subseteq [to : Nodes, custodian : Custodians]
    BY <1>9 DEF Send, TypeOK, Message
  <2>2. CASE UNCHANGED <<copy, custodian, log>>
    BY <1>9, <2>1, <2>2 DEF Send, TypeOK
  <2>3. CASE Without(n)
    BY <1>9, <2>1, <2>3, WithoutType DEF Send, TypeOK
  <2>4. CASE /\ sent' = [sent EXCEPT ![n] = @ \cup {h}]
             /\ timers' = [timers EXCEPT ![n] = @ \cup {h}]
             /\ UNCHANGED <<copy, custodian>>
    BY <1>9, <2>1, <2>4 DEF Send, TypeOK
  <2> QED BY <1>9, <2>2, <2>3, <2>4 DEF Send
<1>10. ASSUME NEW n \in Nodes, NEW h \in Nodes, CustodyTimeout(n, h) PROVE TypeOK'
  BY <1>10 DEF CustodyTimeout, Forget, TypeOK
<1>11. ASSUME NEW n \in Nodes, NEW m \in Nodes, HandleSignal(n, m) PROVE TypeOK'
  <2>1. signals' \subseteq [from : Nodes, to : Nodes]
    BY <1>11 DEF HandleSignal, TypeOK
  <2>2. CASE UNCHANGED <<copy, custodian, log>>
    BY <1>11, <2>1, <2>2 DEF HandleSignal, TypeOK
  <2>3. CASE Without(n)
    BY <1>11, <2>1, <2>3, WithoutType DEF HandleSignal, TypeOK
  <2>4. CASE /\ copy' = [copy EXCEPT ![n] = "plain"]
             /\ custodian' = [custodian EXCEPT ![n] = None]
             /\ timers' = [timers EXCEPT ![n] = {}]
             /\ UNCHANGED sent
    BY <1>11, <2>1, <2>4 DEF HandleSignal, TypeOK, Custodians
  <2> QED BY <1>11, <2>2, <2>3, <2>4 DEF HandleSignal
<1>12. CASE UNCHANGED vars
  BY <1>12 DEF vars, TypeOK
<1> QED BY <1>1, <1>2, <1>3, <1>4, <1>5, <1>6, <1>7, <1>8, <1>9, <1>10, <1>11, <1>12 DEF Next

-----------------------------------------------------------------------------
(* Custody comes from farther away *)

\* A bundle from custodian c, and the signal that answers it.
LEMMA SignalDownhill ==
  ASSUME NEW n \in Nodes, NEW c \in Custodians, c # None => Rank[n] < Rank[c],
         NEW s \in SignalTo(n, c)
  PROVE  s.from = n /\ s.to = c /\ Rank[s.from] < Rank[s.to]
BY DEF SignalTo, Signal, Custodians

LEMMA KeptIs == \A c, d \in Custodians : Kept(c) = Kept(d) => c = d
<1> SUFFICES ASSUME NEW c \in Custodians, NEW d \in Custodians, Kept(c) = Kept(d)
             PROVE  c = d
  OBVIOUS
<1>1. Kept(c).custodian = c /\ Kept(d).custodian = d
  BY DEF Kept
<1> QED BY <1>1

LEMMA KeptIsNot ==
  \A c \in Custodians : Kept(c) # Nothing /\ Kept(c) # ThePending
<1> SUFFICES ASSUME NEW c \in Custodians PROVE Kept(c) # Nothing /\ Kept(c) # ThePending
  OBVIOUS
<1>1. Kept(c).held = TRUE /\ Kept(c).pending = FALSE
  BY DEF Kept
<1>2. Nothing.held = FALSE /\ ThePending.pending = TRUE
  BY DEF Nothing, ThePending
<1> QED BY <1>1, <1>2

\* The parts of Downhill that Settle touches.
CopiesDownhill ==
    /\ \A n \in Nodes : copy[n] = "custody" => custodian[n] = n
    /\ \A n \in Nodes : copy[n] = "plain" /\ custodian[n] # None
                            => Rank[n] < Rank[custodian[n]]
ListDownhill == \A c \in Nodes : list = Kept(c) => Rank[Dst] < Rank[c]
NetDownhill == \A m \in net : m.custodian # None => Rank[m.to] < Rank[m.custodian]
SignalsDownhill == \A s \in signals : Rank[s.from] < Rank[s.to]

LEMMA DownhillParts ==
  Downhill <=> CopiesDownhill /\ ListDownhill /\ NetDownhill /\ SignalsDownhill
BY DEF Downhill, CopiesDownhill, ListDownhill, NetDownhill, SignalsDownhill

LEMMA SettleDownhill ==
  ASSUME TypeOK, CopiesDownhill, ListDownhill, NEW n \in Nodes, NEW c \in Custodians,
         NEW status \in {"plain", "custody"}, Settle(n, status, c),
         status = "custody" => c = n,
         status = "plain" /\ c # None => Rank[n] < Rank[c]
  PROVE  CopiesDownhill' /\ ListDownhill'
<1>1. CASE /\ n = Dst /\ status = "plain" /\ list' = Kept(c)
           /\ UNCHANGED copy /\ UNCHANGED custodian
  <2>1. ListDownhill'
    BY <1>1, KeptIs DEF ListDownhill, Custodians
  <2> QED BY <1>1, <2>1 DEF CopiesDownhill
<1>2. CASE /\ list' = ThePending \/ UNCHANGED list
           /\ copy' = [copy EXCEPT ![n] = status]
           /\ custodian' = [custodian EXCEPT ![n] = c]
  <2>1. ListDownhill'
    BY <1>2, KeptIsNot DEF ListDownhill, Custodians
  <2>2. CopiesDownhill'
    BY <1>2 DEF CopiesDownhill, TypeOK
  <2> QED BY <2>1, <2>2
<1> QED BY <1>1, <1>2 DEF Settle

LEMMA FreshDownhill ==
  ASSUME TypeOK, AcceptingPlain, Downhill, NEW n \in Nodes, NEW c \in Custodians,
         Fresh(n, c), c # None => Rank[n] < Rank[c]
  PROVE  AcceptingPlain' /\ CopiesDownhill' /\ ListDownhill' /\ SignalsDownhill'
<1> USE DownhillParts
<1>0. n \notin accepting
  BY DEF Fresh, AcceptingPlain
<1>1. CASE /\ copy' = [copy EXCEPT ![n] = "plain"]
           /\ custodian' = [custodian EXCEPT ![n] = c]
           /\ accepting' \subseteq accepting \cup {n}
           /\ signals' \subseteq signals \cup SignalTo(n, c)
           /\ UNCHANGED <<list, cache>>
  <2>1. AcceptingPlain'
    BY <1>1 DEF AcceptingPlain, TypeOK
  <2>2. CopiesDownhill'
    BY <1>1 DEF CopiesDownhill, TypeOK
  <2>3. SignalsDownhill'
    BY <1>1, SignalDownhill DEF SignalsDownhill
  <2> QED BY <1>1, <2>1, <2>2, <2>3 DEF ListDownhill
<1>2. CASE Settle(n, "plain", c) /\ UNCHANGED <<accepting, signals>>
  <2>1. CopiesDownhill' /\ ListDownhill'
    BY <1>2, SettleDownhill
  <2>2. AcceptingPlain'
    BY <1>0, <1>2 DEF AcceptingPlain, Settle, TypeOK
  <2> QED BY <1>2, <2>1, <2>2 DEF SignalsDownhill
<1> QED BY <1>1, <1>2 DEF Fresh

LEMMA WithoutDownhill ==
  ASSUME TypeOK, CopiesDownhill, NEW n \in Nodes, Without(n)
  PROVE  CopiesDownhill'
BY DEF CopiesDownhill, Without, TypeOK

\* Every action keeps both.
LEMMA DownhillInvariant ==
  TypeOK /\ AcceptingPlain /\ Downhill /\ [Next]_vars => AcceptingPlain' /\ Downhill'
<1> SUFFICES ASSUME TypeOK, AcceptingPlain, Downhill, [Next]_vars
             PROVE  AcceptingPlain' /\ Downhill'
  OBVIOUS
<1> USE DownhillParts DEF bundle, log, delivery, wires, inputs
<1>0. (CopiesDownhill /\ ListDownhill /\ NetDownhill /\ SignalsDownhill)' => Downhill'
  BY DEF Downhill, CopiesDownhill, ListDownhill, NetDownhill, SignalsDownhill
<1>1. ASSUME Create PROVE AcceptingPlain' /\ Downhill'
  <2>1. AcceptingPlain' /\ CopiesDownhill' /\ ListDownhill' /\ SignalsDownhill'
    BY <1>1, FreshDownhill DEF Create, Custodians
  <2> QED BY <1>0, <1>1, <2>1 DEF Create, NetDownhill
<1>2. ASSUME Take PROVE AcceptingPlain' /\ Downhill'
  <2>1. AcceptingPlain' /\ CopiesDownhill'
    BY <1>2, WithoutDownhill DEF Take, Without, AcceptingPlain, CopiesDownhill, TypeOK
  <2>2. ListDownhill'
    BY <1>2, KeptIsNot DEF Take, ListDownhill, Custodians
  <2>3. SignalsDownhill'
    <3>1. CASE list.pending
      BY <1>2, <3>1 DEF Take, SignalsDownhill
    <3>2. CASE ~list.pending
      <4>1. PICK c \in Custodians : list = Kept(c)
        BY <1>2, <3>2 DEF Take, TypeOK, Nothing, ThePending
      <4>2. list.custodian = c
        BY <4>1 DEF Kept
      <4>3. c # None => Rank[Dst] < Rank[c]
        BY <4>1 DEF ListDownhill, Custodians
      <4> QED BY <1>2, <3>2, <4>2, <4>3, SignalDownhill DEF Take, SignalsDownhill
    <3> QED BY <3>1, <3>2
  <2> QED BY <1>0, <1>2, <2>1, <2>2, <2>3 DEF Take, NetDownhill
<1>3. ASSUME LifetimeEnds PROVE AcceptingPlain' /\ Downhill'
  BY <1>0, <1>3 DEF LifetimeEnds, AcceptingPlain, CopiesDownhill, ListDownhill,
                    NetDownhill, SignalsDownhill
<1>4. ASSUME Lose PROVE AcceptingPlain' /\ Downhill'
  BY <1>0, <1>4 DEF Lose, AcceptingPlain, CopiesDownhill, ListDownhill,
                    NetDownhill, SignalsDownhill
<1>5. ASSUME NEW n \in Nodes, AcceptCustody(n) PROVE AcceptingPlain' /\ Downhill'
  <2>1. CopiesDownhill' /\ ListDownhill'
    BY <1>5, SettleDownhill DEF AcceptCustody, Custodians
  <2>2. AcceptingPlain'
    BY <1>5 DEF AcceptCustody, Settle, AcceptingPlain, TypeOK
  <2> QED BY <1>0, <1>5, <2>1, <2>2 DEF AcceptCustody, NetDownhill, SignalsDownhill
<1>6. ASSUME NEW n \in Nodes, Expire(n) PROVE AcceptingPlain' /\ Downhill'
  <2>1. AcceptingPlain' /\ CopiesDownhill'
    BY <1>6, WithoutDownhill DEF Expire, Without, AcceptingPlain, TypeOK
  <2>2. ListDownhill'
    <3>1. ASSUME NEW c \in Nodes PROVE Kept(c) # Kept(None)
      BY KeptIs DEF Custodians
    <3> QED BY <1>6, <3>1 DEF Expire, ListDownhill
  <2> QED BY <1>0, <1>6, <2>1, <2>2 DEF Expire, NetDownhill, SignalsDownhill
<1>7. ASSUME NEW n \in Nodes, Crash(n) PROVE AcceptingPlain' /\ Downhill'
  <2>1. AcceptingPlain' /\ CopiesDownhill'
    BY <1>7 DEF Crash, Reload, AcceptingPlain, CopiesDownhill, TypeOK
  <2>2. ListDownhill'
    BY <1>7, KeptIs, KeptIsNot DEF Crash, Reload, ListDownhill, CopiesDownhill, Custodians, TypeOK
  <2> QED BY <1>0, <1>7, <2>1, <2>2 DEF Crash, NetDownhill, SignalsDownhill
<1>8. ASSUME NEW n \in Nodes, NEW c \in Custodians, Receive(n, c)
      PROVE  AcceptingPlain' /\ Downhill'
  <2>1. c # None => Rank[n] < Rank[c]
    BY <1>8 DEF Receive, Message, NetDownhill
  <2>2. CASE Fresh(n, c)
    <3>1. AcceptingPlain' /\ CopiesDownhill' /\ ListDownhill' /\ SignalsDownhill'
      BY <2>1, <2>2, FreshDownhill
    <3> QED BY <1>0, <1>8, <3>1 DEF Receive, NetDownhill
  <2>3. CASE Suppress(n, c)
    <3>1. SignalsDownhill'
      BY <2>1, <2>3, SignalDownhill DEF Suppress, Redundant, SignalsDownhill
    <3> QED BY <1>0, <1>8, <2>3, <3>1
            DEF Receive, Suppress, AcceptingPlain, CopiesDownhill, ListDownhill, NetDownhill
  <2> QED BY <1>8, <2>2, <2>3 DEF Receive
<1>9. ASSUME NEW n \in Nodes, NEW h \in Nodes, Send(n, h) PROVE AcceptingPlain' /\ Downhill'
  <2>1. AcceptingPlain' /\ CopiesDownhill'
    BY <1>9, WithoutDownhill DEF Send, Without, AcceptingPlain, CopiesDownhill, TypeOK
  <2>2. NetDownhill'
    <3>1. copy[n] \in {"plain", "custody"} /\ custodian[n] \in Custodians
      BY <1>9 DEF Send, TypeOK
    <3>2. Rank[h] < Rank[n]
      BY <1>9 DEF Send
    <3>3. custodian[n] # None => Rank[n] <= Rank[custodian[n]]
      BY <3>1 DEF CopiesDownhill, Custodians
    <3>4. custodian[n] # None => Rank[h] < Rank[custodian[n]]
      BY <3>1, <3>2, <3>3 DEF Custodians
    <3> QED BY <1>9, <3>4 DEF Send, NetDownhill, Message
  <2> QED BY <1>0, <1>9, <2>1, <2>2 DEF Send, ListDownhill, SignalsDownhill
<1>10. ASSUME NEW n \in Nodes, NEW h \in Nodes, CustodyTimeout(n, h)
       PROVE  AcceptingPlain' /\ Downhill'
  BY <1>0, <1>10 DEF CustodyTimeout, AcceptingPlain, CopiesDownhill, ListDownhill,
                     NetDownhill, SignalsDownhill
<1>11. ASSUME NEW n \in Nodes, NEW m \in Nodes, HandleSignal(n, m)
       PROVE  AcceptingPlain' /\ Downhill'
  <2>1. AcceptingPlain' /\ CopiesDownhill'
    BY <1>11 DEF HandleSignal, Without, AcceptingPlain, CopiesDownhill, TypeOK
  <2> QED BY <1>0, <1>11, <2>1 DEF HandleSignal, ListDownhill, NetDownhill, SignalsDownhill
<1>12. CASE UNCHANGED vars
  BY <1>0, <1>12 DEF vars, AcceptingPlain, CopiesDownhill, ListDownhill, NetDownhill,
                     SignalsDownhill
<1> QED BY <1>1, <1>2, <1>3, <1>4, <1>5, <1>6, <1>7, <1>8, <1>9, <1>10, <1>11, <1>12 DEF Next

-----------------------------------------------------------------------------
(* Somebody has custody *)

\* Once the promise has ended there is nothing to show.
LEMMA WhenResolved ==
  ASSUME Resolved' PROVE SignalsCovered' /\ SomeoneHasCustody'
BY DEF Resolved, SignalsCovered, Covered, SomeoneHasCustody

\* Nobody gives custody up, and a new signal comes from somebody who has it.
LEMMA WhenHeld ==
  ASSUME TypeOK', SignalsCovered, SomeoneHasCustody, Resolved => Resolved',
         \A k \in Nodes : Holds(k) => Holds(k)',
         accepted' => accepted \/ \E k \in Nodes : Holds(k)',
         \A s \in signals' : s \in signals \/ Holds(s.from)'
  PROVE  SignalsCovered' /\ SomeoneHasCustody'
<1>1. SomeoneHasCustody'
  BY DEF SomeoneHasCustody, Resolved
<1>2. ASSUME NEW s \in signals' PROVE Covered(s.from)'
  <2>1. CASE s \in signals
    BY <2>1 DEF SignalsCovered, Covered
  <2>2. CASE Holds(s.from)'
    <3>1. s.from \in Nodes /\ Rank[s.from] <= Rank[s.from]
      BY <1>2 DEF TypeOK
    <3> QED BY <2>2, <3>1 DEF Covered
  <2> QED BY <1>2, <2>1, <2>2
<1> QED BY <1>1, <1>2 DEF SignalsCovered

\* A daemon that loses no custody in the step, and sends no signal of its own.
LEMMA WhenQuiet ==
  ASSUME TypeOK', SignalsCovered, SomeoneHasCustody, Resolved => Resolved',
         signals' \subseteq signals, UNCHANGED accepted,
         \A k \in Nodes : Holds(k) => Holds(k)'
  PROVE  SignalsCovered' /\ SomeoneHasCustody'
BY WhenHeld

LEMMA CustodyInvariant == IInv /\ TypeOK' /\ [Next]_vars => SignalsCovered' /\ SomeoneHasCustody'
<1> SUFFICES ASSUME IInv, TypeOK', [Next]_vars PROVE SignalsCovered' /\ SomeoneHasCustody'
  OBVIOUS
<1> USE DEF IInv, bundle, log, delivery, wires, inputs
\* A fresh bundle: what its node had is nothing, and a signal means acceptance.
<1>0. ASSUME NEW n \in Nodes, NEW c \in Custodians, Fresh(n, c),
             UNCHANGED <<over, taken, gap, accepted>>
      PROVE  SignalsCovered' /\ SomeoneHasCustody'
  <2>1. ASSUME NEW k \in Nodes, Holds(k) PROVE Holds(k)'
    <3>1. k # n
      BY <1>0, <2>1 DEF Holds, Fresh, AcceptingPlain
    <3> QED BY <1>0, <2>1, <3>1 DEF Holds, Fresh, Settle, TypeOK
  <2>2. ASSUME NEW s \in signals', s \notin signals PROVE Holds(s.from)'
    <3>1. /\ s \in SignalTo(n, c) /\ n \in accepting' /\ custodian'[n] = c
      BY <1>0, <2>2 DEF Fresh, TypeOK
    <3>2. s.from = n /\ c # None
      BY <3>1 DEF SignalTo, Signal
    <3> QED BY <3>1, <3>2 DEF Holds
  <2> QED BY <1>0, <2>1, <2>2, WhenHeld DEF Resolved
<1>1. CASE Create
  BY <1>0, <1>1 DEF Create, Custodians
<1>2. CASE Take
  BY <1>2, WhenResolved DEF Take, Resolved
<1>3. CASE LifetimeEnds
  BY <1>3, WhenResolved DEF LifetimeEnds, Resolved
<1>4. CASE Lose
  BY <1>4, WhenQuiet DEF Lose, Holds, Resolved
<1>5. ASSUME NEW n \in Nodes, AcceptCustody(n) PROVE SignalsCovered' /\ SomeoneHasCustody'
  <2>1. Holds(n)'
    BY <1>5 DEF AcceptCustody, Settle, Holds, TypeOK
  <2>2. ASSUME NEW k \in Nodes, Holds(k) PROVE Holds(k)'
    BY <1>5, <2>1, <2>2 DEF AcceptCustody, Settle, Holds, TypeOK
  <2> QED BY <1>5, <2>1, <2>2, WhenHeld DEF AcceptCustody, Resolved
<1>6. ASSUME NEW n \in Nodes, Expire(n) PROVE SignalsCovered' /\ SomeoneHasCustody'
  BY <1>6, WhenResolved DEF Expire, Resolved
<1>7. ASSUME NEW n \in Nodes, Crash(n) PROVE SignalsCovered' /\ SomeoneHasCustody'
  <2>1. CASE n \in accepting /\ custodian[n] # None
    BY <1>7, <2>1, WhenResolved DEF Crash, Resolved
  <2>2. CASE ~(n \in accepting /\ custodian[n] # None)
    <3>1. ASSUME NEW k \in Nodes, Holds(k) PROVE Holds(k)'
      BY <1>7, <2>2, <3>1 DEF Crash, Reload, Holds, TypeOK
    <3> QED BY <1>7, <3>1, WhenQuiet DEF Crash, Resolved
  <2> QED BY <2>1, <2>2
<1>8. ASSUME NEW n \in Nodes, NEW c \in Custodians, Receive(n, c)
      PROVE  SignalsCovered' /\ SomeoneHasCustody'
  <2>1. CASE Fresh(n, c)
    BY <1>0, <1>8, <2>1 DEF Receive
  <2>2. CASE Suppress(n, c)
    <3>1. ASSUME NEW k \in Nodes, Holds(k) PROVE Holds(k)'
      BY <2>2, <3>1 DEF Suppress, Holds
    <3>2. ASSUME NEW s \in signals', s \notin signals PROVE Holds(s.from)'
      BY <2>2, <3>2 DEF Suppress, Redundant, SignalTo, Signal, Holds
    <3> QED BY <1>8, <3>1, <3>2, WhenHeld DEF Receive, Resolved
  <2> QED BY <1>8, <2>1, <2>2 DEF Receive
<1>9. ASSUME NEW n \in Nodes, NEW h \in Nodes, Send(n, h)
      PROVE  SignalsCovered' /\ SomeoneHasCustody'
  <2>1. ASSUME NEW k \in Nodes, Holds(k) PROVE Holds(k)'
    BY <1>9, <2>1 DEF Send, Without, Holds, TypeOK
  <2> QED BY <1>9, <2>1, WhenQuiet DEF Send, Resolved
<1>10. ASSUME NEW n \in Nodes, NEW h \in Nodes, CustodyTimeout(n, h)
       PROVE  SignalsCovered' /\ SomeoneHasCustody'
  BY <1>10, WhenQuiet DEF CustodyTimeout, Holds, Resolved
\* n gives custody up; who covers the signal of m is nearer than n, and covers
\* what n has covered.
<1>11. ASSUME NEW n \in Nodes, NEW m \in Nodes, HandleSignal(n, m)
       PROVE  SignalsCovered' /\ SomeoneHasCustody'
  <2>1. CASE Resolved
    BY <1>11, <2>1, WhenResolved DEF HandleSignal, Resolved
  <2>2. CASE ~Resolved
    <3>1. Signal(m, n) \in signals /\ Signal(m, n).from = m /\ Signal(m, n).to = n
      BY <1>11 DEF HandleSignal, Signal
    <3>2. PICK k \in Nodes : Holds(k) /\ Rank[k] <= Rank[m]
      BY <2>2, <3>1 DEF SignalsCovered, Covered
    <3>3. Rank[k] < Rank[n]
      BY <3>1, <3>2 DEF Downhill
    <3>4. ASSUME NEW j \in Nodes, j # n, Holds(j) PROVE Holds(j)'
      BY <1>11, <3>4 DEF HandleSignal, Without, Holds, TypeOK
    <3>5. Holds(k)'
      BY <3>2, <3>3, <3>4
    <3>6. SomeoneHasCustody'
      BY <3>5 DEF SomeoneHasCustody
    <3>7. ASSUME NEW s \in signals' PROVE Covered(s.from)'
      <4>1. s \in signals /\ s.from \in Nodes
        BY <1>11, <3>7 DEF HandleSignal, TypeOK
      <4>2. PICK j \in Nodes : Holds(j) /\ Rank[j] <= Rank[s.from]
        BY <2>2, <4>1 DEF SignalsCovered, Covered
      <4>3. CASE j = n
        BY <3>3, <3>5, <4>1, <4>2, <4>3 DEF Covered
      <4>4. CASE j # n
        BY <3>4, <4>2, <4>4 DEF Covered
      <4> QED BY <4>3, <4>4
    <3> QED BY <3>6, <3>7 DEF SignalsCovered
  <2> QED BY <2>1, <2>2
<1>12. CASE UNCHANGED vars
  BY <1>12, WhenQuiet DEF vars, Holds, Resolved
<1> QED BY <1>1, <1>2, <1>3, <1>4, <1>5, <1>6, <1>7, <1>8, <1>9, <1>10, <1>11, <1>12 DEF Next

-----------------------------------------------------------------------------
\* Custody is never dropped (BundleDaemon.cc, accept_custody to
\* handle_custody_signal): for any nodes, routes without a loop, and any losses,
\* repetitions, orders and restarts, once custody has been accepted some node
\* has it, until the bundle is delivered or expires, or a daemon stops within
\* accept_custody.
THEOREM CustodyIsNotDropped == Spec => []SomeoneHasCustody
<1>1. Init => IInv
  BY InitIInv
<1>2. IInv /\ [Next]_vars => IInv'
  <2> SUFFICES ASSUME IInv, [Next]_vars PROVE IInv'
    OBVIOUS
  <2>1. TypeOK'
    BY TypeInvariant DEF IInv
  <2>2. AcceptingPlain' /\ Downhill'
    BY DownhillInvariant DEF IInv
  <2>3. SignalsCovered' /\ SomeoneHasCustody'
    BY <2>1, CustodyInvariant
  <2> QED BY <2>1, <2>2, <2>3 DEF IInv
<1>3. IInv => SomeoneHasCustody
  BY DEF IInv
<1> QED BY <1>1, <1>2, <1>3, PTL DEF Spec
=============================================================================
