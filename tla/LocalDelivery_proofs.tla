------------------------ MODULE LocalDelivery_proofs ------------------------
(***************************************************************************)
(* Registrations and bundles that come in any order, applications that     *)
(* take what is theirs, restarts: nothing is missed, nothing is given up   *)
(* before somebody has it.                                                 *)
(***************************************************************************)
EXTENDS LocalDelivery, SequenceLemmas

\* Events that are never queued twice: what the daemon is told of once in each
\* of its lives, and what a client waits for.
Firsts == {e \in Events : e.type \in {"received", "reg_added", "reg_removed"}}

\* A queue names an event of that set once.
OnceIn(q, S) == \A i, j \in 1..Len(q) : q[i] \in S /\ q[i] = q[j] => i = j

\* A bundle that is received is new to the daemon.
ReceivedIsNew ==
    /\ ToSet(pending) \subseteq store /\ store \subseteq arrived
    /\ \A e \in ToSet(eventq) :
          e.type = "received" => e.source = "new" /\ e.bundle \in arrived \ store
    /\ \A e \in ToSet(loading) :
          e.type = "received" => /\ e.source = "store" /\ e.bundle \in store \ ToSet(pending)
                                 /\ \A r \in Regs : e.bundle \notin delivered[r]

\* A registration that is added is new to the table; one that is to be deleted
\* has left it, and will not come back.
AddedIsNew ==
    /\ ToSet(reglist) \subseteq regstore /\ regstore \subseteq made
    /\ \A e \in ToSet(eventq) :
          e.type \in {"reg_added", "reg_delete"} => e.reg \in made \ regstore
    /\ \A e, f \in ToSet(eventq) :
          e.type = "reg_added" /\ f.type \in {"reg_added", "reg_delete"} /\ e.reg = f.reg => e = f
    /\ \A e \in ToSet(loading) :
          e.type = "reg_added" => e.client = None /\ e.reg \in regstore \ ToSet(reglist)

\* The events of a restarted daemon: those of the registrations that are not
\* in the table yet, then those of the bundles.
Restarting ==
    /\ \A r \in regstore : r \in ToSet(reglist) \/ RegEvent("reg_added", r, None) \in ToSet(loading)
    /\ \A i, j \in 1..Len(loading) :
          i < j /\ loading[i].type = "received" => loading[j].type = "received"
    /\ \A e \in ToSet(loading) : e.type \in {"received", "reg_added"}

\* The events that somebody waits for: of each client one, and it waits.
Awaited == {"reg_added", "reg_removed"}
WaitersWait ==
    /\ \A e \in ToSet(eventq) :
          e.type \in Awaited => e.client \in Clients /\ call[e.client].op = "wait"
    /\ \A e, f \in ToSet(eventq) :
          e.type \in Awaited /\ f.type \in Awaited /\ e.client = f.client => e = f

EachOnce == OnceIn(eventq, Firsts) /\ OnceIn(loading, Firsts)

Popped(r, b) == \E c \in Clients : call[c] = [op |-> "popped", reg |-> r, bundle |-> b]

\* Nothing holds a bundle that is about to leave the store, and nothing will.
FreeIsUnheld ==
    \A e \in ToSet(eventq) :
        e.type = "free" =>
            /\ e.bundle \in arrived \ ToSet(pending)
            /\ Received(e.bundle, "new") \notin ToSet(eventq)
            /\ Received(e.bundle, "store") \notin ToSet(loading)
            /\ \A r \in Regs : e.bundle \notin ToSet(lists[r]) /\ ~Popped(r, e.bundle)

TableInv ==
    /\ TypeOK /\ ReceivedIsNew /\ AddedIsNew /\ Restarting /\ EachOnce /\ FreeIsUnheld
    /\ WaitersWait

\* What is pending was delivered to every registration that it is for.
IInv == TableInv /\ NoneMissed

\* Custody goes with what an application took, or with the lifetime.
EndsAreMeant ==
    \A e \in ToSet(eventq) : /\ e.type = "delivered" => e.bundle \in taken
                             /\ e.type = "bundle_expired" => e.bundle \in over

\* A custodial bundle that nobody took stays pending, so that its last reference
\* does not go, and its custody is not released.
InCustody(b) ==
    /\ b \in store => /\ b \in custody
                      /\ b \in ToSet(pending) \/ Received(b, "store") \in ToSet(loading)
    /\ \A p \in owed : p[2] = b => b \in store
CustodyHeld == \A b \in Custodial \ (over \cup taken \cup gap) : InCustody(b)

\* Where a bundle is that a registration was given.
OwedIsSomewhere ==
    \A p \in owed :
        LET r == p[1]  b == p[2]
        IN  /\ r \in regstore /\ r \in Matches[b]
            /\ \/ p \in failed
               \/ b \in over
               \/ /\ b \in store
                  /\ \/ Received(b, "store") \in ToSet(loading)
                     \/ b \in ToSet(lists[r])
                     \/ Popped(r, b)

-----------------------------------------------------------------------------
(* Queues and events.                                                      *)

LEMMA OnceTail ==
    ASSUME NEW T, NEW q \in Seq(T), q # <<>>, NEW S, OnceIn(q, S)
    PROVE  /\ OnceIn(Tail(q), S)
           /\ Head(q) \in S => Head(q) \notin ToSet(Tail(q))
<1>1. /\ Len(Tail(q)) = Len(q) - 1 /\ Len(q) \in Nat /\ Len(q) >= 1
      /\ \A i \in 1..Len(Tail(q)) : Tail(q)[i] = q[i + 1]
      /\ Head(q) = q[1] /\ Tail(q) \in Seq(T)
  OBVIOUS
<1>2. \A i \in 1..Len(Tail(q)) : i + 1 \in 1..Len(q) /\ i + 1 # 1
  BY <1>1
<1>3. 1 \in 1..Len(q)
  BY <1>1
<1>4. OnceIn(Tail(q), S)
  BY <1>1, <1>2 DEF OnceIn
<1>5. ASSUME Head(q) \in S, Head(q) \in ToSet(Tail(q)) PROVE FALSE
  <2>1. PICK i \in 1..Len(Tail(q)) : Tail(q)[i] = Head(q)
    BY <1>1, <1>5, ElementsOf
  <2> QED
    BY <1>1, <1>2, <1>3, <1>5, <2>1 DEF OnceIn
<1> QED
  BY <1>4, <1>5

LEMMA OnceConcat ==
    ASSUME NEW T, NEW q \in Seq(T), NEW t \in Seq(T), NEW S, OnceIn(q, S),
           ToSet(t) \cap S = {}
    PROVE  OnceIn(q \o t, S)
<1>1. /\ Len(q) \in Nat /\ Len(t) \in Nat /\ Len(q \o t) = Len(q) + Len(t)
      /\ \A i \in 1..Len(q \o t) :
            (q \o t)[i] = IF i <= Len(q) THEN q[i] ELSE t[i - Len(q)]
  OBVIOUS
<1>2. \A i \in 1..Len(q \o t) : ~ i <= Len(q) => (q \o t)[i] \notin S
  BY <1>1, ElementsOf
<1>3. \A i \in 1..Len(q \o t) : i <= Len(q) => i \in 1..Len(q) /\ (q \o t)[i] = q[i]
  BY <1>1
<1> QED
  BY <1>1, <1>2, <1>3 DEF OnceIn

LEMMA OnceAppend ==
    ASSUME NEW T, NEW q \in Seq(T), NEW e \in T, NEW S, OnceIn(q, S),
           e \in S => e \notin ToSet(q)
    PROVE  OnceIn(Append(q, e), S)
<1>1. /\ Len(q) \in Nat /\ Len(Append(q, e)) = Len(q) + 1
      /\ \A i \in 1..Len(q) : Append(q, e)[i] = q[i]
      /\ Append(q, e)[Len(q) + 1] = e
  OBVIOUS
<1>2. \A i \in 1..(Len(q) + 1) : i \in 1..Len(q) \/ i = Len(q) + 1
  BY <1>1
<1>3. \A i \in 1..Len(q) : q[i] \in S => q[i] # e
  BY ElementsOf
<1> QED
  BY <1>1, <1>2, <1>3 DEF OnceIn

LEMMA OncePrefix ==
    ASSUME NEW T, NEW q \in Seq(T), NEW t \in Seq(T), NEW S, OnceIn(q, S),
           ToSet(t) \cap S = {}
    PROVE  OnceIn(t \o q, S)
<1>1. /\ Len(q) \in Nat /\ Len(t) \in Nat /\ Len(t \o q) = Len(t) + Len(q)
      /\ \A i \in 1..Len(t \o q) :
            (t \o q)[i] = IF i <= Len(t) THEN t[i] ELSE q[i - Len(t)]
  OBVIOUS
<1>2. \A i \in 1..Len(t \o q) : i <= Len(t) => (t \o q)[i] \notin S
  BY <1>1, ElementsOf
<1>3. \A i \in 1..Len(t \o q) :
         ~ i <= Len(t) => i - Len(t) \in 1..Len(q) /\ (t \o q)[i] = q[i - Len(t)]
  BY <1>1
<1> QED
  BY <1>1, <1>2, <1>3 DEF OnceIn

LEMMA OnceEmpty == \A S : OnceIn(<<>>, S)
BY DEF OnceIn

LEMMA EventTypes ==
    /\ \A b \in Bundles : /\ Received(b, "new") \in Events /\ Received(b, "store") \in Events
                          /\ BundleEvent("free", b) \in Events
                          /\ BundleEvent("bundle_expired", b) \in Events
                          /\ \A r \in Regs : Delivered(b, r) \in Events
    /\ \A r \in Regs : /\ RegEvent("reg_expired", r, None) \in Events
                       /\ RegEvent("reg_delete", r, None) \in Events
                       /\ \A c \in Clients \cup {None} :
                              /\ RegEvent("reg_added", r, c) \in Events
                              /\ RegEvent("reg_removed", r, c) \in Events
BY DEF Events, Received, Delivered, BundleEvent, RegEvent

LEMMA EventFields ==
    ASSUME NEW e \in Events
    PROVE  /\ e.type \in {"received", "delivered", "bundle_expired", "free", "reg_added",
                          "reg_removed", "reg_expired", "reg_delete"}
           /\ e.type \in {"received", "delivered", "bundle_expired", "free"} =>
                 e.bundle \in Bundles /\ "bundle" \in DOMAIN e
           /\ e.type = "received" => /\ e.source \in {"new", "store"}
                                     /\ e = Received(e.bundle, e.source)
           /\ e.type = "free" => e = BundleEvent("free", e.bundle)
           /\ e.type \in {"delivered", "reg_added", "reg_removed", "reg_expired", "reg_delete"}
                 => e.reg \in Regs
           /\ e.type \in {"reg_added", "reg_removed", "reg_expired", "reg_delete"} =>
                 /\ e = RegEvent(e.type, e.reg, e.client)
                 /\ e.client \in Clients \cup {None} /\ "bundle" \notin DOMAIN e
BY DEF Events, Received, BundleEvent, RegEvent

\* The event that the daemon handles, and what is left of the queues.
LEMMA CurrentEvent ==
    ASSUME TypeOK, EachOnce, NEW type, Current(type)
    PROVE  /\ Event \in Events /\ Event.type = type
           /\ Rest \in Seq(Events) /\ loading' \in Seq(Events)
           /\ ToSet(Rest) \subseteq ToSet(eventq) /\ ToSet(loading') \subseteq ToSet(loading)
           /\ OnceIn(Rest, Firsts) /\ OnceIn(loading', Firsts)
           /\ Event \in Firsts => Event \notin ToSet(Rest) \cap ToSet(loading')
           /\ \/ /\ loading = <<>> /\ loading' = <<>>
                 /\ ToSet(eventq) = {Event} \cup ToSet(Rest)
                 /\ Event \in Firsts => Event \notin ToSet(Rest)
              \/ /\ loading # <<>> /\ loading' = Tail(loading)
                 /\ Rest = eventq
                 /\ Event = Head(loading)
                 /\ ToSet(loading) = {Event} \cup ToSet(loading')
                 /\ Event \in Firsts => Event \notin ToSet(loading')
<1>1. eventq \in Seq(Events) /\ loading \in Seq(Events)
  BY DEF TypeOK
<1>2. ToSet(<<>>) = {} /\ <<>> \in Seq(Events)
  BY ElementsOfEmpty
<1>3. CASE loading = <<>>
  <2>1. /\ eventq # <<>> /\ Event = Head(eventq) /\ Rest = Tail(eventq) /\ loading' = <<>>
        /\ Event.type = type
    BY <1>3 DEF Current, Event, Rest
  <2>2. /\ Head(eventq) \in Events /\ Tail(eventq) \in Seq(Events)
        /\ ToSet(eventq) = {Head(eventq)} \cup ToSet(Tail(eventq))
    BY <1>1, <2>1, ElementsOfTail
  <2>3. /\ OnceIn(Tail(eventq), Firsts)
        /\ Head(eventq) \in Firsts => Head(eventq) \notin ToSet(Tail(eventq))
    BY <1>1, <2>1, OnceTail DEF EachOnce
  <2> QED
    BY <1>2, <1>3, <2>1, <2>2, <2>3, OnceEmpty
<1>4. CASE loading # <<>>
  <2>1. /\ Event = Head(loading) /\ Rest = eventq /\ loading' = Tail(loading)
        /\ Event.type = type
    BY <1>4 DEF Current, Event, Rest
  <2>2. /\ Head(loading) \in Events /\ Tail(loading) \in Seq(Events)
        /\ ToSet(loading) = {Head(loading)} \cup ToSet(Tail(loading))
    BY <1>1, <1>4, ElementsOfTail
  <2>3. /\ OnceIn(Tail(loading), Firsts) /\ OnceIn(eventq, Firsts)
        /\ Head(loading) \in Firsts => Head(loading) \notin ToSet(Tail(loading))
    BY <1>1, <1>4, OnceTail DEF EachOnce
  <2> QED
    BY <1>1, <1>4, <2>1, <2>2, <2>3
<1> QED
  BY <1>3, <1>4

BundlesHeld(q) == Held \cup BundlesOf(q) \cup BundlesOf(loading')

\* What a step of the daemon appends to its queue: the ends of the bundles that
\* nothing holds any more.
LEMMA PostFrees ==
    ASSUME NEW q \in Seq(Events), store' \subseteq Bundles, Post(q)
    PROVE  \E t \in Seq(Events) :
              /\ eventq' = q \o t
              /\ ToSet(t) = {BundleEvent("free", b) : b \in store' \ BundlesHeld(q)}
<1> DEFINE F == store' \ BundlesHeld(q)
           f == SetToSeq(F)
           t == [i \in DOMAIN f |-> BundleEvent("free", f[i])]
<1>1. IsFiniteSet(F)
  BY FS_Subset, BundlesAssumption
<1>2. f \in Seq(F) /\ ToSet(f) = F
  BY <1>1, ElementsOfSetToSeq
<1>3. eventq' = q \o t
  BY DEF Post, BundlesHeld
<1>4. F \subseteq Bundles
  OBVIOUS
<1> HIDE DEF F, f
<1>5. Len(f) \in Nat /\ DOMAIN f = 1..Len(f) /\ \A i \in 1..Len(f) : f[i] \in F
  BY <1>2
<1>6. t \in Seq(Events)
  BY <1>4, <1>5, EventTypes
<1>7. ToSet(t) = {BundleEvent("free", f[i]) : i \in DOMAIN f}
  BY DEF ToSet
<1>8. ToSet(t) = {BundleEvent("free", b) : b \in F}
  <2>1. F = {f[i] : i \in DOMAIN f}
    BY <1>2 DEF ToSet
  <2> HIDE DEF t
  <2> QED
    BY <1>7, <2>1
<1> QED
  BY <1>3, <1>6, <1>8 DEF F

LEMMA Posted ==
    ASSUME NEW q \in Seq(Events), store' \subseteq Bundles, Post(q)
    PROVE  /\ eventq' \in Seq(Events)
           /\ ToSet(eventq') =
                 ToSet(q) \cup {BundleEvent("free", b) : b \in store' \ BundlesHeld(q)}
           /\ OnceIn(q, Firsts) => OnceIn(eventq', Firsts)
<1>1. PICK t \in Seq(Events) :
          /\ eventq' = q \o t
          /\ ToSet(t) = {BundleEvent("free", b) : b \in store' \ BundlesHeld(q)}
  BY PostFrees
<1>2. eventq' \in Seq(Events) /\ ToSet(eventq') = ToSet(q) \cup ToSet(t)
  BY <1>1, ElementsOfConcat
<1>3. ToSet(t) \cap Firsts = {}
  BY <1>1 DEF Firsts, BundleEvent
<1>4. OnceIn(q, Firsts) => OnceIn(eventq', Firsts)
  BY <1>1, <1>3, OnceConcat
<1> QED
  BY <1>1, <1>2, <1>4

Pairs == Regs \X Bundles

\* What a delivery does to the list of a registration.
LEMMA OntoList ==
    ASSUME NEW pairs \in Seq(Pairs), NEW r \in Regs
    PROVE  /\ Onto(r, pairs) \in Seq(Bundles)
           /\ ToSet(Onto(r, pairs)) = {b \in Bundles : <<r, b>> \in ToSet(pairs) \cap Queued}
<1> DEFINE S == {p \in Queued : p[1] = r}
           mine == SelectIn(pairs, S)
<1>1. mine \in Seq(Pairs) /\ ToSet(mine) = ToSet(pairs) \cap S
  BY ElementsOfSelectIn
<1>2. Onto(r, pairs) = [i \in DOMAIN mine |-> mine[i][2]]
  BY DEF Onto
<1> HIDE DEF mine
<1>3. Len(mine) \in Nat /\ DOMAIN mine = 1..Len(mine) /\ \A i \in 1..Len(mine) : mine[i] \in Pairs
  BY <1>1
<1>4. Onto(r, pairs) \in Seq(Bundles)
  BY <1>2, <1>3 DEF Pairs
<1>5. ToSet(Onto(r, pairs)) = {mine[i][2] : i \in DOMAIN mine}
  BY <1>2 DEF ToSet
<1>6. ToSet(mine) = {mine[i] : i \in DOMAIN mine}
  BY DEF ToSet
<1>7. ToSet(Onto(r, pairs)) = {p[2] : p \in ToSet(mine)}
  BY <1>5, <1>6
<1>8. ToSet(mine) \subseteq Pairs
  BY <1>1, ElementsOf
<1> HIDE DEF S
<1>9. {p[2] : p \in ToSet(mine)} = {b \in Bundles : <<r, b>> \in ToSet(mine)}
  <2>1. ASSUME NEW p \in ToSet(mine) PROVE p[2] \in Bundles /\ p = <<r, p[2]>>
    BY <1>1, <1>8, <2>1 DEF Pairs, S
  <2>2. ASSUME NEW b \in Bundles, <<r, b>> \in ToSet(mine)
        PROVE  b \in {p[2] : p \in ToSet(mine)}
    BY <2>2
  <2> QED
    BY <2>1, <2>2
<1> QED
  BY <1>1, <1>4, <1>7, <1>9 DEF S

LEMMA DropsPosted ==
    ASSUME NEW pairs \in Seq(Pairs)
    PROVE  /\ DropEvents(pairs) \in Seq(Events)
           /\ \A e \in ToSet(DropEvents(pairs)) :
                 \E p \in ToSet(pairs) \cap Dropped : e = Delivered(p[2], p[1])
<1> DEFINE mine == SelectIn(pairs, Dropped)
<1>1. mine \in Seq(Pairs) /\ ToSet(mine) = ToSet(pairs) \cap Dropped
  BY ElementsOfSelectIn
<1>2. DropEvents(pairs) = [i \in DOMAIN mine |-> Delivered(mine[i][2], mine[i][1])]
  BY DEF DropEvents
<1> HIDE DEF mine
<1>3. /\ Len(mine) \in Nat /\ DOMAIN mine = 1..Len(mine)
      /\ \A i \in 1..Len(mine) : mine[i] \in Pairs /\ mine[i] \in ToSet(mine)
  BY <1>1, ElementsOf
<1>4. DropEvents(pairs) \in Seq(Events)
  BY <1>2, <1>3, EventTypes DEF Pairs
<1>5. ToSet(DropEvents(pairs)) = {Delivered(mine[i][2], mine[i][1]) : i \in DOMAIN mine}
  BY <1>2 DEF ToSet
<1> QED
  BY <1>1, <1>3, <1>4, <1>5

LEMMA MatchingPairs ==
    ASSUME TypeOK, NEW b \in Bundles
    PROVE  LET matching == SelectIn(reglist, Matches[b])
               pairs == [i \in DOMAIN matching |-> <<matching[i], b>>]
           IN  /\ pairs \in Seq(Pairs)
               /\ ToSet(pairs) = {<<r, b>> : r \in ToSet(reglist) \cap Matches[b]}
<1> DEFINE matching == SelectIn(reglist, Matches[b])
           pairs == [i \in DOMAIN matching |-> <<matching[i], b>>]
<1>1. matching \in Seq(Regs) /\ ToSet(matching) = ToSet(reglist) \cap Matches[b]
  BY ElementsOfSelectIn DEF TypeOK
<1> HIDE DEF matching
<1>2. Len(matching) \in Nat /\ DOMAIN matching = 1..Len(matching)
      /\ \A i \in 1..Len(matching) : matching[i] \in Regs
  BY <1>1
<1>3. pairs \in Seq(Pairs)
  BY <1>2 DEF Pairs
<1>4. ToSet(pairs) = {<<matching[i], b>> : i \in DOMAIN matching}
  BY DEF ToSet
<1>5. ToSet(matching) = {matching[i] : i \in DOMAIN matching}
  BY DEF ToSet
<1>6. ToSet(pairs) = {<<r, b>> : r \in ToSet(matching)}
  <2> HIDE DEF pairs
  <2> QED
    BY <1>4, <1>5
<1>7. ToSet(pairs) = {<<r, b>> : r \in ToSet(reglist) \cap Matches[b]}
  BY <1>1, <1>6
<1> QED
  BY <1>3, <1>7 DEF matching

LEMMA WaitingPairs ==
    ASSUME TypeOK, NEW r \in Regs
    PROVE  /\ Waiting(r) \in Seq(Pairs)
           /\ ToSet(Waiting(r)) = {<<r, b>> : b \in {d \in ToSet(pending) : r \in Matches[d]}}
<1> DEFINE S == {b \in Bundles : r \in Matches[b]}
           mine == SelectIn(pending, S)
<1>1. mine \in Seq(Bundles) /\ ToSet(mine) = ToSet(pending) \cap S
      /\ ToSet(pending) \subseteq Bundles
  BY ElementsOfSelectIn, ElementsOf DEF TypeOK
<1>2. Waiting(r) = [i \in DOMAIN mine |-> <<r, mine[i]>>]
  BY DEF Waiting
<1> HIDE DEF mine
<1>3. Len(mine) \in Nat /\ DOMAIN mine = 1..Len(mine)
      /\ \A i \in 1..Len(mine) : mine[i] \in Bundles
  BY <1>1
<1>4. Waiting(r) \in Seq(Pairs)
  BY <1>2, <1>3 DEF Pairs
<1>5. ToSet(Waiting(r)) = {<<r, mine[i]>> : i \in DOMAIN mine}
  BY <1>2 DEF ToSet
<1>6. ToSet(mine) = {mine[i] : i \in DOMAIN mine}
  BY DEF ToSet
<1>7. ToSet(Waiting(r)) = {<<r, b>> : b \in ToSet(mine)}
  BY <1>5, <1>6
<1>8. ToSet(mine) = {d \in ToSet(pending) : r \in Matches[d]}
  BY <1>1
<1> QED
  BY <1>4, <1>7, <1>8

LEMMA DeliverIs ==
    ASSUME TypeOK, NEW pairs \in Seq(Pairs), Deliver(pairs)
    PROVE  /\ delivered' \in [Regs -> SUBSET Bundles]
           /\ \A r \in Regs : delivered'[r] = delivered[r] \cup
                                 {b \in Bundles : <<r, b>> \in ToSet(pairs)}
           /\ lists' \in [Regs -> Seq(Bundles)]
           /\ \A r \in Regs : ToSet(lists'[r]) = ToSet(lists[r]) \cup
                                 {b \in Bundles : <<r, b>> \in ToSet(pairs) \cap Queued}
           /\ owed' = (owed \ (ToSet(pairs) \cap Dropped)) \cup (ToSet(pairs) \cap Queued)
           /\ owed' \subseteq Regs \X Bundles
           /\ failed' = failed \ (ToSet(pairs) \cap New) /\ failed' \subseteq Regs \X Bundles
           /\ taken' = taken \cup {p[2] : p \in ToSet(pairs) \cap Dropped}
           /\ taken' \subseteq Bundles
<1>1. /\ delivered' = [r \in Regs |->
                          delivered[r] \cup {b \in Bundles : <<r, b>> \in ToSet(pairs)}]
      /\ lists' = [r \in Regs |-> lists[r] \o Onto(r, pairs)]
      /\ owed' = (owed \ (ToSet(pairs) \cap Dropped)) \cup (ToSet(pairs) \cap Queued)
      /\ failed' = failed \ (ToSet(pairs) \cap New)
      /\ taken' = taken \cup {p[2] : p \in ToSet(pairs) \cap Dropped}
  BY DEF Deliver
<1>2. ASSUME NEW r \in Regs
      PROVE  /\ lists[r] \o Onto(r, pairs) \in Seq(Bundles)
             /\ ToSet(lists[r] \o Onto(r, pairs)) =
                   ToSet(lists[r]) \cup {b \in Bundles : <<r, b>> \in ToSet(pairs) \cap Queued}
  <2>1. lists[r] \in Seq(Bundles)
    BY DEF TypeOK
  <2>2. /\ Onto(r, pairs) \in Seq(Bundles)
        /\ ToSet(Onto(r, pairs)) = {b \in Bundles : <<r, b>> \in ToSet(pairs) \cap Queued}
    BY OntoList
  <2> QED
    BY <2>1, <2>2, ElementsOfConcat
<1>3. /\ delivered \in [Regs -> SUBSET Bundles] /\ owed \subseteq Regs \X Bundles
      /\ failed \subseteq Regs \X Bundles /\ taken \subseteq Bundles
  BY DEF TypeOK
<1>4. Queued \subseteq Regs \X Bundles /\ Dropped \subseteq Regs \X Bundles
  BY DEF Queued, Dropped, New
<1>5. {p[2] : p \in ToSet(pairs) \cap Dropped} \subseteq Bundles
  BY <1>4
<1> QED
  BY <1>1, <1>2, <1>3, <1>4, <1>5

\* try_to_delete never gives up custody.
LEMMA TryToDeleteIs ==
    ASSUME TypeOK, NEW b \in Bundles, NEW list \in Seq(Bundles), IsInjective(list),
           ToSet(pending) \subseteq ToSet(list), NEW held, TryToDelete(b, list, held)
    PROVE  /\ pending' \in Seq(Bundles) /\ IsInjective(pending')
           /\ ToSet(pending') \subseteq ToSet(list)
           /\ ToSet(list) \ {b} \subseteq ToSet(pending') /\ (b \in held => pending' = list)
           /\ armed' \subseteq ToSet(pending') /\ custody' = held
<1>1. armed \subseteq ToSet(pending)
  BY DEF TypeOK
<1>2. CASE CanDelete(b, held)
  <2>1. /\ pending' = RemoveFirst(list, b) /\ custody' = held \ {b} /\ armed' = armed \ {b}
        /\ b \notin held
    BY <1>2 DEF TryToDelete, CanDelete
  <2>2. /\ RemoveFirst(list, b) \in Seq(Bundles) /\ IsInjective(RemoveFirst(list, b))
        /\ ToSet(RemoveFirst(list, b)) = ToSet(list) \ {b}
    BY RemoveFirstSeq, InjectiveRemoveFirst
  <2> QED
    BY <1>1, <2>1, <2>2
<1>3. CASE ~CanDelete(b, held)
  BY <1>1, <1>3 DEF TryToDelete
<1> QED
  BY <1>2, <1>3

-----------------------------------------------------------------------------
(* Types.                                                                  *)

\* A bundle that is received was not pending, and is not received again.
LEMMA ReceivedBundle ==
    ASSUME TableInv, Current("received")
    PROVE  /\ Event.bundle \in Bundles /\ Event.source \in {"new", "store"}
           /\ Event.bundle \notin ToSet(pending)
           /\ Event.source = "new" => /\ Event.bundle \in arrived \ store
                                      /\ loading = <<>> /\ loading' = <<>>
           /\ Event.source = "store" => /\ Event.bundle \in store
                                        /\ \A r \in Regs : Event.bundle \notin delivered[r]
                                        /\ Event = Head(loading) /\ loading # <<>>
           /\ \A e \in ToSet(Rest) \cup ToSet(loading') :
                 e.type = "received" => e.bundle # Event.bundle
<1>1. TypeOK /\ EachOnce /\ ReceivedIsNew
  BY DEF TableInv
<1>2. /\ Event \in Events /\ Event.type = "received"
      /\ ToSet(Rest) \subseteq ToSet(eventq) /\ ToSet(loading') \subseteq ToSet(loading)
      /\ \/ /\ loading = <<>> /\ loading' = <<>>
            /\ ToSet(eventq) = {Event} \cup ToSet(Rest)
            /\ Event \in Firsts => Event \notin ToSet(Rest)
         \/ /\ loading # <<>> /\ Rest = eventq /\ Event = Head(loading)
            /\ ToSet(loading) = {Event} \cup ToSet(loading')
            /\ Event \in Firsts => Event \notin ToSet(loading')
  BY <1>1, CurrentEvent
<1>3. /\ Event.bundle \in Bundles /\ Event.source \in {"new", "store"}
      /\ Event = Received(Event.bundle, Event.source) /\ Event \in Firsts
  BY <1>2, EventFields DEF Firsts
<1>4. /\ ToSet(eventq) \subseteq Events /\ ToSet(loading) \subseteq Events
      /\ ToSet(<<>>) = {}
  BY <1>1, ElementsOf, ElementsOfEmpty DEF TypeOK
<1>5. \A e \in ToSet(eventq) \cup ToSet(loading) :
         e.type = "received" => e = Received(e.bundle, e.source)
  BY <1>4, EventFields
<1>6. CASE Event \in ToSet(eventq) /\ loading = <<>>
  BY <1>1, <1>2, <1>3, <1>4, <1>5, <1>6 DEF ReceivedIsNew
<1>7. CASE Event \in ToSet(loading) /\ Rest = eventq
  <2>1. Event.source = "store" /\ Event.bundle \in store \ ToSet(pending)
    BY <1>1, <1>2, <1>7 DEF ReceivedIsNew
  <2>2. \A e \in ToSet(loading') : e.type = "received" => e.bundle # Event.bundle
    BY <1>1, <1>2, <1>3, <1>4, <1>5, <1>7, <2>1 DEF ReceivedIsNew
  <2> QED
    BY <1>1, <1>2, <1>3, <1>4, <1>5, <1>7, <2>1, <2>2 DEF ReceivedIsNew
<1> QED
  BY <1>2, <1>6, <1>7

LEMMA ReceivedTypes == ASSUME TableInv, HandleReceived PROVE TypeOK'
<1>1. TypeOK /\ EachOnce /\ Current("received")
  BY DEF TableInv, HandleReceived
<1>2. Rest \in Seq(Events) /\ loading' \in Seq(Events) /\ Event \in Events
  BY <1>1, CurrentEvent
<1>3. PICK b \in Bundles : b = Event.bundle /\ b \notin ToSet(pending)
  BY <1>1, ReceivedBundle
<1>4. PICK acc \in SUBSET Bundles : acc = IF Event.source = "store" THEN {} ELSE {b} \cap Custodial
  OBVIOUS
<1> DEFINE matching == SelectIn(reglist, Matches[b])
           pairs == [i \in DOMAIN matching |-> <<matching[i], b>>]
<1>5. pairs \in Seq(Pairs)
  BY <1>1, MatchingPairs
<1>6. /\ store' = store \cup {b}
      /\ \/ /\ UNCHANGED delivery
            /\ TryToDelete(b, Append(pending, b), custody)
            /\ Post(Rest)
         \/ /\ Deliver(pairs)
            /\ TryToDelete(b, Append(pending, b), custody \cup acc)
            /\ Post(Rest \o DropEvents(pairs))
  BY <1>3, <1>4 DEF HandleReceived
<1> HIDE DEF matching, pairs
<1>7. /\ Append(pending, b) \in Seq(Bundles) /\ IsInjective(Append(pending, b))
      /\ ToSet(pending) \subseteq ToSet(Append(pending, b))
  BY <1>1, <1>3, ElementsOfAppend, InjectiveAppend DEF TypeOK
<1>8. /\ pending' \in Seq(Bundles) /\ IsInjective(pending') /\ armed' \subseteq ToSet(pending')
      /\ custody' \subseteq Bundles
  <2>1. custody \subseteq Bundles /\ custody \cup acc \subseteq Bundles
    BY <1>1 DEF TypeOK
  <2>2. PICK held \in SUBSET Bundles : TryToDelete(b, Append(pending, b), held)
    BY <1>6, <2>1
  <2> QED
    BY <1>1, <1>7, <2>2, TryToDeleteIs
<1>9. store' \subseteq Bundles
  BY <1>1, <1>6 DEF TypeOK
<1>10. eventq' \in Seq(Events)
  BY <1>2, <1>5, <1>6, <1>9, Posted, DropsPosted, Concat
<1>11. /\ lists' \in [Regs -> Seq(Bundles)] /\ delivered' \in [Regs -> SUBSET Bundles]
       /\ owed' \subseteq Regs \X Bundles /\ failed' \subseteq Regs \X Bundles
       /\ taken' \subseteq Bundles
  BY <1>1, <1>5, <1>6, DeliverIs DEF TypeOK, delivery
<1>12. UNCHANGED <<table, regs, clients, inputs, firing>>
  BY DEF HandleReceived, Current
<1> QED
  BY <1>1, <1>2, <1>8, <1>9, <1>10, <1>11, <1>12
  DEF TypeOK, table, regs, clients, inputs

\* The handlers that change no list but the pending bundles.
LEMMA BundleHandlerTypes ==
    ASSUME TableInv, HandleDelivered \/ HandleBundleExpired \/ HandleFree
    PROVE  TypeOK'
<1>1. PICK t : t \in {"delivered", "bundle_expired", "free"} /\ Current(t)
  BY DEF HandleDelivered, HandleBundleExpired, HandleFree
<1>2. TypeOK /\ EachOnce
  BY DEF TableInv
<1>3. Rest \in Seq(Events) /\ loading' \in Seq(Events) /\ Event \in Events /\ Event.type = t
  BY <1>1, <1>2, CurrentEvent
<1>4. PICK b \in Bundles : b = Event.bundle
  BY <1>1, <1>3, EventFields
<1>5. pending \in Seq(Bundles) /\ IsInjective(pending)
  BY <1>2 DEF TypeOK
<1>6. /\ RemoveFirst(pending, b) \in Seq(Bundles) /\ IsInjective(RemoveFirst(pending, b))
      /\ ToSet(RemoveFirst(pending, b)) = ToSet(pending) \ {b}
  BY <1>5, RemoveFirstSeq, InjectiveRemoveFirst
<1>7. /\ pending' \in Seq(Bundles) /\ IsInjective(pending') /\ armed' \subseteq ToSet(pending')
      /\ custody' \subseteq Bundles
  <2>1. CASE HandleDelivered
    BY <1>2, <1>4, <1>5, <2>1, TryToDeleteIs DEF HandleDelivered, TypeOK
  <2>2. CASE HandleBundleExpired
    BY <1>2, <1>4, <1>6, <2>2 DEF HandleBundleExpired, TypeOK
  <2>3. CASE HandleFree
    BY <1>2, <2>3 DEF HandleFree, TypeOK
  <2> QED
    BY <2>1, <2>2, <2>3
<1>8. /\ store' \subseteq store /\ Post(Rest)
      /\ UNCHANGED <<table, regs, delivery, clients, inputs, firing>>
  BY DEF HandleDelivered, HandleBundleExpired, HandleFree, Current
<1>9. store' \subseteq Bundles
  BY <1>2, <1>8 DEF TypeOK
<1>10. eventq' \in Seq(Events)
  BY <1>3, <1>8, <1>9, Posted
<1> QED
  BY <1>2, <1>3, <1>7, <1>8, <1>9, <1>10 DEF TypeOK, table, regs, delivery, clients, inputs

LEMMA NotifyTypes ==
    ASSUME TypeOK, NEW c \in Clients \cup {None}, Notify(c)
    PROVE  call' \in [Clients -> Calls]
<1>1. Idle \in Calls
  BY DEF Idle, Calls
<1> QED
  BY <1>1 DEF Notify, TypeOK

\* A registration that is added is not listed.
LEMMA AddedTypes == ASSUME TableInv, HandleAdded PROVE TypeOK'
<1>1. TypeOK /\ EachOnce /\ Current("reg_added") /\ AddedIsNew
  BY DEF TableInv, HandleAdded
<1>2. /\ Rest \in Seq(Events) /\ loading' \in Seq(Events) /\ Event \in Events
      /\ Event.type = "reg_added" /\ Event \in ToSet(eventq) \cup ToSet(loading)
  BY <1>1, CurrentEvent
<1>3. PICK r \in Regs : r = Event.reg /\ Event.client \in Clients \cup {None}
  BY <1>2, EventFields
<1>4. r \notin ToSet(reglist)
  BY <1>1, <1>2, <1>3 DEF AddedIsNew
<1>5. reglist \in Seq(Regs) /\ IsInjective(reglist)
  BY <1>1 DEF TypeOK
<1>6. Append(reglist, r) \in Seq(Regs) /\ IsInjective(Append(reglist, r))
  BY <1>4, <1>5, InjectiveAppend
<1>7. /\ reglist' = Append(reglist, r) /\ regstore' = regstore \cup {r}
      /\ Deliver(Waiting(r)) /\ Post(Rest \o DropEvents(Waiting(r)))
      /\ Notify(Event.client)
      /\ UNCHANGED <<bundleVars, regs, bindings, inputs, firing>>
  BY <1>3 DEF HandleAdded, Current
<1>8. Waiting(r) \in Seq(Pairs)
  BY <1>1, WaitingPairs
<1>9. Rest \o DropEvents(Waiting(r)) \in Seq(Events)
  BY <1>2, <1>8, DropsPosted, Concat
<1>10. store' \subseteq Bundles
  BY <1>1, <1>7 DEF TypeOK, bundleVars
<1>11. eventq' \in Seq(Events)
  BY <1>7, <1>9, <1>10, Posted
<1>12. call' \in [Clients -> Calls]
  BY <1>1, <1>3, <1>7, NotifyTypes
<1>13. /\ lists' \in [Regs -> Seq(Bundles)] /\ delivered' \in [Regs -> SUBSET Bundles]
       /\ owed' \subseteq Regs \X Bundles /\ failed' \subseteq Regs \X Bundles
       /\ taken' \subseteq Bundles
  BY <1>1, <1>7, <1>8, DeliverIs
<1> QED
  BY <1>1, <1>2, <1>3, <1>6, <1>7, <1>11, <1>12, <1>13
  DEF TypeOK, bundleVars, regs, inputs

\* What the handlers of the other registration events do to the table.
LEMMA TableHandler ==
    ASSUME TableInv, HandleRemoved \/ HandleExpired \/ HandleRegDelete
    PROVE  \E r \in Regs, ns \in Seq(Events),
              type \in {"reg_removed", "reg_expired", "reg_delete"} :
              /\ Current(type) /\ r = Event.reg
              /\ ToSet(ns) \subseteq {RegEvent("reg_delete", r, None)}
              /\ Post(Rest \o ns) \/ Post(ns \o Rest)
              /\ UNCHANGED <<bundleVars, active, bindings, inputs, firing, delivered, failed, taken>>
              /\ expired' \subseteq expired \cup {r} /\ timers' \subseteq timers
              /\ \/ ns = <<>> /\ UNCHANGED <<table, owed>>
                 \/ /\ r \in ToSet(reglist) /\ type # "reg_delete"
                    /\ reglist' = RemoveFirst(reglist, r) /\ regstore' = regstore \ {r}
                    /\ owed' = {p \in owed : p[1] # r}
              /\ \/ UNCHANGED lists
                 \/ lists' = [lists EXCEPT ![r] = <<>>] /\ type = "reg_delete" /\ UNCHANGED owed
              /\ Event.client \in Clients \cup {None}
              /\ UNCHANGED call \/ (type = "reg_removed" /\ Notify(Event.client))
<1>1. TypeOK /\ EachOnce
  BY DEF TableInv
<1>2. PICK type \in {"reg_removed", "reg_expired", "reg_delete"} : Current(type) /\
         \/ type = "reg_removed" /\ HandleRemoved
         \/ type = "reg_expired" /\ HandleExpired
         \/ type = "reg_delete" /\ HandleRegDelete
  BY DEF HandleRemoved, HandleExpired, HandleRegDelete
<1>3. Rest \in Seq(Events) /\ Event \in Events /\ Event.type = type
  BY <1>1, <1>2, CurrentEvent
<1>4. PICK r \in Regs : r = Event.reg /\ Event.client \in Clients \cup {None}
  BY <1>2, <1>3, EventFields
<1> DEFINE e == RegEvent("reg_delete", r, None)
<1>5. e \in Events
  BY EventTypes
<1> HIDE DEF e
<1>6. /\ <<>> \in Seq(Events) /\ ToSet(<<>>) = {} /\ Rest \o <<>> = Rest
      /\ <<e>> \in Seq(Events) /\ ToSet(<<e>>) = {e} /\ Rest \o <<e>> = Append(Rest, e)
  BY <1>3, <1>5, ElementsOfEmpty, ElementsOfOne
<1>7. UNCHANGED firing
  BY <1>2 DEF Current
<1>8. CASE type = "reg_removed"
  <2>1. /\ Notify(Event.client)
        /\ UNCHANGED <<bundleVars, regs, bindings, inputs>>
        /\ \/ UNCHANGED <<table, delivery>> /\ Post(Rest)
           \/ Listed(r) /\ DeleteFromTable(r) /\ Post(Append(Rest, e))
    BY <1>2, <1>4, <1>8 DEF HandleRemoved, e
  <2>2. CASE UNCHANGED <<table, delivery>> /\ Post(Rest)
    BY <1>2, <1>4, <1>6, <1>7, <1>8, <2>1, <2>2 DEF regs, delivery
  <2>3. CASE Listed(r) /\ DeleteFromTable(r) /\ Post(Append(Rest, e))
    BY <1>2, <1>4, <1>6, <1>7, <1>8, <2>1, <2>3 DEF regs, DeleteFromTable, Listed, e
  <2> QED
    BY <2>1, <2>2, <2>3
<1>9. CASE type = "reg_expired"
  <2>1. /\ UNCHANGED <<bundleVars, active, timers, clients, inputs>>
        /\ \/ UNCHANGED <<table, expired, delivery>> /\ Post(Rest)
           \/ expired' = expired \cup {r} /\ UNCHANGED <<table, delivery>> /\ Post(Rest)
           \/ /\ Listed(r) /\ expired' = expired \cup {r}
              /\ DeleteFromTable(r) /\ Post(<<e>> \o Rest)
    BY <1>2, <1>4, <1>9 DEF HandleExpired, e
  <2>2. UNCHANGED call
    BY <2>1 DEF clients
  <2>3. CASE UNCHANGED <<table, delivery>> /\ Post(Rest)
    <3>1. /\ Post(Rest \o <<>>) /\ expired' \subseteq expired \cup {r}
          /\ UNCHANGED <<bundleVars, active, timers, bindings, inputs, firing, table>>
          /\ UNCHANGED <<lists, delivered, owed, failed, taken>>
      BY <1>6, <1>7, <2>1, <2>3 DEF clients, delivery
    <3> QED
      BY <1>2, <1>4, <1>6, <1>9, <2>2, <3>1
  <2>4. CASE Listed(r) /\ DeleteFromTable(r) /\ Post(<<e>> \o Rest)
    BY <1>2, <1>4, <1>6, <1>7, <1>9, <2>1, <2>2, <2>4 DEF clients, DeleteFromTable, Listed, e
  <2> QED
    BY <2>1, <2>3, <2>4
<1>10. CASE type = "reg_delete"
  <2>1. /\ timers' = timers \ {r} /\ lists' = [lists EXCEPT ![r] = <<>>]
        /\ UNCHANGED <<bundleVars, table, active, expired, clients, inputs>>
        /\ UNCHANGED <<delivered, owed, failed, taken>>
        /\ Post(Rest)
    BY <1>2, <1>4, <1>10 DEF HandleRegDelete
  <2>2. UNCHANGED call
    BY <2>1 DEF clients
  <2> QED
    BY <1>2, <1>4, <1>6, <1>7, <1>10, <2>1, <2>2 DEF clients
<1> QED
  BY <1>8, <1>9, <1>10

LEMMA TableTypes ==
    ASSUME TableInv, HandleRemoved \/ HandleExpired \/ HandleRegDelete
    PROVE  TypeOK'
<1>1. TypeOK /\ EachOnce
  BY DEF TableInv
<1>2. PICK r \in Regs, ns \in Seq(Events), type \in {"reg_removed", "reg_expired", "reg_delete"} :
         /\ Current(type)
         /\ Post(Rest \o ns) \/ Post(ns \o Rest)
         /\ UNCHANGED <<bundleVars, active, bindings, inputs, firing, delivered, failed, taken>>
         /\ expired' \subseteq expired \cup {r} /\ timers' \subseteq timers
         /\ \/ UNCHANGED <<table, owed>>
            \/ /\ reglist' = RemoveFirst(reglist, r) /\ regstore' = regstore \ {r}
               /\ owed' = {p \in owed : p[1] # r}
         /\ UNCHANGED lists \/ lists' = [lists EXCEPT ![r] = <<>>]
         /\ Event.client \in Clients \cup {None}
         /\ UNCHANGED call \/ (type = "reg_removed" /\ Notify(Event.client))
  BY TableHandler
<1>3. Rest \in Seq(Events) /\ loading' \in Seq(Events)
  BY <1>1, <1>2, CurrentEvent
<1>4. store' \subseteq Bundles
  BY <1>1, <1>2 DEF TypeOK, bundleVars
<1>5. Rest \o ns \in Seq(Events) /\ ns \o Rest \in Seq(Events)
  BY <1>3, Concat
<1>6. eventq' \in Seq(Events)
  BY <1>2, <1>4, <1>5, Posted
<1>7. call' \in [Clients -> Calls]
  <2>1. call \in [Clients -> Calls]
    BY <1>1 DEF TypeOK
  <2> QED
    BY <1>1, <1>2, <2>1, NotifyTypes
<1>8. reglist' \in Seq(Regs) /\ IsInjective(reglist') /\ regstore' \subseteq Regs
  BY <1>1, <1>2, RemoveFirstSeq, InjectiveRemoveFirst DEF TypeOK, table
<1>9. lists' \in [Regs -> Seq(Bundles)] /\ owed' \subseteq Regs \X Bundles
  <2>1. lists \in [Regs -> Seq(Bundles)] /\ owed \subseteq Regs \X Bundles
        /\ <<>> \in Seq(Bundles)
    BY <1>1 DEF TypeOK
  <2>2. lists' \in [Regs -> Seq(Bundles)]
    BY <1>2, <2>1
  <2>3. owed' \subseteq owed
    BY <1>2
  <2> QED
    BY <2>1, <2>2, <2>3
<1> QED
  BY <1>1, <1>2, <1>3, <1>6, <1>7, <1>8, <1>9 DEF TypeOK, bundleVars, inputs

LEMMA CallTypes ==
    /\ Idle \in Calls /\ [op |-> "wait"] \in Calls /\ [op |-> "idle"] \in Calls
    /\ [op |-> "close"] \in Calls
    /\ \A r \in Regs :
          /\ [op |-> "bind", reg |-> r] \in Calls
          /\ [op |-> "unregister", reg |-> r] \in Calls
          /\ [op |-> "recv", reg |-> r] \in Calls
          /\ \A n \in {"idle", "close"} : [op |-> "released", reg |-> r, next |-> n] \in Calls
          /\ \A b \in Bundles : [op |-> "popped", reg |-> r, bundle |-> b] \in Calls
BY DEF Calls, Idle

LEMMA CallFields ==
    ASSUME NEW k \in Calls
    PROVE  /\ k.op \in {"bind", "unregister", "recv", "released", "popped"} => k.reg \in Regs
           /\ k.op = "popped" => /\ k.bundle \in Bundles
                                 /\ k = [op |-> "popped", reg |-> k.reg, bundle |-> k.bundle]
           /\ k.op = "released" => k.next \in {"idle", "close"}
BY DEF Calls

\* What a step of the thread of an application does: to its call ...
Goes(c, k) == call' = [call EXCEPT ![c] = k]
\* ... to what it has bound ...
ClientFrame(c) ==
    /\ UNCHANGED <<daemonVars, arrived, over, crashes, gap>>
    /\ active' \subseteq Regs /\ expired' \subseteq Regs /\ timers' \subseteq Timed
    /\ bindings' \in [Clients -> Seq(Regs)]
GoesOn(c) == call[c].op # "popped" /\ \E k \in Calls : k.op # "popped" /\ Goes(c, k)
Waits(c) == call[c].op # "popped" /\ Goes(c, [op |-> "wait"])
\* ... and to what the daemon knows: nothing, ...
Asks(c) == GoesOn(c) /\ UNCHANGED <<lists, made, ghosts, eventq>>
\* ... there is a new registration, one ends, ...
Makes(c, r) ==
    /\ Waits(c) /\ r \notin made /\ made' = made \cup {r}
    /\ eventq' = Append(eventq, RegEvent("reg_added", r, c))
    /\ UNCHANGED <<lists, ghosts>>
Expires(c, r) ==
    /\ GoesOn(c)
    /\ eventq' = Append(eventq, RegEvent("reg_expired", r, None))
    /\ UNCHANGED <<lists, made, ghosts>>
Removes(c, r) ==
    /\ Waits(c)
    /\ eventq' = Append(eventq, RegEvent("reg_removed", r, c))
    /\ UNCHANGED <<lists, made, ghosts>>
\* ... or a bundle is taken from a list, and then belongs to the application ...
Pops(c, r) ==
    /\ call[c].op # "popped" /\ lists[r] # <<>>
    /\ Goes(c, [op |-> "popped", reg |-> r, bundle |-> Head(lists[r])])
    /\ lists' = [lists EXCEPT ![r] = Tail(@)]
    /\ UNCHANGED <<made, ghosts, eventq>>
Takes(c, r, b) ==
    /\ call[c] = [op |-> "popped", reg |-> r, bundle |-> b] /\ Goes(c, Idle)
    /\ owed' = owed \ {<<r, b>>} /\ taken' = taken \cup {b}
    /\ eventq' = Append(eventq, Delivered(b, r))
    /\ UNCHANGED <<lists, made, failed>>
\* ... unless the call fails, which lets go of a reference, perhaps the last one.
Fails(c, r, b) ==
    /\ call[c] = [op |-> "popped", reg |-> r, bundle |-> b] /\ Goes(c, Idle)
    /\ failed' = failed \cup {<<r, b>>}
    /\ \/ eventq' = eventq
       \/ b \in store \ HeldBeside(c) /\ eventq' = Append(eventq, BundleEvent("free", b))
    /\ UNCHANGED <<lists, made, owed, taken>>
ClientDoes(c) ==
    /\ ClientFrame(c)
    /\ \/ Asks(c)
       \/ \E r \in Regs : Makes(c, r) \/ Expires(c, r) \/ Removes(c, r) \/ Pops(c, r)
       \/ \E r \in Regs, b \in Bundles : Takes(c, r, b) \/ Fails(c, r, b)

LEMMA ReadyBound ==
    ASSUME NEW c \in Clients, bindings[c] \in Seq(Regs)
    PROVE  Ready(c) \subseteq Regs
<1> DEFINE full == SelectIn(bindings[c], {r \in Regs : lists[r] # <<>>})
<1>1. full \in Seq(Regs)
  BY ElementsOfSelectIn
<1> HIDE DEF full
<1>2. \A i \in DOMAIN full : full[i] \in Regs
  BY <1>1
<1> QED
  BY <1>2 DEF Ready, full

LEMMA ClientStep ==
    ASSUME TypeOK, NEW c \in Clients, Call(c) \/ Continue(c)
    PROVE  ClientDoes(c)
<1>1. /\ active \subseteq Regs /\ expired \subseteq Regs
      /\ timers \subseteq Timed /\ Timed \subseteq Regs
      /\ bindings \in [Clients -> Seq(Regs)] /\ call \in [Clients -> Calls]
      /\ reglist \in Seq(Regs) /\ lists \in [Regs -> Seq(Bundles)]
  BY RegsAssumption DEF TypeOK
<1>2. call[c] \in Calls /\ bindings[c] \in Seq(Regs) /\ Idle.op = "idle" /\ Idle \in Calls
  BY <1>1, CallTypes DEF Idle
<1>3. ASSUME NEW r \in Regs, Register(c, r) PROVE ClientDoes(c)
  <2>1. ClientFrame(c)
    <3>1. expired' \subseteq Regs /\ timers' \subseteq Timed
      BY <1>1, <1>3 DEF Register
    <3>2. active' \subseteq Regs /\ bindings' \in [Clients -> Seq(Regs)]
      <4>1. Append(bindings[c], r) \in Seq(Regs)
        BY <1>2
      <4> QED
        BY <1>1, <1>3, <4>1 DEF Register
    <3> QED
      BY <1>1, <1>3, <3>1, <3>2 DEF Register, ClientFrame
  <2>2. Makes(c, r)
    BY <1>2, <1>3, CallTypes DEF Register, Makes, Waits, Goes
  <2> QED
    BY <2>1, <2>2 DEF ClientDoes
<1>4. ASSUME NEW r \in Regs, LookupToBind(c, r) \/ LookupToUnregister(c, r)
      PROVE  ClientDoes(c)
  <2>1. ClientFrame(c)
    BY <1>1, <1>4 DEF LookupToBind, LookupToUnregister, ClientFrame, regs, inputs
  <2>2. Asks(c)
    <3>1. PICK k \in {[op |-> "bind", reg |-> r], [op |-> "unregister", reg |-> r]} :
             call' = [call EXCEPT ![c] = k]
      BY <1>4 DEF LookupToBind, LookupToUnregister
    <3>2. k \in Calls
      BY CallTypes
    <3>3. k.op # "popped"
      OBVIOUS
    <3> QED
      BY <1>2, <1>4, <3>1, <3>2, <3>3
      DEF LookupToBind, LookupToUnregister, Asks, GoesOn, Goes, inputs
  <2> QED
    BY <2>1, <2>2 DEF ClientDoes
<1>5. ASSUME NEW r, NEW n \in {"idle", "close"}, Release(c, r, n), r \in Regs,
             call[c].op # "popped"
      PROVE  ClientDoes(c)
  <2>1. RemoveFirst(bindings[c], r) \in Seq(Regs)
    BY <1>2, RemoveFirstSeq
  <2>2. ClientFrame(c)
    BY <1>1, <1>2, <1>5, <2>1 DEF Release, ClientFrame, inputs
  <2>3. Asks(c)
    <3>1. [op |-> "released", reg |-> r, next |-> n] \in Calls
      BY <1>5, CallTypes
    <3> QED
      BY <1>5, <3>1 DEF Release, Asks, GoesOn, Goes, inputs
  <2> QED
    BY <2>2, <2>3 DEF ClientDoes
<1>6. ASSUME NEW r \in Regs, Unbind(c, r) PROVE ClientDoes(c)
  BY <1>2, <1>5, <1>6 DEF Unbind
<1>7. ASSUME Close(c) \/ CloseNext(c) PROVE ClientDoes(c)
  <2>1. bindings[c] # <<>> /\ Release(c, Head(bindings[c]), "close") /\ call[c].op # "popped"
    BY <1>2, <1>7 DEF Close, CloseNext
  <2>2. Head(bindings[c]) \in Regs
    BY <1>2, <2>1
  <2> QED
    BY <1>5, <2>1, <2>2
<1>8. ASSUME NEW r \in Regs, ForceExpire(c, r) PROVE ClientDoes(c)
  <2>1. ClientFrame(c)
    BY <1>1, <1>8 DEF ForceExpire, ClientFrame, clients, inputs
  <2>2. Goes(c, call[c]) /\ call[c].op # "popped"
    BY <1>1, <1>2, <1>8 DEF ForceExpire, Goes, clients
  <2> QED
    BY <1>2, <1>8, <2>1, <2>2 DEF ForceExpire, ClientDoes, Asks, GoesOn, inputs
<1>9. ASSUME WaitForNotify(c) PROVE ClientDoes(c)
  <2>1. PICK r \in Regs : call' = [call EXCEPT ![c] = [op |-> "recv", reg |-> r]]
    <3>1. Ready(c) \subseteq Regs
      BY <1>2, ReadyBound
    <3> QED
      BY <1>9, <3>1 DEF WaitForNotify
  <2>2. [op |-> "recv", reg |-> r] \in Calls
    BY <1>1, CallTypes
  <2>3. ClientFrame(c)
    BY <1>1, <1>9 DEF WaitForNotify, ClientFrame, regs, inputs
  <2>4. Asks(c)
    BY <1>2, <1>9, <2>1, <2>2 DEF WaitForNotify, Asks, GoesOn, Goes, inputs
  <2> QED
    BY <2>3, <2>4 DEF ClientDoes
<1>10. ASSUME Bind(c) PROVE ClientDoes(c)
  <2>1. PICK r \in Regs : r = call[c].reg /\ call[c].op = "bind"
    BY <1>2, <1>10, CallFields DEF Bind
  <2>2. Append(bindings[c], r) \in Seq(Regs)
    BY <1>2
  <2>3. ClientFrame(c)
    BY <1>1, <1>2, <1>10, <2>1, <2>2 DEF Bind, ClientFrame, inputs
  <2>4. Asks(c)
    BY <1>2, <1>10, <2>1 DEF Bind, Asks, GoesOn, Goes, inputs
  <2> QED
    BY <2>3, <2>4 DEF ClientDoes
<1>11. ASSUME Closed(c) PROVE ClientDoes(c)
  <2>1. ClientFrame(c)
    BY <1>1, <1>11 DEF Closed, ClientFrame, regs, inputs
  <2>2. Asks(c)
    BY <1>2, <1>11 DEF Closed, Asks, GoesOn, Goes, inputs
  <2> QED
    BY <2>1, <2>2 DEF ClientDoes
<1>12. ASSUME Released(c) PROVE ClientDoes(c)
  <2>1. ClientFrame(c)
    BY <1>1, <1>12 DEF Released, ClientFrame, regs, inputs
  <2>2. PICK r \in Regs : r = call[c].reg /\ call[c].op = "released"
    BY <1>2, <1>12, CallFields DEF Released
  <2>3. call[c].next \in {"idle", "close"}
    BY <1>2, <2>2, CallFields
  <2>4. PICK k \in {[op |-> "idle"], [op |-> "close"]} : Goes(c, k)
    BY <1>12, <2>3 DEF Released, Goes
  <2>5. k \in Calls /\ k.op # "popped"
    BY CallTypes
  <2>6. Asks(c) \/ Expires(c, r)
    BY <1>12, <2>2, <2>4, <2>5 DEF Released, Asks, Expires, GoesOn, inputs
  <2> QED
    BY <2>1, <2>6 DEF ClientDoes
<1>13. ASSUME Unregister(c) PROVE ClientDoes(c)
  <2>1. ClientFrame(c)
    BY <1>1, <1>13 DEF Unregister, ClientFrame, regs, inputs
  <2>2. PICK r \in Regs : r = call[c].reg /\ call[c].op = "unregister"
    BY <1>2, <1>13, CallFields DEF Unregister
  <2>3. Removes(c, r)
    BY <1>13, <2>2 DEF Unregister, Removes, Waits, Goes, inputs
  <2> QED
    BY <2>1, <2>3 DEF ClientDoes
<1>14. ASSUME PopFront(c) PROVE ClientDoes(c)
  <2>1. ClientFrame(c)
    BY <1>1, <1>14 DEF PopFront, ClientFrame, regs, inputs
  <2>2. PICK r \in Regs : r = call[c].reg /\ call[c].op = "recv"
    BY <1>2, <1>14, CallFields DEF PopFront
  <2>3. Pops(c, r)
    BY <1>14, <2>2 DEF PopFront, Pops, Goes, inputs
  <2> QED
    BY <2>1, <2>3 DEF ClientDoes
<1>15. ASSUME Copied(c) PROVE ClientDoes(c)
  <2>1. ClientFrame(c)
    BY <1>1, <1>15 DEF Copied, ClientFrame, regs, inputs
  <2>2. PICK r \in Regs, b \in Bundles : call[c] = [op |-> "popped", reg |-> r, bundle |-> b]
    BY <1>2, <1>15, CallFields DEF Copied
  <2>3. Takes(c, r, b)
    BY <1>15, <2>2 DEF Copied, Takes, Goes, inputs
  <2> QED
    BY <2>1, <2>3 DEF ClientDoes
<1>16. ASSUME CopyFails(c) PROVE ClientDoes(c)
  <2>1. ClientFrame(c)
    BY <1>1, <1>16 DEF CopyFails, ClientFrame, regs, inputs
  <2>2. PICK r \in Regs, b \in Bundles : call[c] = [op |-> "popped", reg |-> r, bundle |-> b]
    BY <1>2, <1>16, CallFields DEF CopyFails
  <2>3. Fails(c, r, b)
    BY <1>16, <2>2 DEF CopyFails, Fails, Goes, inputs
  <2> QED
    BY <2>1, <2>3 DEF ClientDoes
<1> QED
  BY <1>3, <1>4, <1>6, <1>7, <1>8, <1>9, <1>10, <1>11, <1>12, <1>13, <1>14, <1>15, <1>16
  DEF Call, Continue

\* A thread that waits does nothing.
LEMMA NotWaiting ==
    ASSUME NEW c \in Clients, Call(c) \/ Continue(c)
    PROVE  call[c].op # "wait"
BY DEF Call, Continue, Register, LookupToBind, Unbind, ForceExpire, LookupToUnregister, Close,
       WaitForNotify, Bind, CloseNext, Closed, Released, Unregister, PopFront, Copied,
       CopyFails, Idle

LEMMA ClientTypes == ASSUME TypeOK, NEW c \in Clients, ClientDoes(c) PROVE TypeOK'
<1>1. /\ eventq \in Seq(Events) /\ call \in [Clients -> Calls] /\ lists \in [Regs -> Seq(Bundles)]
      /\ owed \subseteq Regs \X Bundles /\ failed \subseteq Regs \X Bundles
      /\ taken \subseteq Bundles /\ made \subseteq Regs
  BY DEF TypeOK
<1>2. /\ eventq' \in Seq(Events) /\ call' \in [Clients -> Calls]
      /\ lists' \in [Regs -> Seq(Bundles)] /\ made' \subseteq Regs
      /\ owed' \subseteq Regs \X Bundles /\ failed' \subseteq Regs \X Bundles
      /\ taken' \subseteq Bundles
  <2>1. CASE Asks(c)
    BY <1>1, <2>1 DEF Asks, GoesOn, Goes, ghosts
  <2>2. ASSUME NEW r \in Regs, Makes(c, r) \/ Expires(c, r) \/ Removes(c, r)
        PROVE  /\ eventq' \in Seq(Events) /\ call' \in [Clients -> Calls]
               /\ UNCHANGED <<lists, ghosts>> /\ made' \subseteq Regs
    <3>1. \A e \in Events : Append(eventq, e) \in Seq(Events)
      BY <1>1
    <3>2. eventq' \in Seq(Events)
      BY <2>2, <3>1, EventTypes DEF Makes, Expires, Removes
    <3>3. GoesOn(c)
      BY <2>2, CallTypes DEF Makes, Expires, Removes, Waits, GoesOn
    <3>4. call' \in [Clients -> Calls]
      BY <1>1, <3>3 DEF GoesOn, Goes
    <3> QED
      BY <1>1, <2>2, <3>2, <3>4 DEF Makes, Expires, Removes
  <2>3. ASSUME NEW r \in Regs, Pops(c, r)
        PROVE  /\ lists' \in [Regs -> Seq(Bundles)] /\ call' \in [Clients -> Calls]
               /\ UNCHANGED <<made, ghosts, eventq>>
    <3>1. Head(lists[r]) \in Bundles /\ Tail(lists[r]) \in Seq(Bundles)
      BY <1>1, <2>3 DEF Pops
    <3>2. [op |-> "popped", reg |-> r, bundle |-> Head(lists[r])] \in Calls
      BY <3>1, CallTypes
    <3> QED
      BY <1>1, <2>3, <3>1, <3>2 DEF Pops, Goes
  <2>4. ASSUME NEW r \in Regs, NEW b \in Bundles, Takes(c, r, b)
        PROVE  /\ eventq' \in Seq(Events) /\ call' \in [Clients -> Calls]
               /\ UNCHANGED <<lists, made, failed>>
               /\ owed' \subseteq owed /\ taken' \subseteq Bundles
    <3>1. Append(eventq, Delivered(b, r)) \in Seq(Events)
      BY <1>1, EventTypes
    <3> QED
      BY <1>1, <2>4, <3>1, CallTypes DEF Takes, Goes
  <2>5. ASSUME NEW r \in Regs, NEW b \in Bundles, Fails(c, r, b)
        PROVE  /\ eventq' \in Seq(Events) /\ call' \in [Clients -> Calls]
               /\ UNCHANGED <<lists, made, owed, taken>>
               /\ failed' \subseteq Regs \X Bundles
    <3>1. Append(eventq, BundleEvent("free", b)) \in Seq(Events)
      BY <1>1, EventTypes
    <3>2. eventq' \in Seq(Events)
      BY <1>1, <2>5, <3>1 DEF Fails
    <3>3. call' \in [Clients -> Calls]
      BY <1>1, <2>5, CallTypes DEF Fails, Goes
    <3>4. failed' \subseteq Regs \X Bundles
      BY <1>1, <2>5 DEF Fails
    <3> QED
      BY <2>5, <3>2, <3>3, <3>4 DEF Fails
  <2> QED
    BY <1>1, <2>1, <2>2, <2>3, <2>4, <2>5 DEF ClientDoes, ghosts
<1>3. ClientFrame(c)
  BY DEF ClientDoes
<1> QED
  BY <1>2, <1>3 DEF ClientFrame, daemonVars, table, TypeOK

\* The timers, arrivals and the ends of lifetimes.
LEMMA InputTypes ==
    ASSUME TypeOK,
           \/ TimerPosts \/ \E r \in Regs : TimerFires(r)
           \/ \E b \in Bundles : BundleTimeout(b) \/ Arrive(b) \/ LifetimeEnds(b)
    PROVE  TypeOK'
<1>1. eventq \in Seq(Events) /\ firing \in Regs \cup {None} /\ None \notin Regs
      /\ timers \subseteq Timed /\ Timed \subseteq Regs /\ Perishable \subseteq Bundles
  BY RegsAssumption, BundlesAssumption DEF TypeOK
<1>2. \A e \in Events : Append(eventq, e) \in Seq(Events) /\ <<e>> \o eventq \in Seq(Events)
  BY <1>1, Prepend
<1>3. ASSUME NEW r \in Regs, TimerFires(r) PROVE TypeOK'
  BY <1>1, <1>3 DEF TimerFires, TypeOK, bundleVars, table, delivery, clients, inputs
<1>4. CASE TimerPosts
  <2>1. firing \in Regs
    BY <1>4 DEF TimerPosts, TypeOK
  <2>2. eventq' \in Seq(Events) /\ firing' = None
    BY <1>1, <1>2, <1>4, <2>1, EventTypes DEF TimerPosts
  <2> QED
    BY <1>4, <2>2 DEF TimerPosts, TypeOK, bundleVars, table, regs, delivery, clients, inputs
<1>5. ASSUME NEW b \in Bundles, BundleTimeout(b) PROVE TypeOK'
  <2>1. eventq' \in Seq(Events)
    BY <1>2, <1>5, EventTypes DEF BundleTimeout
  <2> QED
    BY <1>5, <2>1 DEF BundleTimeout, TypeOK, table, regs, delivery, clients, inputs
<1>6. ASSUME NEW b \in Bundles, Arrive(b) PROVE TypeOK'
  <2>1. eventq' \in Seq(Events)
    BY <1>2, <1>6, EventTypes DEF Arrive
  <2> QED
    BY <1>6, <2>1 DEF Arrive, TypeOK, daemonVars, table, regs, ghosts, clients
<1>7. ASSUME NEW b \in Bundles, LifetimeEnds(b) PROVE TypeOK'
  BY <1>1, <1>7 DEF LifetimeEnds, TypeOK, daemonVars, table, regs, ghosts, clients
<1> QED
  BY <1>3, <1>4, <1>5, <1>6, <1>7

\* What a daemon that stops has stored: the bundles of before, and perhaps one
\* that it was to handle.
LEMMA Written ==
    ASSUME TypeOK, Crash
    PROVE  \E written \in SUBSET Bundles :
              /\ store' = store \cup written /\ gap' = gap \cup written
              /\ \A b \in written : Received(b, "new") \in ToSet(eventq)
<1>1. PICK written \in {{}, InHand} : store' = store \cup written /\ gap' = gap \cup written
  BY DEF Crash
<1>2. eventq \in Seq(Events)
  BY DEF TypeOK
<1>3. \A b \in InHand : Received(b, "new") \in ToSet(eventq)
  BY <1>2, ElementsOfTail DEF InHand
<1>4. InHand \subseteq Bundles
  BY DEF InHand
<1> QED
  BY <1>1, <1>3, <1>4

\* The events of a restarted daemon.
LEMMA Reloaded ==
    ASSUME TypeOK, Crash, store' \subseteq Bundles
    PROVE  \E s, t \in Seq(Events) :
              /\ loading' = s \o t
              /\ ToSet(s) = {RegEvent("reg_added", r, None) : r \in regstore}
              /\ ToSet(t) = {Received(b, "store") : b \in store'}
              /\ OnceIn(s, Events) /\ OnceIn(t, Events)
<1>1. /\ regstore \subseteq Regs /\ store' \subseteq Bundles
      /\ IsFiniteSet(Regs) /\ IsFiniteSet(Bundles)
  BY RegsAssumption, BundlesAssumption DEF TypeOK
<1>2. IsFiniteSet(regstore) /\ IsFiniteSet(store')
  BY <1>1, FS_Subset
<1> DEFINE rs == SetToSeq(regstore)
           bs == SetToSeq(store')
           s == [i \in DOMAIN rs |-> RegEvent("reg_added", rs[i], None)]
           t == [i \in DOMAIN bs |-> Received(bs[i], "store")]
<1>3. rs \in Seq(regstore) /\ ToSet(rs) = regstore /\ IsInjective(rs)
  BY <1>2, ElementsOfSetToSeq
<1>4. bs \in Seq(store') /\ ToSet(bs) = store' /\ IsInjective(bs)
  BY <1>2, ElementsOfSetToSeq
<1>5. loading' = s \o t
  BY DEF Crash
<1> HIDE DEF rs, bs
<1>6. /\ Len(rs) \in Nat /\ DOMAIN rs = 1..Len(rs) /\ \A i \in 1..Len(rs) : rs[i] \in regstore
      /\ Len(bs) \in Nat /\ DOMAIN bs = 1..Len(bs) /\ \A i \in 1..Len(bs) : bs[i] \in store'
  BY <1>3, <1>4
<1>7. s \in Seq(Events) /\ Len(s) = Len(rs)
  BY <1>1, <1>6, EventTypes
<1>8. t \in Seq(Events) /\ Len(t) = Len(bs)
  BY <1>1, <1>6, EventTypes
<1>9. ToSet(s) = {RegEvent("reg_added", rs[i], None) : i \in DOMAIN rs}
      /\ ToSet(rs) = {rs[i] : i \in DOMAIN rs}
  BY DEF ToSet
<1>10. ToSet(t) = {Received(bs[i], "store") : i \in DOMAIN bs}
       /\ ToSet(bs) = {bs[i] : i \in DOMAIN bs}
  BY DEF ToSet
<1>11. OnceIn(s, Events)
  <2>1. \A i, j \in 1..Len(rs) : s[i] = s[j] => rs[i] = rs[j]
    BY <1>6 DEF RegEvent
  <2> HIDE DEF s
  <2> QED
    BY <1>3, <1>6, <1>7, <2>1 DEF OnceIn, IsInjective
<1>12. OnceIn(t, Events)
  <2>1. \A i, j \in 1..Len(bs) : t[i] = t[j] => bs[i] = bs[j]
    BY <1>6 DEF Received
  <2> HIDE DEF t
  <2> QED
    BY <1>4, <1>6, <1>8, <2>1 DEF OnceIn, IsInjective
<1> HIDE DEF s, t
<1>13. ToSet(s) = {RegEvent("reg_added", r, None) : r \in regstore}
  BY <1>3, <1>9
<1>14. ToSet(t) = {Received(b, "store") : b \in store'}
  BY <1>4, <1>10
<1> QED
  BY <1>5, <1>7, <1>8, <1>11, <1>12, <1>13, <1>14

LEMMA Reloads ==
    ASSUME TypeOK, Crash, store' \subseteq Bundles
    PROVE  \A b \in store' : Received(b, "store") \in ToSet(loading')
<1>1. PICK s \in Seq(Events), t \in Seq(Events) :
         loading' = s \o t /\ ToSet(t) = {Received(b, "store") : b \in store'}
  BY Reloaded
<1>2. ToSet(t) \subseteq ToSet(loading')
  BY <1>1, ElementsOfConcat
<1> QED
  BY <1>1, <1>2

LEMMA CrashTypes == ASSUME TypeOK, Crash PROVE TypeOK'
<1>0. store' \subseteq Bundles /\ gap' \subseteq Bundles
  BY Written DEF TypeOK
<1>1. loading' \in Seq(Events)
  BY <1>0, Reloaded, Concat
<1>2. /\ <<>> \in Seq(Bundles) /\ <<>> \in Seq(Regs) /\ <<>> \in Seq(Events)
      /\ ToSet(<<>>) = {} /\ IsInjective(<<>>) /\ Idle \in Calls
  BY ElementsOfEmpty, InjectiveEmpty, CallTypes
<1>3. crashes' \in 0..MaxCrashes
  BY BoundAssumption DEF Crash, TypeOK
<1>4. /\ lists' \in [Regs -> Seq(Bundles)] /\ delivered' \in [Regs -> SUBSET Bundles]
      /\ bindings' \in [Clients -> Seq(Regs)] /\ call' \in [Clients -> Calls]
  BY <1>2 DEF Crash
<1>5. /\ pending' = <<>> /\ armed' = {} /\ UNCHANGED <<custody, regstore>>
      /\ reglist' = <<>> /\ active' = {} /\ expired' = regstore \ Timed
      /\ timers' = regstore \cap Timed /\ eventq' = <<>> /\ firing' = None
      /\ UNCHANGED <<arrived, over, made, owed, failed, taken>>
  BY DEF Crash, ghosts
<1> QED
  BY <1>0, <1>1, <1>2, <1>3, <1>4, <1>5 DEF TypeOK

LEMMA TypesKept == ASSUME TableInv, [Next]_vars PROVE TypeOK'
<1>1. TypeOK
  BY DEF TableInv
<1>2. CASE Daemon
  BY <1>1, <1>2, ReceivedTypes, BundleHandlerTypes, AddedTypes, TableTypes, InputTypes DEF Daemon
<1>3. CASE Crash
  BY <1>1, <1>3, CrashTypes
<1>4. ASSUME NEW c \in Clients, Call(c) \/ Continue(c) PROVE TypeOK'
  BY <1>1, <1>4, ClientStep, ClientTypes
<1>5. CASE UNCHANGED vars
  BY <1>1, <1>5
  DEF vars, bundleVars, table, regs, delivery, events, clients, inputs, TypeOK
<1> QED
  BY <1>1, <1>2, <1>3, <1>4, <1>5, InputTypes DEF Next

-----------------------------------------------------------------------------
(* The handlers of the daemon.                                             *)

Handler == \/ HandleReceived \/ HandleDelivered \/ HandleBundleExpired \/ HandleFree
           \/ HandleAdded \/ HandleRemoved \/ HandleExpired \/ HandleRegDelete

\* What a handler posts: the end of a bundle that nothing holds, the delivery
\* of a bundle that was dropped, the deletion of what it took from the table.
Posts(e) ==
    \/ e.type = "free" /\ e.bundle \in store' \ BundlesHeld(Rest)
    \/ e.type = "delivered" /\ e.bundle \in taken'
    \/ e.type = "reg_delete" /\ e.reg \in regstore \ regstore'

\* Bundles that the handler of the event e may put on a list.
Sources(e) == ToSet(pending) \cup (IF e.type = "received" THEN {e.bundle} ELSE {})

\* What the handler of the event e does.
Handles(e) ==
    /\ e = Event /\ Current(e.type)
    /\ \A x \in ToSet(eventq') : x \in ToSet(Rest) \/ Posts(x)
    /\ ToSet(Rest) \subseteq ToSet(eventq')
    /\ OnceIn(eventq', Firsts)
    /\ UNCHANGED <<arrived, over, made, crashes>>
    /\ \A c \in Clients :
          call'[c] = call[c] \/ (call'[c] = Idle /\ e.type \in Awaited /\ c = e.client)
    /\ ToSet(pending') \subseteq Sources(e)
    /\ store' = (store \cup (IF e.type = "received" THEN {e.bundle} ELSE {}))
                    \ (IF e.type = "free" THEN {e.bundle} ELSE {})
    /\ \A r \in Regs : /\ delivered'[r] \subseteq delivered[r] \cup Sources(e)
                       /\ ToSet(lists'[r]) \subseteq ToSet(lists[r]) \cup Sources(e)
    /\ \/ e.type # "reg_added" /\ UNCHANGED table
       \/ /\ e.type = "reg_added"
          /\ reglist' = Append(reglist, e.reg) /\ regstore' = regstore \cup {e.reg}
       \/ /\ e.type \in {"reg_removed", "reg_expired"} /\ e.reg \in ToSet(reglist)
          /\ reglist' = RemoveFirst(reglist, e.reg) /\ regstore' = regstore \ {e.reg}

\* The queue after a handler that posts some events and then ends references.
LEMMA HandlerQueue ==
    ASSUME TableInv, NEW type, Current(type), NEW ns \in Seq(Events),
           Post(Rest \o ns) \/ Post(ns \o Rest), store' \subseteq Bundles,
           \A e \in ToSet(ns) : e \notin Firsts /\ Posts(e)
    PROVE  /\ \A x \in ToSet(eventq') : x \in ToSet(Rest) \/ Posts(x)
           /\ ToSet(Rest) \subseteq ToSet(eventq')
           /\ OnceIn(eventq', Firsts)
<1>1. TypeOK /\ EachOnce
  BY DEF TableInv
<1>2. Rest \in Seq(Events) /\ OnceIn(Rest, Firsts)
  BY <1>1, CurrentEvent
<1>3. PICK q \in Seq(Events) : (q = Rest \o ns \/ q = ns \o Rest) /\ Post(q)
  BY <1>2, Concat
<1>4. ToSet(q) = ToSet(Rest) \cup ToSet(ns)
  <2>1. CASE q = Rest \o ns
    BY <1>2, <2>1, ElementsOfConcat
  <2>2. CASE q = ns \o Rest
    BY <1>2, <2>2, ElementsOfConcat
  <2> QED
    BY <1>3, <2>1, <2>2
<1>5. OnceIn(q, Firsts)
  <2>1. ToSet(ns) \cap Firsts = {}
    OBVIOUS
  <2> QED
    BY <1>2, <1>3, <2>1, OnceConcat, OncePrefix
<1>6. /\ ToSet(eventq') =
            ToSet(q) \cup {BundleEvent("free", b) : b \in store' \ BundlesHeld(q)}
      /\ OnceIn(eventq', Firsts)
  BY <1>3, <1>5, Posted
<1>7. BundlesHeld(Rest) \subseteq BundlesHeld(q)
  BY <1>4 DEF BundlesHeld, BundlesOf
<1>8. \A b \in store' \ BundlesHeld(q) : Posts(BundleEvent("free", b))
  BY <1>7 DEF Posts, BundleEvent
<1> QED
  BY <1>4, <1>6, <1>8

LEMMA ReceivedHandles == ASSUME TableInv, HandleReceived PROVE \E e \in Events : Handles(e)
<1>1. TypeOK /\ EachOnce /\ Current("received")
  BY DEF TableInv, HandleReceived
<1>2. PICK e \in Events : e = Event /\ e.type = "received"
  BY <1>1, CurrentEvent
<1>3. PICK b \in Bundles : b = e.bundle /\ b \notin ToSet(pending)
  BY <1>1, <1>2, ReceivedBundle
<1>4. PICK acc : acc = IF Event.source = "store" THEN {} ELSE {b} \cap Custodial
  OBVIOUS
<1> DEFINE matching == SelectIn(reglist, Matches[b])
           pairs == [i \in DOMAIN matching |-> <<matching[i], b>>]
<1>5. /\ pairs \in Seq(Pairs)
      /\ ToSet(pairs) = {<<r, b>> : r \in ToSet(reglist) \cap Matches[b]}
  BY <1>1, MatchingPairs
<1>6. /\ store' = store \cup {b}
      /\ \/ /\ UNCHANGED delivery
            /\ TryToDelete(b, Append(pending, b), custody)
            /\ Post(Rest)
         \/ /\ Deliver(pairs)
            /\ TryToDelete(b, Append(pending, b), custody \cup acc)
            /\ Post(Rest \o DropEvents(pairs))
      /\ UNCHANGED <<table, regs, clients, inputs>>
  BY <1>2, <1>3, <1>4 DEF HandleReceived
<1> HIDE DEF matching, pairs
<1>7. /\ Append(pending, b) \in Seq(Bundles) /\ IsInjective(Append(pending, b))
      /\ ToSet(Append(pending, b)) = ToSet(pending) \cup {b}
  BY <1>1, <1>3, ElementsOfAppend, InjectiveAppend DEF TypeOK
<1>8. ToSet(pending') \subseteq ToSet(pending) \cup {b}
  <2>1. PICK held : TryToDelete(b, Append(pending, b), held)
    BY <1>6
  <2> QED
    BY <1>1, <1>7, <2>1, TryToDeleteIs
<1>9. store' \subseteq Bundles
  BY <1>1, <1>6 DEF TypeOK
<1>10. \E ns \in Seq(Events) : /\ Post(Rest \o ns)
                               /\ \A x \in ToSet(ns) : x \notin Firsts /\ Posts(x)
  <2>1. CASE UNCHANGED delivery /\ Post(Rest)
    <3>1. Rest \in Seq(Events)
      BY <1>1, CurrentEvent
    <3>2. Rest \o <<>> = Rest /\ <<>> \in Seq(Events) /\ ToSet(<<>>) = {}
      BY <3>1, ElementsOfEmpty
    <3> QED
      BY <2>1, <3>2
  <2>2. CASE Deliver(pairs) /\ Post(Rest \o DropEvents(pairs))
    <3>1. /\ DropEvents(pairs) \in Seq(Events)
          /\ \A x \in ToSet(DropEvents(pairs)) :
                \E p \in ToSet(pairs) \cap Dropped : x = Delivered(p[2], p[1])
      BY <1>5, DropsPosted
    <3>2. taken' = taken \cup {p[2] : p \in ToSet(pairs) \cap Dropped}
      BY <2>2 DEF Deliver
    <3>3. ASSUME NEW p \in ToSet(pairs) \cap Dropped
          PROVE  /\ Delivered(p[2], p[1]) \notin Firsts
                 /\ Posts(Delivered(p[2], p[1]))
      BY <3>2 DEF Delivered, Firsts, Posts
    <3> QED
      BY <2>2, <3>1, <3>3
  <2> QED
    BY <1>6, <2>1, <2>2
<1>11. /\ \A x \in ToSet(eventq') : x \in ToSet(Rest) \/ Posts(x)
       /\ ToSet(Rest) \subseteq ToSet(eventq') /\ OnceIn(eventq', Firsts)
  <2>1. PICK ns \in Seq(Events) : /\ Post(Rest \o ns)
                                  /\ \A x \in ToSet(ns) : x \notin Firsts /\ Posts(x)
    BY <1>10
  <2> QED
    BY <1>1, <1>9, <2>1, HandlerQueue
<1>12. \A r \in Regs : /\ delivered'[r] \subseteq delivered[r] \cup {b}
                       /\ ToSet(lists'[r]) \subseteq ToSet(lists[r]) \cup {b}
  <2>1. CASE UNCHANGED delivery
    BY <2>1 DEF delivery
  <2>2. CASE Deliver(pairs)
    <3>1. \A r \in Regs :
             /\ delivered'[r] = delivered[r] \cup {d \in Bundles : <<r, d>> \in ToSet(pairs)}
             /\ ToSet(lists'[r]) = ToSet(lists[r]) \cup
                                     {d \in Bundles : <<r, d>> \in ToSet(pairs) \cap Queued}
      BY <1>1, <1>5, <2>2, DeliverIs
    <3>2. \A r \in Regs, d \in Bundles : <<r, d>> \in ToSet(pairs) => d = b
      BY <1>5
    <3> QED
      BY <3>1, <3>2
  <2> QED
    BY <1>6, <2>1, <2>2
<1>13. Handles(e)
  <2>1. Sources(e) = ToSet(pending) \cup {b}
    BY <1>2, <1>3 DEF Sources
  <2>2. store' = (store \cup (IF e.type = "received" THEN {e.bundle} ELSE {}))
                    \ (IF e.type = "free" THEN {e.bundle} ELSE {})
    BY <1>2, <1>3, <1>6
  <2>3. /\ UNCHANGED table /\ UNCHANGED <<arrived, over, made, crashes>>
        /\ \A c \in Clients : call'[c] = call[c]
    BY <1>6 DEF inputs, clients
  <2> QED
    BY <1>1, <1>2, <1>8, <1>11, <1>12, <2>1, <2>2, <2>3 DEF Handles
<1> QED
  BY <1>13

LEMMA BundleHandles ==
    ASSUME TableInv, HandleDelivered \/ HandleBundleExpired \/ HandleFree
    PROVE  \E e \in Events : Handles(e)
<1>1. PICK t \in {"delivered", "bundle_expired", "free"} : Current(t) /\
         \/ t = "delivered" /\ HandleDelivered
         \/ t = "bundle_expired" /\ HandleBundleExpired
         \/ t = "free" /\ HandleFree
  BY DEF HandleDelivered, HandleBundleExpired, HandleFree
<1>2. TypeOK /\ EachOnce
  BY DEF TableInv
<1>3. Rest \in Seq(Events) /\ Event \in Events /\ Event.type = t
  BY <1>1, <1>2, CurrentEvent
<1>4. PICK e \in Events : e = Event /\ e.type = t
  BY <1>3
<1>5. PICK b \in Bundles : b = e.bundle
  BY <1>1, <1>4, EventFields
<1>6. pending \in Seq(Bundles) /\ IsInjective(pending)
  BY <1>2 DEF TypeOK
<1>7. ToSet(pending') \subseteq ToSet(pending)
  <2>1. CASE HandleDelivered
    BY <1>2, <1>4, <1>5, <1>6, <2>1, TryToDeleteIs DEF HandleDelivered
  <2>2. CASE HandleBundleExpired
    BY <1>4, <1>5, <1>6, <2>2, InjectiveRemoveFirst DEF HandleBundleExpired
  <2>3. CASE HandleFree
    BY <2>3 DEF HandleFree
  <2> QED
    BY <1>1, <2>1, <2>2, <2>3
<1>8. /\ store' = store \ (IF e.type = "free" THEN {e.bundle} ELSE {})
      /\ Post(Rest)
      /\ UNCHANGED <<table, regs, delivery, clients, inputs>>
  BY <1>1, <1>4 DEF HandleDelivered, HandleBundleExpired, HandleFree
<1>9. store' \subseteq Bundles
  BY <1>2, <1>8 DEF TypeOK
<1>10. Rest \o <<>> = Rest /\ <<>> \in Seq(Events) /\ ToSet(<<>>) = {}
  BY <1>3, ElementsOfEmpty
<1>11. /\ \A x \in ToSet(eventq') : x \in ToSet(Rest) \/ Posts(x)
       /\ ToSet(Rest) \subseteq ToSet(eventq') /\ OnceIn(eventq', Firsts)
  BY <1>1, <1>8, <1>9, <1>10, HandlerQueue
<1>12. Handles(e)
  <2>1. Sources(e) = ToSet(pending) /\ e.type # "received" /\ e.type # "reg_added"
    BY <1>4 DEF Sources
  <2>2. \A r \in Regs : /\ delivered'[r] \subseteq delivered[r] \cup Sources(e)
                        /\ ToSet(lists'[r]) \subseteq ToSet(lists[r]) \cup Sources(e)
    BY <1>8 DEF delivery
  <2>3. /\ UNCHANGED table /\ UNCHANGED <<arrived, over, made, crashes>>
        /\ \A c \in Clients : call'[c] = call[c]
    BY <1>8 DEF inputs, clients
  <2>4. Current(e.type)
    BY <1>1, <1>4
  <2> QED
    BY <1>4, <1>7, <1>8, <1>11, <2>1, <2>2, <2>3, <2>4 DEF Handles
<1> QED
  BY <1>12

LEMMA NotifyIdles ==
    ASSUME TypeOK, NEW c, Notify(c)
    PROVE  \A d \in Clients : call'[d] = call[d] \/ (call'[d] = Idle /\ d = c)
BY DEF Notify, TypeOK

LEMMA AddedHandles == ASSUME TableInv, HandleAdded PROVE \E e \in Events : Handles(e)
<1>1. TypeOK /\ EachOnce /\ Current("reg_added")
  BY DEF TableInv, HandleAdded
<1>2. PICK e \in Events : e = Event /\ e.type = "reg_added"
  BY <1>1, CurrentEvent
<1>3. PICK r \in Regs : r = e.reg
  BY <1>2, EventFields
<1>4. /\ reglist' = Append(reglist, r) /\ regstore' = regstore \cup {r}
      /\ Deliver(Waiting(r)) /\ Post(Rest \o DropEvents(Waiting(r)))
      /\ Notify(Event.client)
      /\ UNCHANGED <<bundleVars, regs, bindings, inputs>>
  BY <1>2, <1>3 DEF HandleAdded
<1>5. /\ Waiting(r) \in Seq(Pairs)
      /\ ToSet(Waiting(r)) = {<<r, b>> : b \in {d \in ToSet(pending) : r \in Matches[d]}}
  BY <1>1, WaitingPairs
<1>6. store' \subseteq Bundles
  BY <1>1, <1>4 DEF TypeOK, bundleVars
<1>7. /\ DropEvents(Waiting(r)) \in Seq(Events)
      /\ \A x \in ToSet(DropEvents(Waiting(r))) : x \notin Firsts /\ Posts(x)
  <2>1. /\ DropEvents(Waiting(r)) \in Seq(Events)
        /\ \A x \in ToSet(DropEvents(Waiting(r))) :
              \E p \in ToSet(Waiting(r)) \cap Dropped : x = Delivered(p[2], p[1])
    BY <1>5, DropsPosted
  <2>2. taken' = taken \cup {p[2] : p \in ToSet(Waiting(r)) \cap Dropped}
    BY <1>4 DEF Deliver
  <2>3. ASSUME NEW p \in ToSet(Waiting(r)) \cap Dropped
        PROVE  /\ Delivered(p[2], p[1]) \notin Firsts
               /\ Posts(Delivered(p[2], p[1]))
    BY <2>2 DEF Delivered, Firsts, Posts
  <2> QED
    BY <2>1, <2>3
<1>8. /\ \A x \in ToSet(eventq') : x \in ToSet(Rest) \/ Posts(x)
      /\ ToSet(Rest) \subseteq ToSet(eventq') /\ OnceIn(eventq', Firsts)
  BY <1>1, <1>4, <1>6, <1>7, HandlerQueue
<1>9. Handles(e)
  <2>1. Sources(e) = ToSet(pending) /\ e.type # "received" /\ e.type # "free"
    BY <1>2 DEF Sources
  <2>2. \A s \in Regs : /\ delivered'[s] \subseteq delivered[s] \cup Sources(e)
                        /\ ToSet(lists'[s]) \subseteq ToSet(lists[s]) \cup Sources(e)
    <3>1. \A s \in Regs :
             /\ delivered'[s] = delivered[s] \cup
                                 {d \in Bundles : <<s, d>> \in ToSet(Waiting(r))}
             /\ ToSet(lists'[s]) = ToSet(lists[s]) \cup
                                 {d \in Bundles : <<s, d>> \in ToSet(Waiting(r)) \cap Queued}
      BY <1>1, <1>4, <1>5, DeliverIs
    <3>2. \A s \in Regs, d \in Bundles : <<s, d>> \in ToSet(Waiting(r)) => d \in Sources(e)
      BY <1>5, <2>1
    <3> QED
      BY <3>1, <3>2
  <2>3. /\ UNCHANGED <<pending, store>> /\ UNCHANGED <<arrived, over, made, crashes>>
    BY <1>4 DEF inputs, bundleVars
  <2>4. \A c \in Clients :
           call'[c] = call[c] \/ (call'[c] = Idle /\ e.type \in Awaited /\ c = e.client)
    <3>1. Notify(e.client)
      BY <1>2, <1>4
    <3> QED
      BY <1>1, <1>2, <3>1, NotifyIdles DEF Awaited
  <2> QED
    BY <1>1, <1>2, <1>3, <1>4, <1>8, <2>1, <2>2, <2>3, <2>4 DEF Handles
<1> QED
  BY <1>9

LEMMA TableHandles ==
    ASSUME TableInv, HandleRemoved \/ HandleExpired \/ HandleRegDelete
    PROVE  \E e \in Events : Handles(e)
<1>1. TypeOK /\ EachOnce
  BY DEF TableInv
<1>2. PICK r \in Regs, ns \in Seq(Events), type \in {"reg_removed", "reg_expired", "reg_delete"} :
         /\ Current(type) /\ r = Event.reg
         /\ ToSet(ns) \subseteq {RegEvent("reg_delete", r, None)}
         /\ Post(Rest \o ns) \/ Post(ns \o Rest)
         /\ UNCHANGED <<bundleVars, active, bindings, inputs, firing, delivered, taken>>
         /\ \/ ns = <<>> /\ UNCHANGED <<table, owed>>
            \/ /\ r \in ToSet(reglist) /\ type # "reg_delete"
               /\ reglist' = RemoveFirst(reglist, r) /\ regstore' = regstore \ {r}
               /\ owed' = {p \in owed : p[1] # r}
         /\ \/ UNCHANGED lists
            \/ lists' = [lists EXCEPT ![r] = <<>>] /\ type = "reg_delete" /\ UNCHANGED owed
         /\ UNCHANGED call \/ (type = "reg_removed" /\ Notify(Event.client))
  BY TableHandler
<1>3. PICK e \in Events : e = Event /\ e.type = type
  BY <1>1, <1>2, CurrentEvent
<1>4. store' \subseteq Bundles
  BY <1>1, <1>2 DEF TypeOK, bundleVars
<1>5. \A x \in ToSet(ns) : x \notin Firsts /\ Posts(x)
  <2>1. CASE ns = <<>>
    BY <2>1, ElementsOfEmpty
  <2>2. CASE r \in ToSet(reglist) /\ regstore' = regstore \ {r}
    <3>1. ToSet(reglist) \subseteq regstore
      BY DEF TableInv, AddedIsNew
    <3> QED
      BY <1>2, <2>2, <3>1 DEF RegEvent, Firsts, Posts
  <2> QED
    BY <1>2, <2>1, <2>2
<1>6. /\ \A x \in ToSet(eventq') : x \in ToSet(Rest) \/ Posts(x)
      /\ ToSet(Rest) \subseteq ToSet(eventq') /\ OnceIn(eventq', Firsts)
  BY <1>2, <1>4, <1>5, HandlerQueue
<1>7. Handles(e)
  <2>1. Sources(e) = ToSet(pending) /\ e.type # "received" /\ e.type # "free"
        /\ e.type # "reg_added"
    BY <1>2, <1>3 DEF Sources
  <2>2. \A s \in Regs : ToSet(lists'[s]) \subseteq ToSet(lists[s])
    BY <1>1, <1>2, ElementsOfEmpty DEF TypeOK
  <2>3. /\ UNCHANGED <<pending, store, delivered>>
        /\ UNCHANGED <<arrived, over, made, crashes>>
    BY <1>2 DEF inputs, bundleVars
  <2>4. \A c \in Clients :
           call'[c] = call[c] \/ (call'[c] = Idle /\ e.type \in Awaited /\ c = e.client)
    <3>1. CASE UNCHANGED call
      BY <3>1
    <3>2. CASE e.type = "reg_removed" /\ Notify(e.client)
      BY <1>1, <3>2, NotifyIdles DEF Awaited
    <3> QED
      BY <1>2, <1>3, <3>1, <3>2
  <2>5. /\ UNCHANGED table \/ /\ e.type \in {"reg_removed", "reg_expired"}
                              /\ e.reg \in ToSet(reglist)
                              /\ reglist' = RemoveFirst(reglist, e.reg)
                              /\ regstore' = regstore \ {e.reg}
    BY <1>2, <1>3
  <2> QED
    BY <1>2, <1>3, <1>6, <2>1, <2>2, <2>3, <2>4, <2>5 DEF Handles
<1> QED
  BY <1>7

LEMMA HandlerStep == ASSUME TableInv, Handler PROVE \E e \in Events : Handles(e)
BY ReceivedHandles, BundleHandles, AddedHandles, TableHandles DEF Handler

\* Of the event that is handled, where it was and that it was there once.
LEMMA HandledEvent ==
    ASSUME TableInv, NEW e \in Events, Handles(e)
    PROVE  /\ ToSet(Rest) \subseteq ToSet(eventq) /\ ToSet(loading') \subseteq ToSet(loading)
           /\ ToSet(eventq) \subseteq Events /\ ToSet(loading) \subseteq Events
           /\ e.type = "received" =>
                 /\ e.bundle \in Bundles /\ e.bundle \notin ToSet(pending)
                 /\ \A x \in ToSet(Rest) \cup ToSet(loading') :
                       x.type = "received" => x.bundle # e.bundle
           /\ \/ /\ loading = <<>> /\ loading' = <<>>
                 /\ e \in ToSet(eventq) /\ ToSet(eventq) = {e} \cup ToSet(Rest)
                 /\ e \in Firsts => e \notin ToSet(Rest)
              \/ /\ loading # <<>> /\ loading' = Tail(loading) /\ Rest = eventq
                 /\ e = Head(loading)
                 /\ e \in ToSet(loading) /\ ToSet(loading) = {e} \cup ToSet(loading')
                 /\ e \in Firsts => e \notin ToSet(loading')
<1>1. TypeOK /\ EachOnce
  BY DEF TableInv
<1>2. e = Event /\ Current(e.type)
  BY DEF Handles
<1>3. ToSet(eventq) \subseteq Events /\ ToSet(loading) \subseteq Events
  BY <1>1, ElementsOf DEF TypeOK
<1>4. e.type = "received" =>
         /\ e.bundle \in Bundles /\ e.bundle \notin ToSet(pending)
         /\ \A x \in ToSet(Rest) \cup ToSet(loading') :
               x.type = "received" => x.bundle # e.bundle
  BY <1>2, ReceivedBundle
<1> QED
  BY <1>1, <1>2, <1>3, <1>4, CurrentEvent

LEMMA HandlerKeepsReceived ==
    ASSUME TableInv, NEW e \in Events, Handles(e) PROVE ReceivedIsNew'
<1>1. /\ ReceivedIsNew /\ FreeIsUnheld /\ Restarting
      /\ ToSet(Rest) \subseteq ToSet(eventq) /\ ToSet(loading') \subseteq ToSet(loading)
      /\ e.type = "received" =>
            /\ e.bundle \notin ToSet(pending)
            /\ \A x \in ToSet(Rest) \cup ToSet(loading') :
                  x.type = "received" => x.bundle # e.bundle
      /\ \/ loading' = <<>> /\ e \in ToSet(eventq) /\ loading = <<>>
         \/ e \in ToSet(loading) /\ Rest = eventq /\ loading # <<>>
  BY HandledEvent DEF TableInv
<1>2. /\ \A x \in ToSet(eventq') : x \in ToSet(Rest) \/ Posts(x)
      /\ arrived' = arrived
      /\ ToSet(pending') \subseteq Sources(e)
      /\ store' = (store \cup (IF e.type = "received" THEN {e.bundle} ELSE {}))
                    \ (IF e.type = "free" THEN {e.bundle} ELSE {})
      /\ \A r \in Regs : delivered'[r] \subseteq delivered[r] \cup Sources(e)
  BY DEF Handles
<1>3. e.type = "received" => e.bundle \in arrived
  BY <1>1 DEF ReceivedIsNew
<1>4. e.type = "free" => e.bundle \notin ToSet(pending) /\ loading' = <<>>
  BY <1>1 DEF FreeIsUnheld, Restarting
<1>5. ToSet(pending') \subseteq store' /\ store' \subseteq arrived'
  BY <1>1, <1>2, <1>3, <1>4 DEF ReceivedIsNew, Sources
<1>6. ASSUME NEW x \in ToSet(eventq'), x.type = "received"
      PROVE  x.source = "new" /\ x.bundle \in arrived' \ store'
  <2>1. x \in ToSet(Rest)
    BY <1>2, <1>6 DEF Posts
  <2> QED
    BY <1>1, <1>2, <1>6, <2>1 DEF ReceivedIsNew
<1>7. ASSUME NEW x \in ToSet(loading'), x.type = "received"
      PROVE  /\ x.source = "store" /\ x.bundle \in store' \ ToSet(pending')
             /\ \A r \in Regs : x.bundle \notin delivered'[r]
  <2>1. /\ x.source = "store" /\ x.bundle \in store \ ToSet(pending)
        /\ \A r \in Regs : x.bundle \notin delivered[r]
    BY <1>1, <1>7 DEF ReceivedIsNew
  <2>2. e.type = "received" => x.bundle # e.bundle
    BY <1>1, <1>7
  <2>3. e.type # "free"
    BY <1>4, <1>7, ElementsOfEmpty
  <2> QED
    BY <1>2, <2>1, <2>2, <2>3 DEF Sources
<1> QED
  BY <1>5, <1>6, <1>7 DEF ReceivedIsNew

LEMMA HandlerKeepsAdded ==
    ASSUME TableInv, NEW e \in Events, Handles(e) PROVE AddedIsNew'
<1>1. /\ AddedIsNew /\ Restarting /\ TypeOK
      /\ ToSet(Rest) \subseteq ToSet(eventq) /\ ToSet(loading') \subseteq ToSet(loading)
      /\ ToSet(eventq) \subseteq Events /\ ToSet(loading) \subseteq Events
      /\ \/ loading = <<>> /\ e \in ToSet(eventq) /\ (e \in Firsts => e \notin ToSet(Rest))
            /\ loading' = <<>>
         \/ e \in ToSet(loading) /\ Rest = eventq /\ (e \in Firsts => e \notin ToSet(loading'))
  BY HandledEvent DEF TableInv
<1>2. /\ \A x \in ToSet(eventq') : x \in ToSet(Rest) \/ Posts(x)
      /\ made' = made
      /\ \/ e.type # "reg_added" /\ UNCHANGED table
         \/ /\ e.type = "reg_added"
            /\ reglist' = Append(reglist, e.reg) /\ regstore' = regstore \cup {e.reg}
         \/ /\ e.type \in {"reg_removed", "reg_expired"} /\ e.reg \in ToSet(reglist)
            /\ reglist' = RemoveFirst(reglist, e.reg) /\ regstore' = regstore \ {e.reg}
  BY DEF Handles
<1>3. reglist \in Seq(Regs) /\ IsInjective(reglist)
  BY <1>1 DEF TypeOK
<1>4. e.type = "reg_added" =>
         /\ e.reg \in Regs /\ e.reg \in made /\ e \in Firsts
         /\ e = RegEvent("reg_added", e.reg, e.client)
         /\ ToSet(reglist') = ToSet(reglist) \cup {e.reg}
  <2> SUFFICES ASSUME e.type = "reg_added"
               PROVE  /\ e.reg \in Regs /\ e.reg \in made /\ e \in Firsts
                      /\ e = RegEvent("reg_added", e.reg, e.client)
                      /\ ToSet(reglist') = ToSet(reglist) \cup {e.reg}
    OBVIOUS
  <2>1. /\ e.reg \in Regs /\ e \in Firsts
        /\ e = RegEvent("reg_added", e.reg, e.client)
    BY EventFields DEF Firsts
  <2>2. e.reg \in made
    BY <1>1 DEF AddedIsNew
  <2>3. reglist' = Append(reglist, e.reg)
    BY <1>2
  <2>4. ToSet(Append(reglist, e.reg)) = ToSet(reglist) \cup {e.reg}
    BY <1>3, <2>1, ElementsOfAppend
  <2> QED
    BY <2>1, <2>2, <2>3, <2>4
<1>5. CASE e.type = "reg_added"
  <2>1. regstore' = regstore \cup {e.reg} /\ ToSet(reglist') = ToSet(reglist) \cup {e.reg}
    BY <1>2, <1>4, <1>5
  <2>2. ToSet(reglist') \subseteq regstore' /\ regstore' \subseteq made'
    BY <1>1, <1>2, <1>4, <1>5, <2>1 DEF AddedIsNew
  <2>3. ASSUME NEW x \in ToSet(eventq'), x.type = "reg_added"
        PROVE  x \in ToSet(eventq) /\ x.reg # e.reg /\ x.reg \in made \ regstore
    <3>1. x \in ToSet(Rest)
      BY <1>2, <2>3 DEF Posts
    <3>2. x.reg \in made \ regstore
      BY <1>1, <2>3, <3>1 DEF AddedIsNew
    <3>3. CASE e \in ToSet(eventq) /\ e \notin ToSet(Rest)
      BY <1>1, <1>5, <2>3, <3>1, <3>2, <3>3 DEF AddedIsNew
    <3>4. CASE e \in ToSet(loading)
      BY <1>1, <1>5, <3>1, <3>2, <3>4 DEF AddedIsNew
    <3> QED
      BY <1>1, <1>4, <1>5, <3>3, <3>4
  <2>4. ASSUME NEW x \in ToSet(eventq'), x.type = "reg_delete"
        PROVE  x \in ToSet(eventq) /\ x.reg # e.reg /\ x.reg \in made \ regstore
    <3>1. x \in ToSet(Rest)
      BY <1>2, <2>1, <2>4 DEF Posts
    <3>2. x.reg \in made \ regstore
      BY <1>1, <2>4, <3>1 DEF AddedIsNew
    <3>3. CASE e \in ToSet(eventq)
      BY <1>1, <1>5, <2>4, <3>1, <3>2, <3>3 DEF AddedIsNew
    <3>4. CASE e \in ToSet(loading)
      BY <1>1, <1>5, <3>1, <3>2, <3>4 DEF AddedIsNew
    <3> QED
      BY <1>1, <3>3, <3>4
  <2>5. ASSUME NEW x \in ToSet(loading'), x.type = "reg_added"
        PROVE  x.client = None /\ x.reg \in regstore' \ ToSet(reglist')
    <3>1. x \in ToSet(loading) /\ x.client = None /\ x.reg \in regstore \ ToSet(reglist)
      BY <1>1, <2>5 DEF AddedIsNew
    <3>2. e \in ToSet(loading) /\ e \notin ToSet(loading')
      BY <1>1, <1>4, <1>5, <3>1, ElementsOfEmpty, <2>5
    <3>3. e.client = None /\ x = RegEvent("reg_added", x.reg, x.client)
      BY <1>1, <1>5, <2>5, <3>1, <3>2, EventFields DEF AddedIsNew
    <3>4. x.reg # e.reg
      BY <1>4, <1>5, <2>5, <3>1, <3>2, <3>3
    <3> QED
      BY <2>1, <3>1, <3>4
  <2> QED
    BY <1>1, <1>2, <2>1, <2>2, <2>3, <2>4, <2>5 DEF AddedIsNew
<1>6. CASE e.type # "reg_added"
  <2>1. /\ ToSet(reglist') \subseteq ToSet(reglist)
        /\ regstore' \subseteq regstore
        /\ ToSet(reglist') \subseteq regstore'
        /\ \A r \in regstore \ regstore' : r \in ToSet(reglist)
    <3>1. CASE UNCHANGED table
      BY <1>1, <3>1 DEF table, AddedIsNew
    <3>2. CASE /\ e.reg \in ToSet(reglist)
               /\ reglist' = RemoveFirst(reglist, e.reg) /\ regstore' = regstore \ {e.reg}
      <4>1. ToSet(reglist') = ToSet(reglist) \ {e.reg}
        BY <1>3, <3>2, InjectiveRemoveFirst
      <4> QED
        BY <1>1, <3>2, <4>1 DEF AddedIsNew
    <3> QED
      BY <1>2, <1>6, <3>1, <3>2
  <2>2. ASSUME NEW x \in ToSet(eventq'), x.type = "reg_added"
        PROVE  x \in ToSet(eventq)
    BY <1>1, <1>2, <2>2 DEF Posts
  <2>3. ASSUME NEW x \in ToSet(eventq'), x.type = "reg_delete"
        PROVE  x \in ToSet(eventq) \/ x.reg \in regstore \ regstore'
    BY <1>1, <1>2, <2>3 DEF Posts
  <2>4. \A x \in ToSet(eventq') :
           x.type \in {"reg_added", "reg_delete"} => x.reg \in made' \ regstore'
    BY <1>1, <1>2, <2>1, <2>2, <2>3 DEF AddedIsNew
  <2>5. ASSUME NEW x \in ToSet(eventq'), NEW y \in ToSet(eventq'), x.type = "reg_added",
               y.type \in {"reg_added", "reg_delete"}, x.reg = y.reg
        PROVE  x = y
    <3>1. x \in ToSet(eventq) /\ x.reg \notin regstore
      BY <1>1, <2>2, <2>5 DEF AddedIsNew
    <3>2. y \in ToSet(eventq)
      BY <2>2, <2>3, <2>5, <3>1
    <3> QED
      BY <1>1, <2>5, <3>1, <3>2 DEF AddedIsNew
  <2>6. ASSUME NEW x \in ToSet(loading'), x.type = "reg_added"
        PROVE  x.client = None /\ x.reg \in regstore' \ ToSet(reglist')
    BY <1>1, <2>1, <2>6 DEF AddedIsNew
  <2>7. regstore' \subseteq made'
    BY <1>1, <1>2, <2>1 DEF AddedIsNew
  <2> QED
    BY <2>1, <2>4, <2>5, <2>6, <2>7 DEF AddedIsNew
<1> QED
  BY <1>5, <1>6

LEMMA HandlerKeepsOnce ==
    ASSUME TableInv, NEW e \in Events, Handles(e) PROVE EachOnce'
<1>1. OnceIn(eventq', Firsts) /\ Current(e.type) /\ TypeOK /\ EachOnce
  BY DEF Handles, TableInv
<1>2. OnceIn(loading', Firsts)
  BY <1>1, CurrentEvent
<1>3. Firsts' = Firsts
  BY DEF Firsts, Events
<1> QED
  BY <1>1, <1>2, <1>3 DEF EachOnce, OnceIn

LEMMA HandlerKeepsRestarting ==
    ASSUME TableInv, NEW e \in Events, Handles(e) PROVE Restarting'
<1>1. /\ Restarting /\ TypeOK
      /\ ToSet(loading') \subseteq ToSet(loading)
      /\ \/ loading = <<>> /\ loading' = <<>>
         \/ /\ loading # <<>> /\ loading' = Tail(loading)
            /\ ToSet(loading) = {e} \cup ToSet(loading')
  BY HandledEvent DEF TableInv
<1>2. \/ e.type # "reg_added" /\ UNCHANGED table
      \/ /\ e.type = "reg_added"
         /\ reglist' = Append(reglist, e.reg) /\ regstore' = regstore \cup {e.reg}
      \/ /\ e.type \in {"reg_removed", "reg_expired"} /\ e.reg \in ToSet(reglist)
         /\ reglist' = RemoveFirst(reglist, e.reg) /\ regstore' = regstore \ {e.reg}
  BY DEF Handles
<1>3. reglist \in Seq(Regs) /\ IsInjective(reglist) /\ loading \in Seq(Events)
  BY <1>1 DEF TypeOK
<1>4. ASSUME NEW r \in regstore'
      PROVE  r \in ToSet(reglist') \/ RegEvent("reg_added", r, None) \in ToSet(loading')
  <2> DEFINE a == RegEvent("reg_added", r, None)
  <2>1. CASE e.type = "reg_added"
    <3>1. reglist' = Append(reglist, e.reg) /\ regstore' = regstore \cup {e.reg}
      BY <1>2, <2>1
    <3>2. e.reg \in Regs
      BY <2>1, EventFields
    <3>3. ToSet(reglist') = ToSet(reglist) \cup {e.reg}
      BY <1>3, <3>1, <3>2, ElementsOfAppend
    <3>4. a = e => r = e.reg
      BY DEF RegEvent
    <3>5. r # e.reg => r \in ToSet(reglist) \/ a \in ToSet(loading)
      BY <1>1, <1>4, <3>1 DEF Restarting
    <3> HIDE DEF a
    <3>6. a \in ToSet(loading) => a = e \/ a \in ToSet(loading')
      BY <1>1
    <3> QED
      BY <3>3, <3>4, <3>5, <3>6 DEF a
  <2>2. CASE e.type # "reg_added"
    <3>1. r \in regstore /\ (r \in ToSet(reglist) => r \in ToSet(reglist'))
      <4>1. CASE UNCHANGED table
        BY <1>4, <4>1 DEF table
      <4>2. CASE reglist' = RemoveFirst(reglist, e.reg) /\ regstore' = regstore \ {e.reg}
        BY <1>3, <1>4, <4>2, InjectiveRemoveFirst
      <4> QED
        BY <1>2, <2>2, <4>1, <4>2
    <3>2. r \in ToSet(reglist) \/ a \in ToSet(loading)
      BY <1>1, <3>1 DEF Restarting
    <3>3. a # e
      BY <2>2 DEF RegEvent
    <3> HIDE DEF a
    <3>4. a \in ToSet(loading) => a \in ToSet(loading')
      BY <1>1, <3>3
    <3> QED
      BY <3>1, <3>2, <3>4 DEF a
  <2> QED
    BY <2>1, <2>2
<1>5. ASSUME NEW i \in 1..Len(loading'), NEW j \in 1..Len(loading'), i < j,
             loading'[i].type = "received"
      PROVE  loading'[j].type = "received"
  <2>1. loading # <<>> /\ loading' = Tail(loading)
    <3>1. Len(<<>>) = 0
      OBVIOUS
    <3> QED
      BY <1>1, <1>5, <3>1
  <2>2. /\ i + 1 \in 1..Len(loading) /\ j + 1 \in 1..Len(loading) /\ i + 1 < j + 1
        /\ loading'[i] = loading[i + 1] /\ loading'[j] = loading[j + 1]
    BY <1>3, <1>5, <2>1
  <2> QED
    BY <1>1, <1>5, <2>2 DEF Restarting
<1>6. \A x \in ToSet(loading') : x.type \in {"received", "reg_added"}
  BY <1>1 DEF Restarting
<1> QED
  BY <1>4, <1>5, <1>6 DEF Restarting

LEMMA HandlerKeepsFree ==
    ASSUME TableInv, NEW e \in Events, Handles(e) PROVE FreeIsUnheld'
<1>1. /\ ReceivedIsNew /\ FreeIsUnheld /\ TypeOK
      /\ ToSet(Rest) \subseteq ToSet(eventq) /\ ToSet(loading') \subseteq ToSet(loading)
      /\ e \in ToSet(eventq) \cup ToSet(loading)
  BY HandledEvent DEF TableInv
<1>2. /\ \A x \in ToSet(eventq') : x \in ToSet(Rest) \/ Posts(x)
      /\ arrived' = arrived
      /\ \A c \in Clients : call'[c] = call[c] \/ call'[c] = Idle
      /\ ToSet(pending') \subseteq Sources(e)
      /\ \A r \in Regs : ToSet(lists'[r]) \subseteq ToSet(lists[r]) \cup Sources(e)
  BY DEF Handles
<1>3. store' \subseteq arrived'
  BY HandlerKeepsReceived DEF ReceivedIsNew
<1>4. \A b : "type" \in DOMAIN Received(b, "new") /\ Received(b, "new").type = "received"
             /\ Received(b, "new").bundle = b /\ "bundle" \in DOMAIN Received(b, "new")
             /\ Received(b, "store").bundle = b /\ "bundle" \in DOMAIN Received(b, "store")
  BY DEF Received
<1>5. \A b : ~Posts(Received(b, "new"))
  BY <1>4 DEF Posts
<1>6. \A r, b : Idle # [op |-> "popped", reg |-> r, bundle |-> b]
  BY DEF Idle
<1>7. ASSUME NEW x \in ToSet(eventq'), x.type = "free", x.bundle \in store' \ BundlesHeld(Rest)
      PROVE  /\ x.bundle \in arrived' \ ToSet(pending')
             /\ Received(x.bundle, "new") \notin ToSet(eventq')
             /\ Received(x.bundle, "store") \notin ToSet(loading')
             /\ \A r \in Regs : x.bundle \notin ToSet(lists'[r]) /\ ~Popped(r, x.bundle)'
  <2>1. /\ x.bundle \notin Held /\ x.bundle \notin BundlesOf(Rest)
        /\ x.bundle \notin BundlesOf(loading')
    BY <1>7 DEF BundlesHeld
  <2>2. x.bundle \in arrived' \ ToSet(pending')
    BY <1>3, <1>7, <2>1 DEF Held
  <2>3. Received(x.bundle, "new") \notin ToSet(Rest)
    BY <1>4, <2>1 DEF BundlesOf
  <2>4. Received(x.bundle, "store") \notin ToSet(loading')
    BY <1>4, <2>1 DEF BundlesOf
  <2>5. \A r \in Regs : x.bundle \notin ToSet(lists'[r])
    BY <2>1 DEF Held
  <2>6. ASSUME NEW r \in Regs, NEW c \in Clients,
               call'[c] = [op |-> "popped", reg |-> r, bundle |-> x.bundle]
        PROVE  FALSE
    <3>1. call[c] = [op |-> "popped", reg |-> r, bundle |-> x.bundle]
      BY <1>2, <1>6, <2>6
    <3>2. call[c].op = "popped" /\ call[c].bundle = x.bundle
      BY <3>1
    <3>3. c \in {d \in Clients : call[d].op = "popped"}
      BY <3>2
    <3>4. x.bundle \in {call[k].bundle : k \in {d \in Clients : call[d].op = "popped"}}
      BY <3>2, <3>3
    <3>5. x.bundle \in Held
      BY <3>4 DEF Held
    <3> QED
      BY <2>1, <3>5
  <2>7. Received(x.bundle, "new") \notin ToSet(eventq')
    BY <1>2, <1>5, <2>3
  <2>8. \A r \in Regs : ~Popped(r, x.bundle)'
    BY <2>6 DEF Popped
  <2> QED
    BY <2>2, <2>4, <2>5, <2>7, <2>8
<1>8. ASSUME NEW x \in ToSet(eventq'), x.type = "free", x \in ToSet(Rest)
      PROVE  /\ x.bundle \in arrived' \ ToSet(pending')
             /\ Received(x.bundle, "new") \notin ToSet(eventq')
             /\ Received(x.bundle, "store") \notin ToSet(loading')
             /\ \A r \in Regs : x.bundle \notin ToSet(lists'[r]) /\ ~Popped(r, x.bundle)'
  <2>1. /\ x.bundle \in arrived \ ToSet(pending)
        /\ Received(x.bundle, "new") \notin ToSet(eventq)
        /\ Received(x.bundle, "store") \notin ToSet(loading)
        /\ \A r \in Regs : x.bundle \notin ToSet(lists[r]) /\ ~Popped(r, x.bundle)
    BY <1>1, <1>8 DEF FreeIsUnheld
  <2>2. e.type = "received" => e.bundle # x.bundle
    <3> SUFFICES ASSUME e.type = "received", e.bundle = x.bundle PROVE FALSE
      OBVIOUS
    <3>1. e = Received(x.bundle, e.source)
      BY EventFields
    <3>2. CASE e \in ToSet(eventq)
      BY <1>1, <2>1, <3>1, <3>2 DEF ReceivedIsNew
    <3>3. CASE e \in ToSet(loading)
      BY <1>1, <2>1, <3>1, <3>3 DEF ReceivedIsNew
    <3> QED
      BY <1>1, <3>2, <3>3
  <2>3. x.bundle \notin Sources(e)
    BY <2>1, <2>2 DEF Sources
  <2>4. \A r \in Regs : ~Popped(r, x.bundle)'
    BY <1>2, <1>6, <2>1 DEF Popped
  <2>5. Received(x.bundle, "new") \notin ToSet(eventq')
    BY <1>1, <1>2, <1>5, <2>1
  <2> QED
    BY <1>1, <1>2, <2>1, <2>3, <2>4, <2>5
<1>9. \A x : Posts(x) /\ x.type = "free" => x.bundle \in store' \ BundlesHeld(Rest)
  BY DEF Posts
<1> QED
  BY <1>2, <1>7, <1>8, <1>9 DEF FreeIsUnheld

LEMMA HandlerKeepsWaiters ==
    ASSUME TableInv, NEW e \in Events, Handles(e) PROVE WaitersWait'
<1>1. WaitersWait /\ AddedIsNew /\ Restarting
  BY DEF TableInv
<1>2. /\ ToSet(Rest) \subseteq ToSet(eventq)
      /\ \/ e \in ToSet(eventq) /\ (e \in Firsts => e \notin ToSet(Rest))
         \/ e \in ToSet(loading)
  BY HandledEvent
<1>3. /\ \A x \in ToSet(eventq') : x \in ToSet(Rest) \/ Posts(x)
      /\ \A c \in Clients :
            call'[c] = call[c] \/ (call'[c] = Idle /\ e.type \in Awaited /\ c = e.client)
  BY DEF Handles
<1>4. \A x \in ToSet(eventq') : x.type \in Awaited => x \in ToSet(Rest)
  BY <1>3 DEF Posts, Awaited
<1>5. ASSUME NEW x \in ToSet(Rest), x.type \in Awaited
      PROVE  x.client \in Clients /\ call'[x.client] = call[x.client]
  <2>1. x.client \in Clients
    BY <1>1, <1>2, <1>5 DEF WaitersWait
  <2> SUFFICES ASSUME e.type \in Awaited, x.client = e.client PROVE FALSE
    BY <1>3, <2>1
  <2>2. e \notin ToSet(loading)
    BY <1>1, <2>1, RegsAssumption DEF AddedIsNew, Restarting, Awaited
  <2>3. e = x
    BY <1>1, <1>2, <1>5, <2>2 DEF WaitersWait
  <2> QED
    BY <1>2, <1>5, <2>2, <2>3 DEF Firsts, Awaited
<1> QED
  BY <1>1, <1>2, <1>4, <1>5 DEF WaitersWait

-----------------------------------------------------------------------------
(* The steps that are not the daemon's: what they leave alone.             *)

\* When a step ends the last reference to b.
NoneHolds(b) ==
    /\ b \in store \ ToSet(pending)
    /\ Received(b, "new") \notin ToSet(eventq) /\ Received(b, "store") \notin ToSet(loading)
    /\ \A r \in Regs : b \notin ToSet(lists[r]) /\ ~Popped(r, b)'

\* A step that posts nothing the table depends on.
Quiet ==
    /\ UNCHANGED <<pending, store, reglist, regstore, delivered, loading, arrived, made>>
    /\ \/ eventq' = eventq
       \/ \E e \in Events : /\ \/ e.type \in {"delivered", "bundle_expired", "reg_expired"}
                               \/ e.type = "free" /\ NoneHolds(e.bundle)
                            /\ eventq' = Append(eventq, e) \/ eventq' = <<e>> \o eventq
    /\ \A r \in Regs : ToSet(lists'[r]) \subseteq ToSet(lists[r])
    /\ \A r \in Regs : \A b : Popped(r, b)' => Popped(r, b) \/ b \in ToSet(lists[r])
    /\ \A c \in Clients : call[c].op = "wait" => call'[c] = call[c]

LEMMA QuietQueue ==
    ASSUME TypeOK, Quiet
    PROVE  /\ ToSet(eventq) \subseteq ToSet(eventq')
           /\ \A x \in ToSet(eventq') :
                 \/ x \in ToSet(eventq)
                 \/ x.type \in {"delivered", "bundle_expired", "reg_expired"}
                 \/ x.type = "free" /\ NoneHolds(x.bundle)
           /\ OnceIn(eventq, Firsts) => OnceIn(eventq', Firsts)
<1>1. eventq \in Seq(Events)
  BY DEF TypeOK
<1>2. CASE eventq' = eventq
  BY <1>2
<1>3. ASSUME NEW e \in Events,
             \/ e.type \in {"delivered", "bundle_expired", "reg_expired"}
             \/ e.type = "free" /\ NoneHolds(e.bundle),
             eventq' = Append(eventq, e) \/ eventq' = <<e>> \o eventq
      PROVE  /\ ToSet(eventq') = ToSet(eventq) \cup {e}
             /\ OnceIn(eventq, Firsts) => OnceIn(eventq', Firsts)
  <2>1. e \notin Firsts
    BY <1>3 DEF Firsts
  <2> DEFINE s == <<e>>
  <2>2. s \in Seq(Events) /\ ToSet(s) = {e}
    BY ElementsOfOne
  <2>3. CASE eventq' = Append(eventq, e)
    BY <1>1, <2>1, <2>3, ElementsOfAppend, OnceAppend
  <2>4. CASE eventq' = s \o eventq
    <3> HIDE DEF s
    <3>1. ToSet(eventq') = ToSet(eventq) \cup {e}
      BY <1>1, <2>2, <2>4, ElementsOfConcat
    <3>2. ToSet(s) \cap Firsts = {}
      BY <2>1, <2>2
    <3>3. OnceIn(eventq, Firsts) => OnceIn(s \o eventq, Firsts)
      BY <1>1, <2>2, <3>2, OncePrefix
    <3> QED
      BY <2>4, <3>1, <3>3
  <2> QED
    BY <1>3, <2>3, <2>4
<1> QED
  BY <1>2, <1>3 DEF Quiet

LEMMA QuietKeeps == ASSUME TableInv, Quiet, TypeOK' PROVE TableInv'
<1>1. /\ TypeOK /\ ReceivedIsNew /\ AddedIsNew /\ Restarting /\ EachOnce /\ FreeIsUnheld
      /\ UNCHANGED <<pending, store, reglist, regstore, delivered, loading, arrived, made>>
  BY DEF TableInv, Quiet
<1>2. /\ ToSet(eventq) \subseteq ToSet(eventq')
      /\ \A x \in ToSet(eventq') :
            \/ x \in ToSet(eventq)
            \/ x.type \in {"delivered", "bundle_expired", "reg_expired"}
            \/ x.type = "free" /\ NoneHolds(x.bundle)
      /\ OnceIn(eventq, Firsts) => OnceIn(eventq', Firsts)
  BY <1>1, QuietQueue
<1>3. ReceivedIsNew'
  BY <1>1, <1>2 DEF ReceivedIsNew
<1>4. AddedIsNew'
  BY <1>1, <1>2 DEF AddedIsNew
<1>5. Restarting'
  BY <1>1 DEF Restarting
<1>6. EachOnce'
  BY <1>1, <1>2 DEF EachOnce
<1>7. FreeIsUnheld'
  <2> SUFFICES ASSUME NEW e \in ToSet(eventq'), e.type = "free"
               PROVE  /\ e.bundle \in arrived' \ ToSet(pending')
                      /\ Received(e.bundle, "new") \notin ToSet(eventq')
                      /\ Received(e.bundle, "store") \notin ToSet(loading')
                      /\ \A r \in Regs : e.bundle \notin ToSet(lists'[r]) /\ ~Popped(r, e.bundle)'
    BY DEF FreeIsUnheld
  <2>1. e \in ToSet(eventq) \/ NoneHolds(e.bundle)
    BY <1>2
  <2>2. /\ e.bundle \in arrived \ ToSet(pending)
        /\ Received(e.bundle, "new") \notin ToSet(eventq)
        /\ Received(e.bundle, "store") \notin ToSet(loading)
        /\ \A r \in Regs : e.bundle \notin ToSet(lists[r])
        /\ \/ \A r \in Regs : ~Popped(r, e.bundle)
           \/ \A r \in Regs : ~Popped(r, e.bundle)'
    BY <1>1, <2>1 DEF FreeIsUnheld, NoneHolds, ReceivedIsNew
  <2>3. Received(e.bundle, "new").type = "received"
    BY DEF Received
  <2>4. Received(e.bundle, "new") \notin ToSet(eventq')
    BY <1>2, <2>2, <2>3
  <2>5. \A r \in Regs : e.bundle \notin ToSet(lists'[r]) /\ ~Popped(r, e.bundle)'
    BY <2>2 DEF Quiet
  <2> QED
    BY <1>1, <2>2, <2>4, <2>5
<1>8. WaitersWait'
  <2>1. WaitersWait /\ \A c \in Clients : call[c].op = "wait" => call'[c] = call[c]
    BY DEF TableInv, Quiet
  <2>2. \A e \in ToSet(eventq') : e.type \in Awaited => e \in ToSet(eventq)
    BY <1>2 DEF Awaited
  <2> QED
    BY <2>1, <2>2 DEF WaitersWait
<1> QED
  BY <1>3, <1>4, <1>5, <1>6, <1>7, <1>8 DEF TableInv

\* A step that brings a bundle or a registration nobody has seen yet, or an event
\* that a client begins to wait for.
Brings(e) ==
    /\ UNCHANGED <<pending, store, reglist, regstore, delivered, loading, lists>>
    /\ eventq' = Append(eventq, e)
    /\ \A r, b : Popped(r, b)' => Popped(r, b)
    /\ \A c \in Clients : call[c].op = "wait" => call'[c] = call[c]
    /\ \/ /\ \E b \in Bundles \ arrived : e = Received(b, "new") /\ arrived' = arrived \cup {b}
          /\ made' = made
       \/ /\ \E r \in Regs, c \in Clients :
                /\ call[c].op # "wait" /\ call'[c].op = "wait"
                /\ \/ e = RegEvent("reg_added", r, c) /\ r \notin made /\ made' = made \cup {r}
                   \/ e = RegEvent("reg_removed", r, c) /\ made' = made
          /\ arrived' = arrived

LEMMA BringsKeeps == ASSUME TableInv, NEW e \in Events, Brings(e), TypeOK' PROVE TableInv'
<1>1. /\ TypeOK /\ ReceivedIsNew /\ AddedIsNew /\ Restarting /\ EachOnce /\ FreeIsUnheld
      /\ WaitersWait
      /\ UNCHANGED <<pending, store, reglist, regstore, delivered, loading, lists>>
      /\ arrived \subseteq arrived' /\ made \subseteq made'
  BY DEF TableInv, Brings
<1>2. eventq \in Seq(Events)
  BY <1>1 DEF TypeOK
<1>3. ToSet(eventq') = ToSet(eventq) \cup {e}
  BY <1>2, ElementsOfAppend DEF Brings
<1>4. \/ /\ e.type = "received" /\ e = Received(e.bundle, "new") /\ e.source = "new"
         /\ e.bundle \notin arrived /\ e.bundle \in arrived' /\ made' = made
      \/ /\ e.type = "reg_added" /\ e.reg \notin made /\ e.reg \in made' /\ arrived' = arrived
         /\ e.client \in Clients /\ call[e.client].op # "wait" /\ call'[e.client].op = "wait"
      \/ /\ e.type = "reg_removed" /\ made' = made /\ arrived' = arrived
         /\ e.client \in Clients /\ call[e.client].op # "wait" /\ call'[e.client].op = "wait"
  BY DEF Brings, Received, RegEvent
<1>5. e \notin ToSet(eventq)
  BY <1>1, <1>4 DEF ReceivedIsNew, AddedIsNew, WaitersWait, Awaited
<1>6. ReceivedIsNew'
  BY <1>1, <1>3, <1>4 DEF ReceivedIsNew
<1>7. AddedIsNew'
  <2>1. \A x \in ToSet(eventq) :
            x.type \in {"reg_added", "reg_delete"} => x.reg \in made \ regstore
    BY <1>1 DEF AddedIsNew
  <2>2. \A x \in ToSet(eventq) :
            x.type \in {"reg_added", "reg_delete"} /\ e.type = "reg_added" => x.reg # e.reg
    BY <1>4, <2>1
  <2>3. regstore \subseteq made
    BY <1>1 DEF AddedIsNew
  <2>4. ASSUME NEW x \in ToSet(eventq'), x.type \in {"reg_added", "reg_delete"}
        PROVE  x.reg \in made' \ regstore'
    BY <1>1, <1>3, <1>4, <2>1, <2>3, <2>4
  <2>5. ASSUME NEW x \in ToSet(eventq'), NEW y \in ToSet(eventq'), x.type = "reg_added",
               y.type \in {"reg_added", "reg_delete"}, x.reg = y.reg
        PROVE  x = y
    <3>1. CASE x = e
      BY <1>3, <2>2, <2>5, <3>1
    <3>2. CASE x # e
      <4>1. x \in ToSet(eventq)
        BY <1>3, <3>2
      <4>2. y # e
        BY <1>4, <2>1, <2>5, <4>1
      <4> QED
        BY <1>1, <1>3, <2>5, <4>1, <4>2 DEF AddedIsNew
    <3> QED
      BY <3>1, <3>2
  <2> QED
    BY <1>1, <2>4, <2>5 DEF AddedIsNew
<1>8. Restarting'
  BY <1>1 DEF Restarting
<1>9. EachOnce'
  <2>1. OnceIn(eventq, Firsts)
    BY <1>1 DEF EachOnce
  <2>2. OnceIn(eventq', Firsts)
    BY <1>2, <1>5, <2>1, OnceAppend DEF Brings
  <2> QED
    BY <1>1, <2>2 DEF EachOnce
<1>10. FreeIsUnheld'
  <2> SUFFICES ASSUME NEW x \in ToSet(eventq'), x.type = "free"
               PROVE  /\ x.bundle \in arrived' \ ToSet(pending')
                      /\ Received(x.bundle, "new") \notin ToSet(eventq')
                      /\ Received(x.bundle, "store") \notin ToSet(loading')
                      /\ \A r \in Regs : x.bundle \notin ToSet(lists'[r]) /\ ~Popped(r, x.bundle)'
    BY DEF FreeIsUnheld
  <2>1. x \in ToSet(eventq)
    BY <1>3, <1>4
  <2>2. /\ x.bundle \in arrived \ ToSet(pending)
        /\ Received(x.bundle, "new") \notin ToSet(eventq)
        /\ Received(x.bundle, "store") \notin ToSet(loading)
        /\ \A r \in Regs : x.bundle \notin ToSet(lists[r]) /\ ~Popped(r, x.bundle)
    BY <1>1, <2>1 DEF FreeIsUnheld
  <2>3. Received(x.bundle, "new").bundle = x.bundle /\ Received(x.bundle, "new").type = "received"
    BY DEF Received
  <2>4. Received(x.bundle, "new") # e
    BY <1>4, <2>2, <2>3
  <2>5. \A r \in Regs : ~Popped(r, x.bundle)'
    BY <2>2 DEF Brings
  <2> QED
    BY <1>1, <1>3, <2>2, <2>4, <2>5
<1>11. WaitersWait'
  <2>1. \A x \in ToSet(eventq) :
           x.type \in Awaited => /\ x.client \in Clients /\ call[x.client].op = "wait"
                                 /\ call'[x.client].op = "wait"
    BY <1>1 DEF WaitersWait, Brings
  <2>2. e.type \in Awaited => e.client \in Clients /\ call[e.client].op # "wait"
                              /\ call'[e.client].op = "wait"
    BY <1>4 DEF Awaited
  <2>3. \A x \in ToSet(eventq) :
           e.type \in Awaited /\ x.type \in Awaited => x.client # e.client
    BY <2>1, <2>2
  <2> QED
    BY <1>1, <1>3, <2>1, <2>2, <2>3 DEF WaitersWait
<1> QED
  BY <1>6, <1>7, <1>8, <1>9, <1>10, <1>11 DEF TableInv

\* The call of a thread that goes elsewhere holds no bundle.
LEMMA GoesElsewhere ==
    ASSUME TypeOK, NEW c \in Clients, NEW k \in Calls, k.op # "popped", Goes(c, k)
    PROVE  \A r, b : Popped(r, b)' => Popped(r, b)
<1> SUFFICES ASSUME NEW r, NEW b, NEW d \in Clients,
                    call'[d] = [op |-> "popped", reg |-> r, bundle |-> b]
             PROVE  call[d] = [op |-> "popped", reg |-> r, bundle |-> b]
  BY DEF Popped
<1>1. call \in [Clients -> Calls]
  BY DEF TypeOK
<1>2. CASE d = c
  <2>1. call'[d] = k
    BY <1>1, <1>2 DEF Goes
  <2>2. call'[d].op = "popped"
    OBVIOUS
  <2> QED
    BY <2>1, <2>2
<1>3. CASE d # c
  BY <1>1, <1>3 DEF Goes
<1> QED
  BY <1>2, <1>3

\* A thread that lets go of a bundle that nothing else holds.
LEMMA LetGo ==
    ASSUME TypeOK, NEW c \in Clients, Goes(c, Idle), NEW b \in store \ HeldBeside(c)
    PROVE  NoneHolds(b)
<1>1. /\ b \notin ToSet(pending) /\ b \notin BundlesOf(eventq) /\ b \notin BundlesOf(loading)
      /\ \A r \in Regs : b \notin ToSet(lists[r])
  BY DEF HeldBeside
<1>2. \A src : Received(b, src).bundle = b /\ "bundle" \in DOMAIN Received(b, src)
  BY DEF Received
<1>3. Received(b, "new") \notin ToSet(eventq) /\ Received(b, "store") \notin ToSet(loading)
  BY <1>1, <1>2 DEF BundlesOf
<1>4. ASSUME NEW r \in Regs, NEW d \in Clients,
             call'[d] = [op |-> "popped", reg |-> r, bundle |-> b]
      PROVE  FALSE
  <2>1. call \in [Clients -> Calls]
    BY DEF TypeOK
  <2>2. d # c
    BY <1>4, <2>1 DEF Goes, Idle
  <2>3. call[d] = [op |-> "popped", reg |-> r, bundle |-> b]
    BY <1>4, <2>1, <2>2 DEF Goes
  <2>4. call[d].op = "popped" /\ call[d].bundle = b
    BY <2>3
  <2>5. d \in {e \in Clients \ {c} : call[e].op = "popped"}
    BY <2>2, <2>4
  <2>6. b \in {call[k].bundle : k \in {e \in Clients \ {c} : call[e].op = "popped"}}
    BY <2>4, <2>5
  <2> QED
    BY <2>6 DEF HeldBeside
<1>5. \A r \in Regs : ~Popped(r, b)'
  BY <1>4 DEF Popped
<1> QED
  BY <1>1, <1>3, <1>5 DEF NoneHolds

LEMMA ClientKeeps ==
    ASSUME TableInv, NEW c \in Clients, ClientDoes(c), call[c].op # "wait", TypeOK'
    PROVE  TableInv'
<1>1. /\ TypeOK /\ call \in [Clients -> Calls] /\ lists \in [Regs -> Seq(Bundles)]
      /\ UNCHANGED <<daemonVars, arrived>>
  BY DEF TableInv, TypeOK, ClientDoes, ClientFrame
<1>2. UNCHANGED <<pending, store, reglist, regstore, delivered, loading, arrived>>
  BY <1>1 DEF daemonVars, table
<1> DEFINE Stays(k) == call[k].op = "wait" => call'[k] = call[k]
<1>3. ASSUME NEW k, Goes(c, k) PROVE \A d \in Clients : Stays(d)
  BY <1>1, <1>3 DEF Goes
<1>4. ASSUME GoesOn(c)
      PROVE  (\A r, b : Popped(r, b)' => Popped(r, b)) /\ \A d \in Clients : Stays(d)
  <2>1. PICK k \in Calls : k.op # "popped" /\ Goes(c, k)
    BY <1>4 DEF GoesOn
  <2> QED
    BY <1>1, <1>3, <2>1, GoesElsewhere
<1>5. ASSUME Waits(c) PROVE GoesOn(c) /\ call'[c].op = "wait"
  BY <1>1, <1>5, CallTypes DEF Waits, GoesOn, Goes
<1>6. CASE Asks(c)
  <2>1. Quiet
    BY <1>2, <1>6, <1>4 DEF Asks, Quiet
  <2> QED
    BY <2>1, QuietKeeps
<1>7. ASSUME NEW r \in Regs, Expires(c, r) PROVE TableInv'
  <2>1. /\ RegEvent("reg_expired", r, None) \in Events
        /\ RegEvent("reg_expired", r, None).type = "reg_expired"
    BY EventTypes DEF RegEvent
  <2>2. Quiet
    BY <1>2, <1>7, <1>4, <2>1 DEF Expires, Quiet
  <2> QED
    BY <2>2, QuietKeeps
<1>8. ASSUME NEW r \in Regs, Makes(c, r) \/ Removes(c, r) PROVE TableInv'
  <2>1. PICK e \in Events :
           /\ eventq' = Append(eventq, e)
           /\ \/ e = RegEvent("reg_added", r, c) /\ r \notin made /\ made' = made \cup {r}
              \/ e = RegEvent("reg_removed", r, c) /\ made' = made
    BY <1>8, EventTypes DEF Makes, Removes
  <2>2. Waits(c) /\ UNCHANGED lists
    BY <1>8 DEF Makes, Removes
  <2>3. Brings(e)
    BY <1>2, <1>5, <1>4, <2>1, <2>2 DEF Brings
  <2> QED
    BY <2>3, BringsKeeps
<1>9. ASSUME NEW r \in Regs, Pops(c, r) PROVE TableInv'
  <2>1. /\ Head(lists[r]) \in ToSet(lists[r]) /\ ToSet(Tail(lists[r])) \subseteq ToSet(lists[r])
    <3>1. lists[r] \in Seq(Bundles) /\ lists[r] # <<>>
      BY <1>1, <1>9 DEF Pops
    <3> QED
      BY <3>1, ElementsOfTail
  <2>2. \A s \in Regs : lists'[s] = IF s = r THEN Tail(lists[r]) ELSE lists[s]
    BY <1>1, <1>9 DEF Pops
  <2>3. \A s \in Regs : ToSet(lists'[s]) \subseteq ToSet(lists[s])
    BY <2>1, <2>2
  <2>4. ASSUME NEW s \in Regs, NEW b, NEW d \in Clients,
               call'[d] = [op |-> "popped", reg |-> s, bundle |-> b]
        PROVE  call[d] = [op |-> "popped", reg |-> s, bundle |-> b] \/ b \in ToSet(lists[s])
    <3>1. CASE d # c
      BY <1>1, <1>9, <2>4, <3>1 DEF Pops, Goes
    <3>2. CASE d = c
      <4>1. [op |-> "popped", reg |-> s, bundle |-> b]
              = [op |-> "popped", reg |-> r, bundle |-> Head(lists[r])]
        BY <1>1, <1>9, <2>4, <3>2 DEF Pops, Goes
      <4>2. s = r /\ b = Head(lists[r])
        BY <4>1
      <4> QED
        BY <2>1, <4>2
    <3> QED
      BY <3>1, <3>2
  <2>5. \A s \in Regs : \A b : Popped(s, b)' => Popped(s, b) \/ b \in ToSet(lists[s])
    BY <2>4 DEF Popped
  <2>6. Quiet
    BY <1>2, <1>9, <1>3, <2>3, <2>5 DEF Pops, Quiet
  <2> QED
    BY <2>6, QuietKeeps
<1>10. ASSUME NEW r \in Regs, NEW b \in Bundles, Takes(c, r, b) PROVE TableInv'
  <2>1. \A s, d : Popped(s, d)' => Popped(s, d)
    <3>1. Idle \in Calls /\ Idle.op # "popped" /\ Goes(c, Idle)
      BY <1>10, CallTypes DEF Takes, Idle
    <3> QED
      BY <1>1, <3>1, GoesElsewhere
  <2>2. Delivered(b, r) \in Events /\ Delivered(b, r).type = "delivered"
    BY EventTypes DEF Delivered
  <2>3. UNCHANGED <<lists, made>> /\ eventq' = Append(eventq, Delivered(b, r))
    BY <1>10 DEF Takes
  <2>4. Quiet
    BY <1>2, <1>10, <1>3, <2>1, <2>2, <2>3 DEF Takes, Quiet
  <2> QED
    BY <2>4, QuietKeeps
<1>11. ASSUME NEW r \in Regs, NEW b \in Bundles, Fails(c, r, b) PROVE TableInv'
  <2>1. \A s, d : Popped(s, d)' => Popped(s, d)
    <3>1. Idle \in Calls /\ Idle.op # "popped" /\ Goes(c, Idle)
      BY <1>11, CallTypes DEF Fails, Idle
    <3> QED
      BY <1>1, <3>1, GoesElsewhere
  <2>2. PICK e : e = BundleEvent("free", b)
    OBVIOUS
  <2>3. e \in Events /\ e.type = "free" /\ e.bundle = b
    BY <2>2, EventTypes DEF BundleEvent
  <2>4. b \in store \ HeldBeside(c) => NoneHolds(b)
    BY <1>1, <1>11, LetGo DEF Fails
  <2>5. /\ UNCHANGED <<lists, made>>
        /\ eventq' = eventq \/ (NoneHolds(b) /\ eventq' = Append(eventq, e))
    BY <1>11, <2>2, <2>4 DEF Fails
  <2>6. \A d \in Clients : Stays(d)
    BY <1>3, <1>11 DEF Fails
  <2>7. Quiet
    BY <1>2, <2>1, <2>3, <2>5, <2>6 DEF Quiet
  <2> QED
    BY <2>7, QuietKeeps
<1> QED
  BY <1>6, <1>7, <1>8, <1>9, <1>10, <1>11 DEF ClientDoes

LEMMA InputKeeps ==
    ASSUME TableInv, TypeOK',
           \/ TimerPosts \/ \E r \in Regs : TimerFires(r)
           \/ \E b \in Bundles : BundleTimeout(b) \/ Arrive(b) \/ LifetimeEnds(b)
    PROVE  TableInv'
<1>1. TypeOK
  BY DEF TableInv
<1>2. \A r, b : UNCHANGED call => (Popped(r, b)' <=> Popped(r, b))
  BY DEF Popped
<1>3. ASSUME NEW r \in Regs, TimerFires(r) PROVE TableInv'
  <2>1. Quiet
    BY <1>2, <1>3
    DEF TimerFires, bundleVars, table, delivery, clients, inputs, Quiet
  <2> QED
    BY <2>1, QuietKeeps
<1>4. CASE TimerPosts
  <2>1. firing \in Regs /\ RegEvent("reg_expired", firing, None) \in Events
        /\ RegEvent("reg_expired", firing, None).type = "reg_expired"
    BY <1>1, <1>4, EventTypes DEF TimerPosts, TypeOK, RegEvent
  <2>2. eventq' = eventq \/ eventq' = Append(eventq, RegEvent("reg_expired", firing, None))
    BY <1>4 DEF TimerPosts
  <2>3. UNCHANGED <<pending, store, reglist, regstore, delivered, loading, arrived, made,
                    lists, call>>
    BY <1>4 DEF TimerPosts, bundleVars, table, delivery, clients, inputs
  <2>4. Quiet
    BY <1>2, <2>1, <2>2, <2>3 DEF Quiet
  <2> QED
    BY <2>4, QuietKeeps
<1>5. ASSUME NEW b \in Bundles, BundleTimeout(b) PROVE TableInv'
  <2>1. BundleEvent("bundle_expired", b) \in Events
        /\ BundleEvent("bundle_expired", b).type = "bundle_expired"
    BY EventTypes DEF BundleEvent
  <2>2. UNCHANGED <<pending, store, reglist, regstore, delivered, loading, arrived, made,
                    lists, call>>
    BY <1>5 DEF BundleTimeout, table, delivery, clients, inputs
  <2>3. Quiet
    BY <1>2, <1>5, <2>1, <2>2 DEF BundleTimeout, Quiet
  <2> QED
    BY <2>3, QuietKeeps
<1>6. ASSUME NEW b \in Bundles, Arrive(b) PROVE TableInv'
  <2>1. Received(b, "new") \in Events
    BY EventTypes
  <2>2. UNCHANGED <<pending, store, reglist, regstore, delivered, loading, lists, call, made>>
    BY <1>6 DEF Arrive, daemonVars, table, clients
  <2>3. Brings(Received(b, "new"))
    BY <1>2, <1>6, <2>2 DEF Arrive, Brings
  <2> QED
    BY <2>1, <2>3, BringsKeeps
<1>7. ASSUME NEW b \in Bundles, LifetimeEnds(b) PROVE TableInv'
  <2>1. UNCHANGED <<pending, store, reglist, regstore, delivered, loading, arrived, made,
                    lists, call, eventq>>
    BY <1>7 DEF LifetimeEnds, daemonVars, table, clients
  <2>2. Quiet
    BY <1>2, <2>1 DEF Quiet
  <2> QED
    BY <2>2, QuietKeeps
<1> QED
  BY <1>3, <1>4, <1>5, <1>6, <1>7

LEMMA OnceJoin ==
    ASSUME NEW T, NEW s \in Seq(T), NEW t \in Seq(T), NEW S, OnceIn(s, S), OnceIn(t, S),
           ToSet(s) \cap ToSet(t) = {}
    PROVE  OnceIn(s \o t, S)
<1>1. /\ Len(s) \in Nat /\ Len(t) \in Nat /\ Len(s \o t) = Len(s) + Len(t)
      /\ \A i \in 1..Len(s \o t) :
            (s \o t)[i] = IF i <= Len(s) THEN s[i] ELSE t[i - Len(s)]
  OBVIOUS
<1>2. /\ \A i \in 1..Len(s) : s[i] \in ToSet(s)
      /\ \A i \in 1..Len(t) : t[i] \in ToSet(t)
  BY ElementsOf
<1> SUFFICES ASSUME NEW i \in 1..Len(s \o t), NEW j \in 1..Len(s \o t),
                    (s \o t)[i] \in S, (s \o t)[i] = (s \o t)[j]
             PROVE  i = j
  BY DEF OnceIn
<1>3. CASE i <= Len(s) /\ j <= Len(s)
  <2>1. i \in 1..Len(s) /\ j \in 1..Len(s) /\ s[i] \in S /\ s[i] = s[j]
    BY <1>1, <1>3
  <2> QED
    BY <2>1 DEF OnceIn
<1>4. CASE i > Len(s) /\ j > Len(s)
  <2>1. /\ i - Len(s) \in 1..Len(t) /\ j - Len(s) \in 1..Len(t)
        /\ t[i - Len(s)] \in S /\ t[i - Len(s)] = t[j - Len(s)]
    BY <1>1, <1>4
  <2>2. i - Len(s) = j - Len(s)
    BY <2>1 DEF OnceIn
  <2> QED
    BY <1>1, <2>2
<1>5. CASE i <= Len(s) /\ j > Len(s)
  <2>1. i \in 1..Len(s) /\ j - Len(s) \in 1..Len(t) /\ s[i] = t[j - Len(s)]
    BY <1>1, <1>5
  <2> QED
    BY <1>2, <2>1
<1>6. CASE i > Len(s) /\ j <= Len(s)
  <2>1. j \in 1..Len(s) /\ i - Len(s) \in 1..Len(t) /\ s[j] = t[i - Len(s)]
    BY <1>1, <1>6
  <2> QED
    BY <1>2, <2>1
<1> QED
  BY <1>1, <1>3, <1>4, <1>5, <1>6

LEMMA CrashKeeps == ASSUME TableInv, Crash, TypeOK' PROVE TableInv'
<1>1. /\ TypeOK /\ ReceivedIsNew /\ AddedIsNew
      /\ pending' = <<>> /\ reglist' = <<>> /\ eventq' = <<>>
      /\ UNCHANGED <<regstore, arrived, made>> /\ store' \subseteq Bundles
      /\ delivered' = [r \in Regs |-> {}] /\ ToSet(<<>>) = {}
  BY ElementsOfEmpty DEF TableInv, Crash, TypeOK
<1>2. PICK s \in Seq(Events), t \in Seq(Events) :
         /\ loading' = s \o t
         /\ ToSet(s) = {RegEvent("reg_added", r, None) : r \in regstore}
         /\ ToSet(t) = {Received(b, "store") : b \in store'}
         /\ OnceIn(s, Events) /\ OnceIn(t, Events)
  BY <1>1, Reloaded
<1>3. ToSet(loading') = ToSet(s) \cup ToSet(t)
  BY <1>2, ElementsOfConcat
<1>4. \A e \in ToSet(s) : e.type = "reg_added" /\ e.client = None /\ e.reg \in regstore
  BY <1>2 DEF RegEvent
<1>5. \A e \in ToSet(t) : e.type = "received" /\ e.source = "store" /\ e.bundle \in store'
  BY <1>2 DEF Received
<1>6. ReceivedIsNew'
  <2>1. store' \subseteq arrived
    <3>1. PICK written \in SUBSET Bundles :
             /\ store' = store \cup written
             /\ \A b \in written : Received(b, "new") \in ToSet(eventq)
      BY <1>1, Written
    <3>2. \A b \in written : b \in arrived
      BY <1>1, <3>1 DEF ReceivedIsNew, Received
    <3> QED
      BY <1>1, <3>1, <3>2 DEF ReceivedIsNew
  <2>2. \A e \in ToSet(loading') :
           e.type = "received" => e.source = "store" /\ e.bundle \in store'
    BY <1>3, <1>4, <1>5
  <2> QED
    BY <1>1, <2>1, <2>2 DEF ReceivedIsNew
<1>7. AddedIsNew'
  <2>1. regstore \subseteq made
    BY <1>1 DEF AddedIsNew
  <2>2. \A e \in ToSet(loading') :
           e.type = "reg_added" => e.client = None /\ e.reg \in regstore
    BY <1>3, <1>4, <1>5
  <2> QED
    BY <1>1, <2>1, <2>2 DEF AddedIsNew
<1>8. Restarting'
  <2>1. \A r \in regstore' : RegEvent("reg_added", r, None) \in ToSet(loading')
    BY <1>1, <1>2, <1>3
  <2>2. \A e \in ToSet(loading') : e.type \in {"received", "reg_added"}
    BY <1>3, <1>4, <1>5
  <2>3. ASSUME NEW i \in 1..Len(loading'), NEW j \in 1..Len(loading'),
               i < j, loading'[i].type = "received"
        PROVE  loading'[j].type = "received"
    <3>1. /\ Len(s) \in Nat /\ Len(t) \in Nat /\ Len(s \o t) = Len(s) + Len(t)
          /\ \A k \in 1..Len(s \o t) :
                (s \o t)[k] = IF k <= Len(s) THEN s[k] ELSE t[k - Len(s)]
      OBVIOUS
    <3>2. /\ \A k \in 1..Len(s) : s[k] \in ToSet(s)
          /\ \A k \in 1..Len(t) : t[k] \in ToSet(t)
      BY ElementsOf
    <3>3. i > Len(s)
      <4> SUFFICES ASSUME i <= Len(s) PROVE FALSE
        BY <1>2, <3>1
      <4>1. i \in 1..Len(s) /\ loading'[i] = s[i]
        BY <1>2, <3>1
      <4> QED
        BY <1>4, <2>3, <3>2, <4>1
    <3>4. j - Len(s) \in 1..Len(t) /\ loading'[j] = t[j - Len(s)]
      BY <1>2, <2>3, <3>1, <3>3
    <3> QED
      BY <1>5, <3>2, <3>4
  <2> QED
    BY <2>1, <2>2, <2>3 DEF Restarting
<1>9. EachOnce'
  <2>1. OnceIn(s, Firsts) /\ OnceIn(t, Firsts)
    BY <1>2 DEF OnceIn, Firsts
  <2>2. ToSet(s) \cap ToSet(t) = {}
    BY <1>4, <1>5
  <2>3. OnceIn(loading', Firsts)
    BY <1>2, <2>1, <2>2, OnceJoin
  <2> QED
    BY <1>1, <2>3, OnceEmpty DEF EachOnce
<1>10. FreeIsUnheld' /\ WaitersWait'
  BY <1>1 DEF FreeIsUnheld, WaitersWait
<1> QED
  BY <1>1, <1>6, <1>7, <1>8, <1>9, <1>10 DEF TableInv

LEMMA InitTable == ASSUME Init PROVE TableInv
<1>1. /\ pending = <<>> /\ store = {} /\ regstore = InitialRegs /\ made = InitialRegs
      /\ eventq = <<>> /\ loading = <<>> /\ arrived = {} /\ reglist = SetToSeq(InitialRegs)
      /\ ToSet(<<>>) = {} /\ Len(<<>>) = 0 /\ 1..0 = {}
  BY ElementsOfEmpty DEF Init
<1>2. IsFiniteSet(InitialRegs) /\ InitialRegs \subseteq Regs
  BY RegsAssumption, FS_Subset DEF InitialRegs
<1>3. reglist \in Seq(InitialRegs) /\ ToSet(reglist) = InitialRegs /\ IsInjective(reglist)
  BY <1>1, <1>2, ElementsOfSetToSeq
<1>4. TypeOK
  <2>1. /\ <<>> \in Seq(Bundles) /\ <<>> \in Seq(Regs) /\ <<>> \in Seq(Events)
        /\ IsInjective(<<>>) /\ Idle \in Calls
    BY InjectiveEmpty, CallTypes
  <2>2. reglist \in Seq(Regs)
    BY <1>2, <1>3
  <2>3. 0 \in 0..MaxCrashes
    BY BoundAssumption
  <2> QED
    BY <1>1, <1>2, <1>3, <2>1, <2>2, <2>3 DEF Init, TypeOK
<1>5. ReceivedIsNew /\ AddedIsNew /\ FreeIsUnheld /\ WaitersWait
  BY <1>1, <1>3 DEF ReceivedIsNew, AddedIsNew, FreeIsUnheld, WaitersWait
<1>6. Restarting
  BY <1>1, <1>3 DEF Restarting
<1>7. EachOnce
  BY <1>1, OnceEmpty DEF EachOnce
<1> QED
  BY <1>4, <1>5, <1>6, <1>7 DEF TableInv

LEMMA TableInvKept == ASSUME TableInv, [Next]_vars PROVE TableInv'
<1>1. TypeOK /\ TypeOK'
  BY TypesKept DEF TableInv
<1>2. CASE Handler
  <2>1. PICK e \in Events : Handles(e)
    BY <1>2, HandlerStep
  <2>2. /\ ReceivedIsNew' /\ AddedIsNew' /\ Restarting' /\ EachOnce' /\ FreeIsUnheld'
        /\ WaitersWait'
    BY <2>1, HandlerKeepsReceived, HandlerKeepsAdded, HandlerKeepsRestarting,
       HandlerKeepsOnce, HandlerKeepsFree, HandlerKeepsWaiters
  <2> QED
    BY <1>1, <2>2 DEF TableInv
<1>3. CASE Crash
  BY <1>1, <1>3, CrashKeeps
<1>4. ASSUME NEW c \in Clients, Call(c) \/ Continue(c) PROVE TableInv'
  BY <1>1, <1>4, ClientStep, NotWaiting, ClientKeeps
<1>5. CASE UNCHANGED vars
  <2>1. UNCHANGED <<pending, store, reglist, regstore, delivered, loading, arrived, made,
                    lists, call, eventq>>
    BY <1>5 DEF vars, bundleVars, table, delivery, events, clients, inputs
  <2>2. Quiet
    BY <2>1 DEF Quiet, Popped
  <2> QED
    BY <1>1, <2>2, QuietKeeps
<1>6. ASSUME \/ TimerPosts \/ \E r \in Regs : TimerFires(r)
             \/ \E b \in Bundles : BundleTimeout(b) \/ Arrive(b) \/ LifetimeEnds(b)
      PROVE  TableInv'
  BY <1>1, <1>6, InputKeeps
<1> QED
  BY <1>2, <1>3, <1>4, <1>5, <1>6 DEF Next, Daemon, Handler

LEMMA TableInvHolds == Spec => []TableInv
<1>1. Init => TableInv
  BY InitTable
<1>2. TableInv /\ [Next]_vars => TableInv'
  BY TableInvKept
<1> QED
  BY <1>1, <1>2, PTL DEF Spec

\* Queues, tables and lists hold what they should at every step, no bundle is
\* pending twice and no registration is in the table twice (BundleDaemon,
\* RegistrationTable, APIRegistration): a registration is added once, after
\* every restart too, and deleted only when it has left the table.
THEOREM TypesAreKept == Spec => []TypeOK
<1>1. TableInv => TypeOK
  BY DEF TableInv
<1> QED
  BY <1>1, TableInvHolds, PTL

-----------------------------------------------------------------------------
(* No registration misses a pending bundle.                                *)

LEMMA MissedByNone ==
    ASSUME NoneMissed, over \subseteq over', ToSet(pending') \subseteq ToSet(pending),
           ToSet(reglist') \subseteq ToSet(reglist),
           \A r \in ToSet(reglist) : delivered[r] \subseteq delivered'[r]
    PROVE  NoneMissed'
BY DEF NoneMissed

LEMMA ReceivedMissesNone == ASSUME TableInv, NoneMissed, HandleReceived PROVE NoneMissed'
<1>1. TypeOK /\ Current("received")
  BY DEF TableInv, HandleReceived
<1>2. PICK b \in Bundles : b = Event.bundle /\ b \notin ToSet(pending)
  BY <1>1, ReceivedBundle
<1>3. PICK acc : acc = IF Event.source = "store" THEN {} ELSE {b} \cap Custodial
  OBVIOUS
<1> DEFINE matching == SelectIn(reglist, Matches[b])
           pairs == [i \in DOMAIN matching |-> <<matching[i], b>>]
<1>4. /\ pairs \in Seq(Pairs)
      /\ ToSet(pairs) = {<<r, b>> : r \in ToSet(reglist) \cap Matches[b]}
  BY <1>1, MatchingPairs
<1>5. /\ \/ /\ b \in over /\ UNCHANGED delivery
            /\ TryToDelete(b, Append(pending, b), custody)
         \/ /\ b \notin over /\ Deliver(pairs)
            /\ TryToDelete(b, Append(pending, b), custody \cup acc)
      /\ UNCHANGED <<reglist, over>>
  BY <1>2, <1>3 DEF HandleReceived, table, inputs
<1> HIDE DEF matching, pairs
<1>6. /\ Append(pending, b) \in Seq(Bundles) /\ IsInjective(Append(pending, b))
      /\ ToSet(Append(pending, b)) = ToSet(pending) \cup {b}
  BY <1>1, <1>2, ElementsOfAppend, InjectiveAppend DEF TypeOK
<1>7. ToSet(pending') \subseteq ToSet(pending) \cup {b}
  <2>1. PICK held : TryToDelete(b, Append(pending, b), held)
    BY <1>5
  <2> QED
    BY <1>1, <1>6, <2>1, TryToDeleteIs
<1>8. reglist \in Seq(Regs) /\ ToSet(reglist) \subseteq Regs
  BY <1>1, ElementsOf DEF TypeOK
<1>9. CASE b \in over /\ UNCHANGED delivery
  BY <1>5, <1>7, <1>9 DEF NoneMissed, delivery
<1>10. CASE Deliver(pairs)
  <2>1. \A r \in Regs :
           delivered'[r] = delivered[r] \cup {d \in Bundles : <<r, d>> \in ToSet(pairs)}
    BY <1>1, <1>4, <1>10, DeliverIs
  <2>2. \A r \in ToSet(reglist) \cap Matches[b] : <<r, b>> \in ToSet(pairs)
    BY <1>4
  <2>3. \A r \in ToSet(reglist) \cap Matches[b] : b \in delivered'[r]
    BY <1>8, <2>1, <2>2
  <2>4. \A r \in ToSet(reglist) : delivered[r] \subseteq delivered'[r]
    BY <1>8, <2>1
  <2> QED
    BY <1>5, <1>7, <2>3, <2>4 DEF NoneMissed
<1> QED
  BY <1>5, <1>9, <1>10

LEMMA AddedMissesNone == ASSUME TableInv, NoneMissed, HandleAdded PROVE NoneMissed'
<1>1. TypeOK /\ EachOnce /\ Current("reg_added")
  BY DEF TableInv, HandleAdded
<1>2. PICK r \in Regs : r = Event.reg
  BY <1>1, CurrentEvent, EventFields
<1>3. /\ reglist' = Append(reglist, r) /\ Deliver(Waiting(r)) /\ UNCHANGED <<pending, over>>
  BY <1>2 DEF HandleAdded, bundleVars, inputs
<1>4. /\ Waiting(r) \in Seq(Pairs)
      /\ ToSet(Waiting(r)) = {<<r, b>> : b \in {d \in ToSet(pending) : r \in Matches[d]}}
  BY <1>1, WaitingPairs
<1>5. \A s \in Regs :
         delivered'[s] = delivered[s] \cup {d \in Bundles : <<s, d>> \in ToSet(Waiting(r))}
  BY <1>1, <1>3, <1>4, DeliverIs
<1>6. reglist \in Seq(Regs) /\ ToSet(reglist) \subseteq Regs /\ ToSet(pending) \subseteq Bundles
  BY <1>1, ElementsOf DEF TypeOK
<1>7. ToSet(reglist') = ToSet(reglist) \cup {r}
  BY <1>3, <1>6, ElementsOfAppend
<1>8. \A b \in ToSet(pending) : r \in Matches[b] => <<r, b>> \in ToSet(Waiting(r))
  BY <1>4
<1>9. \A b \in ToSet(pending) : r \in Matches[b] => b \in delivered'[r]
  BY <1>5, <1>6, <1>8
<1>10. \A s \in ToSet(reglist) : delivered[s] \subseteq delivered'[s]
  BY <1>5, <1>6
<1> QED
  BY <1>3, <1>7, <1>9, <1>10 DEF NoneMissed

LEMMA NoneMissedKept == ASSUME TableInv, NoneMissed, [Next]_vars PROVE NoneMissed'
<1>1. TypeOK /\ EachOnce
  BY DEF TableInv
<1>2. ASSUME HandleDelivered \/ HandleBundleExpired \/ HandleFree PROVE NoneMissed'
  <2>1. PICK e \in Events : Handles(e) /\ e.type # "received"
    <3>1. Event.type # "received"
      BY <1>2 DEF HandleDelivered, HandleBundleExpired, HandleFree, Current
    <3> QED
      BY <1>2, <3>1, BundleHandles DEF Handles
  <2>2. ToSet(pending') \subseteq ToSet(pending)
    BY <2>1 DEF Handles, Sources
  <2>3. UNCHANGED <<reglist, over, delivered>>
    BY <1>2 DEF HandleDelivered, HandleBundleExpired, HandleFree, table, delivery, inputs
  <2> QED
    BY <2>2, <2>3, MissedByNone
<1>3. ASSUME HandleRemoved \/ HandleExpired \/ HandleRegDelete PROVE NoneMissed'
  <2>1. PICK r \in Regs : /\ UNCHANGED <<bundleVars, inputs, delivered>>
                          /\ UNCHANGED table \/ reglist' = RemoveFirst(reglist, r)
    BY <1>3, TableHandler
  <2>2. ToSet(reglist') \subseteq ToSet(reglist)
    BY <1>1, <2>1, ElementsOfRemoveFirst DEF TypeOK, table
  <2> QED
    BY <2>1, <2>2, MissedByNone DEF bundleVars, inputs
<1>4. CASE Crash
  BY <1>4, ElementsOfEmpty DEF Crash, NoneMissed
<1>5. ASSUME NEW c \in Clients, Call(c) \/ Continue(c) PROVE NoneMissed'
  <2>1. ClientFrame(c)
    BY <1>1, <1>5, ClientStep DEF ClientDoes
  <2> QED
    BY <2>1, MissedByNone DEF ClientFrame, daemonVars, table
<1>6. CASE UNCHANGED vars
  BY <1>6, MissedByNone DEF vars, bundleVars, table, delivery, inputs
<1>7. ASSUME \/ TimerPosts \/ \E r \in Regs : TimerFires(r)
             \/ \E b \in Bundles : BundleTimeout(b) \/ Arrive(b) \/ LifetimeEnds(b)
      PROVE  NoneMissed'
  <2>1. UNCHANGED <<pending, reglist, delivered>> /\ over \subseteq over'
    BY <1>7
    DEF TimerPosts, TimerFires, BundleTimeout, Arrive, LifetimeEnds, bundleVars, daemonVars,
        table, delivery, inputs
  <2> QED
    BY <2>1, MissedByNone
<1> QED
  BY <1>2, <1>3, <1>4, <1>5, <1>6, <1>7, ReceivedMissesNone, AddedMissesNone DEF Next, Daemon

\* Whichever the daemon is told of first, the registration or the bundle, and
\* in which order a restart loads them: a pending bundle within its lifetime
\* was delivered to every registration in the table that its destination
\* matches (BundleDaemon::handle_bundle_received, handle_registration_added).
THEOREM PendingIsDelivered == Spec => []NoneMissed
<1>1. Init => IInv
  BY InitTable, ElementsOfEmpty DEF Init, IInv, NoneMissed
<1>2. IInv /\ [Next]_vars => IInv'
  BY TableInvKept, NoneMissedKept DEF IInv
<1>3. IInv => NoneMissed
  BY DEF IInv
<1> QED
  BY <1>1, <1>2, <1>3, PTL DEF Spec

-----------------------------------------------------------------------------
(* Custody ends with what an application took, or with the lifetime.       *)

LEMMA OverGrows == ASSUME [Next]_vars PROVE over \subseteq over' /\ gap \subseteq gap'
BY DEF Next, Daemon, HandleReceived, HandleDelivered, HandleBundleExpired, HandleFree,
       HandleAdded, HandleRemoved, HandleExpired, HandleRegDelete, TimerPosts, TimerFires,
       BundleTimeout, Arrive, LifetimeEnds, Crash, Call, Continue, Register, LookupToBind, Bind,
       Release, Unbind, Close, CloseNext, Closed, Released, ForceExpire, LookupToUnregister,
       Unregister, WaitForNotify, PopFront, Copied, CopyFails, inputs, vars

\* What a step takes: nothing, what is dropped, or what an application copies.
LEMMA TakenGrows == ASSUME TypeOK, [Next]_vars PROVE taken \subseteq taken'
<1>1. ASSUME NEW pairs, Deliver(pairs) PROVE taken \subseteq taken'
  BY <1>1 DEF Deliver
<1>2. ASSUME NEW c \in Clients, Call(c) \/ Continue(c) PROVE taken \subseteq taken'
  <2>1. ClientDoes(c)
    BY <1>2, ClientStep
  <2> QED
    BY <2>1 DEF ClientDoes, Asks, Makes, Expires, Removes, Pops, Takes, Fails, ghosts
<1>3. CASE HandleReceived
  BY <1>1, <1>3 DEF HandleReceived, delivery
<1>4. CASE HandleAdded
  BY <1>1, <1>4 DEF HandleAdded
<1>5. CASE HandleRemoved \/ HandleExpired \/ HandleRegDelete
  BY <1>5 DEF HandleRemoved, HandleExpired, HandleRegDelete, DeleteFromTable, delivery
<1>6. CASE HandleDelivered \/ HandleBundleExpired \/ HandleFree \/ TimerPosts \/ Crash
           \/ (\E r \in Regs : TimerFires(r)) \/ UNCHANGED vars
           \/ \E b \in Bundles : BundleTimeout(b) \/ Arrive(b) \/ LifetimeEnds(b)
  BY <1>6 DEF HandleDelivered, HandleBundleExpired, HandleFree, TimerPosts, TimerFires, Crash,
              BundleTimeout, Arrive, LifetimeEnds, delivery, ghosts, vars
<1> QED
  BY <1>2, <1>3, <1>4, <1>5, <1>6 DEF Next, Daemon

LEMMA EndsKept == ASSUME TableInv, EndsAreMeant, [Next]_vars PROVE EndsAreMeant'
<1>1. TypeOK /\ over \subseteq over' /\ taken \subseteq taken' /\ eventq \in Seq(Events)
  BY OverGrows, TakenGrows DEF TableInv, TypeOK
<1>2. SUFFICES ASSUME NEW x \in ToSet(eventq'), x \notin ToSet(eventq)
               PROVE  /\ x.type = "delivered" => x.bundle \in taken'
                      /\ x.type = "bundle_expired" => x.bundle \in over'
  BY <1>1 DEF EndsAreMeant
<1>3. CASE Handler
  <2>1. PICK e \in Events : Handles(e)
    BY <1>3, HandlerStep
  <2>2. ToSet(Rest) \subseteq ToSet(eventq)
    BY <2>1, HandledEvent
  <2>3. Posts(x)
    BY <1>2, <2>1, <2>2 DEF Handles
  <2> QED
    BY <2>3 DEF Posts
<1>4. ASSUME NEW c \in Clients, Call(c) \/ Continue(c)
      PROVE  \/ x.type = "delivered" /\ x.bundle \in taken'
             \/ x.type \in Awaited \cup {"reg_expired", "free"}
  <2>1. ClientDoes(c)
    BY <1>1, <1>4, ClientStep
  <2>2. eventq' # eventq
    BY <1>2
  <2>3. \A e \in Events : eventq' = Append(eventq, e) => x = e
    BY <1>1, <1>2, ElementsOfAppend
  <2>4. CASE Asks(c)
    BY <2>2, <2>4 DEF Asks
  <2>5. ASSUME NEW r \in Regs, Makes(c, r) \/ Expires(c, r) \/ Removes(c, r)
        PROVE  x.type \in Awaited \cup {"reg_expired"}
    <3>1. x = RegEvent("reg_added", r, c) \/ x = RegEvent("reg_expired", r, None)
          \/ x = RegEvent("reg_removed", r, c)
      BY <2>3, <2>5, EventTypes DEF Makes, Expires, Removes
    <3> QED
      BY <3>1 DEF RegEvent, Awaited
  <2>6. ASSUME NEW r \in Regs PROVE ~Pops(c, r)
    BY <2>2 DEF Pops
  <2>7. ASSUME NEW r \in Regs, NEW b \in Bundles, Takes(c, r, b)
        PROVE  x.type = "delivered" /\ x.bundle \in taken'
    <3>1. x = Delivered(b, r)
      BY <2>3, <2>7, EventTypes DEF Takes
    <3> QED
      BY <2>7, <3>1 DEF Delivered, Takes
  <2>8. ASSUME NEW r \in Regs, NEW b \in Bundles, Fails(c, r, b) PROVE x.type = "free"
    <3>1. x = BundleEvent("free", b)
      BY <2>2, <2>3, <2>8, EventTypes DEF Fails
    <3> QED
      BY <3>1 DEF BundleEvent
  <2> QED
    BY <2>1, <2>4, <2>5, <2>6, <2>7, <2>8 DEF ClientDoes
<1>5. CASE Crash
  BY <1>2, <1>5, ElementsOfEmpty DEF Crash
<1>6. CASE TimerPosts
  <2>1. firing \in Regs
    BY <1>1, <1>6 DEF TimerPosts, TypeOK
  <2>2. eventq' = eventq \/ eventq' = Append(eventq, RegEvent("reg_expired", firing, None))
    BY <1>6 DEF TimerPosts
  <2>3. PICK e \in Events : e = RegEvent("reg_expired", firing, None)
    BY <2>1, EventTypes
  <2>4. ToSet(Append(eventq, e)) = ToSet(eventq) \cup {e}
    BY <1>1, ElementsOfAppend
  <2>5. x = e
    BY <1>2, <2>2, <2>3, <2>4
  <2> QED
    BY <2>3, <2>5 DEF RegEvent
<1>7. ASSUME NEW b \in Bundles, BundleTimeout(b)
      PROVE  x.type = "bundle_expired" /\ x.bundle \in over'
  <2>1. x = BundleEvent("bundle_expired", b)
    <3>1. PICK e \in Events : e = BundleEvent("bundle_expired", b)
      BY EventTypes
    <3>2. eventq' = <<e>> \o eventq
      BY <1>7, <3>1 DEF BundleTimeout
    <3>3. ToSet(eventq') = ToSet(eventq) \cup {e}
      BY <1>1, <3>2, ElementsOfPrepend
    <3> QED
      BY <1>2, <3>1, <3>3
  <2> QED
    BY <1>1, <1>7, <2>1 DEF BundleTimeout, BundleEvent
<1>8. ASSUME NEW b \in Bundles, Arrive(b) PROVE x.type = "received"
  <2>1. x = Received(b, "new")
    BY <1>1, <1>2, <1>8, EventTypes, ElementsOfAppend DEF Arrive
  <2> QED
    BY <2>1 DEF Received
<1>9. CASE UNCHANGED vars \/ (\E r \in Regs : TimerFires(r)) \/ \E b \in Bundles : LifetimeEnds(b)
  BY <1>2, <1>9 DEF TimerFires, LifetimeEnds, vars, events
<1> QED
  BY <1>3, <1>4, <1>5, <1>6, <1>7, <1>8, <1>9 DEF Next, Daemon, Handler, Awaited

LEMMA ReceivedCustody ==
    ASSUME TableInv, HandleReceived
    PROVE  \E b \in Bundles :
              /\ store' = store \cup {b} /\ custody \subseteq custody'
              /\ ToSet(pending) \subseteq ToSet(pending')
              /\ ToSet(loading) \subseteq ToSet(loading') \cup {Received(b, "store")}
              /\ \A p \in owed' : p \in owed \/ p[2] = b
              /\ b \in Custodial \ over /\ (b \in store => b \in custody) =>
                    b \in custody' /\ b \in ToSet(pending')
<1>1. TypeOK /\ EachOnce /\ Current("received")
  BY DEF TableInv, HandleReceived
<1>2. PICK b \in Bundles : /\ b = Event.bundle /\ b \notin ToSet(pending)
                           /\ Event.source = "store" => b \in store
                           /\ Event.source = "new" => loading = <<>>
                           /\ Event.source \in {"new", "store"}
  BY <1>1, ReceivedBundle
<1>3. PICK acc : acc = IF Event.source = "store" THEN {} ELSE {b} \cap Custodial
  OBVIOUS
<1> DEFINE matching == SelectIn(reglist, Matches[b])
           pairs == [i \in DOMAIN matching |-> <<matching[i], b>>]
<1>4. /\ pairs \in Seq(Pairs)
      /\ ToSet(pairs) = {<<r, b>> : r \in ToSet(reglist) \cap Matches[b]}
  BY <1>1, MatchingPairs
<1>5. /\ store' = store \cup {b}
      /\ \/ b \in over /\ UNCHANGED delivery /\ TryToDelete(b, Append(pending, b), custody)
         \/ Deliver(pairs) /\ TryToDelete(b, Append(pending, b), custody \cup acc)
  BY <1>2, <1>3 DEF HandleReceived
<1> HIDE DEF matching, pairs
<1>6. /\ Append(pending, b) \in Seq(Bundles) /\ IsInjective(Append(pending, b))
      /\ ToSet(Append(pending, b)) = ToSet(pending) \cup {b}
  BY <1>1, <1>2, ElementsOfAppend, InjectiveAppend DEF TypeOK
<1>7. PICK held : /\ TryToDelete(b, Append(pending, b), held)
                  /\ (b \in over /\ held = custody) \/ held = custody \cup acc
  BY <1>5
<1>8. /\ custody' = held /\ ToSet(pending) \subseteq ToSet(pending')
      /\ b \in held => b \in ToSet(pending')
  <2>1. /\ custody' = held /\ ToSet(Append(pending, b)) \ {b} \subseteq ToSet(pending')
        /\ b \in held => pending' = Append(pending, b)
    BY <1>1, <1>6, <1>7, TryToDeleteIs
  <2> QED
    BY <1>2, <1>6, <2>1
<1>9. \A p \in owed' : p \in owed \/ p[2] = b
  <2>1. CASE UNCHANGED delivery
    BY <2>1 DEF delivery
  <2>2. CASE Deliver(pairs)
    BY <1>4, <2>2 DEF Deliver
  <2> QED
    BY <1>5, <2>1, <2>2
<1>10. ToSet(loading) \subseteq ToSet(loading') \cup {Received(b, "store")}
  <2>1. CASE loading = <<>>
    BY <2>1, ElementsOfEmpty
  <2>2. CASE loading # <<>>
    <3>1. Event \in Events /\ Event.type = "received" /\ ToSet(loading) = {Event} \cup ToSet(loading')
      BY <1>1, <2>2, CurrentEvent
    <3>2. Event = Received(b, "store")
      BY <1>2, <2>2, <3>1, EventFields
    <3> QED
      BY <3>1, <3>2
  <2> QED
    BY <2>1, <2>2
<1>11. b \in Custodial \ over /\ (b \in store => b \in custody) => b \in held
  BY <1>2, <1>3, <1>7
<1> QED
  BY <1>5, <1>7, <1>8, <1>9, <1>10, <1>11

LEMMA StillInCustody ==
    ASSUME NEW b, InCustody(b), b \in store' <=> b \in store, b \in custody => b \in custody',
           b \in ToSet(pending) => b \in ToSet(pending'),
           Received(b, "store") \in ToSet(loading) => Received(b, "store") \in ToSet(loading'),
           \A p \in owed' : p[2] = b => p \in owed \/ b \in store
    PROVE  InCustody(b)'
BY DEF InCustody

\* The handlers that end custody, and the one that ends a bundle.
LEMMA EndsLeaveCustody ==
    ASSUME TableInv, EndsAreMeant, HandleDelivered \/ HandleBundleExpired \/ HandleFree,
           NEW d \in Bundles \ (over \cup taken), InCustody(d)
    PROVE  InCustody(d)'
<1>1. /\ TypeOK /\ EachOnce /\ Restarting /\ FreeIsUnheld
      /\ pending \in Seq(Bundles) /\ IsInjective(pending)
  BY DEF TableInv, TypeOK
<1>2. PICK type \in {"delivered", "bundle_expired", "free"} : Current(type)
  BY DEF HandleDelivered, HandleBundleExpired, HandleFree
<1>3. PICK e \in Events : e = Event /\ e.type = type
  BY <1>1, <1>2, CurrentEvent
<1>4. e \in ToSet(eventq) /\ loading = <<>>
  BY <1>1, <1>2, <1>3, CurrentEvent DEF Restarting
<1>5. PICK b \in Bundles : b = e.bundle
  BY <1>2, <1>3, EventFields
<1>6. UNCHANGED owed /\ ToSet(loading) = {}
  BY <1>4, ElementsOfEmpty DEF HandleDelivered, HandleBundleExpired, HandleFree, delivery
<1>7. CASE HandleDelivered
  <2>1. e.type = "delivered" /\ store' = store /\ TryToDelete(b, pending, custody \ {b})
    BY <1>3, <1>5, <1>7 DEF HandleDelivered, Current
  <2>2. custody' = custody \ {b} /\ ToSet(pending) \ {b} \subseteq ToSet(pending')
    BY <1>1, <2>1, TryToDeleteIs
  <2>3. d # b
    BY <1>4, <1>5, <2>1 DEF EndsAreMeant
  <2> QED
    BY <1>6, <2>1, <2>2, <2>3, StillInCustody
<1>8. CASE HandleBundleExpired
  <2>1. /\ e.type = "bundle_expired" /\ store' = store /\ custody' = custody \ {b}
        /\ pending' = RemoveFirst(pending, b)
    BY <1>3, <1>5, <1>8 DEF HandleBundleExpired, Current
  <2>2. ToSet(pending') = ToSet(pending) \ {b}
    BY <1>1, <2>1, InjectiveRemoveFirst
  <2>3. d # b
    BY <1>4, <1>5, <2>1 DEF EndsAreMeant
  <2> QED
    BY <1>6, <2>1, <2>2, <2>3, StillInCustody
<1>9. CASE HandleFree
  <2>1. /\ e.type = "free" /\ store' = store \ {b} /\ UNCHANGED <<custody, pending>>
    BY <1>3, <1>5, <1>9 DEF HandleFree, Current
  <2>2. b \notin ToSet(pending)
    BY <1>1, <1>4, <1>5, <2>1 DEF FreeIsUnheld
  <2>3. d \in store => d # b
    BY <1>6, <2>2 DEF InCustody
  <2> QED
    BY <1>6, <2>1, <2>3, StillInCustody
<1> QED
  BY <1>7, <1>8, <1>9

\* The handlers of the events of registrations.
LEMMA TableLeavesCustody ==
    ASSUME TableInv, HandleAdded \/ HandleRemoved \/ HandleExpired \/ HandleRegDelete,
           NEW d \in Bundles, InCustody(d)
    PROVE  InCustody(d)'
<1>1. TypeOK /\ EachOnce /\ ReceivedIsNew
  BY DEF TableInv
<1>2. PICK type \in {"reg_added", "reg_removed", "reg_expired", "reg_delete"} : Current(type)
  BY DEF HandleAdded, HandleRemoved, HandleExpired, HandleRegDelete
<1>3. PICK e \in Events : e = Event /\ e.type = type
  BY <1>1, <1>2, CurrentEvent
<1>4. ToSet(loading) \subseteq ToSet(loading') \cup {e}
  BY <1>1, <1>2, <1>3, CurrentEvent, ElementsOfEmpty
<1>5. e # Received(d, "store")
  BY <1>2, <1>3 DEF Received
<1>6. UNCHANGED bundleVars
  BY DEF HandleAdded, HandleRemoved, HandleExpired, HandleRegDelete
<1>7. \A p \in owed' : p[2] = d => p \in owed \/ d \in store
  <2>1. CASE HandleAdded
    <3>1. PICK r \in Regs : r = e.reg
      BY <1>2, <1>3, EventFields, <2>1 DEF HandleAdded, Current
    <3>2. Deliver(Waiting(r))
      BY <1>3, <2>1, <3>1 DEF HandleAdded
    <3>3. ToSet(Waiting(r)) = {<<r, b>> : b \in {c \in ToSet(pending) : r \in Matches[c]}}
      BY <1>1, WaitingPairs
    <3> QED
      BY <1>1, <3>2, <3>3 DEF Deliver, ReceivedIsNew
  <2>2. CASE HandleRemoved \/ HandleExpired \/ HandleRegDelete
    BY <2>2 DEF HandleRemoved, HandleExpired, HandleRegDelete, DeleteFromTable, delivery
  <2> QED
    BY <2>1, <2>2
<1> QED
  BY <1>4, <1>5, <1>6, <1>7, StillInCustody DEF bundleVars

LEMMA CustodyKept ==
    ASSUME TableInv, EndsAreMeant, CustodyHeld, [Next]_vars PROVE CustodyHeld'
<1>1. TypeOK /\ over \subseteq over' /\ gap \subseteq gap' /\ taken \subseteq taken'
  BY OverGrows, TakenGrows DEF TableInv
<1>2. SUFFICES ASSUME NEW d \in Custodial \ (over' \cup taken' \cup gap')
               PROVE  InCustody(d)'
  BY DEF CustodyHeld
<1>3. d \in Bundles \ (over \cup taken) /\ d \in Custodial \ over /\ InCustody(d)
  BY <1>1, <1>2, BundlesAssumption DEF CustodyHeld
<1>4. CASE HandleReceived
  <2>1. PICK b \in Bundles :
           /\ store' = store \cup {b} /\ custody \subseteq custody'
           /\ ToSet(pending) \subseteq ToSet(pending')
           /\ ToSet(loading) \subseteq ToSet(loading') \cup {Received(b, "store")}
           /\ \A p \in owed' : p \in owed \/ p[2] = b
           /\ b \in Custodial \ over /\ (b \in store => b \in custody) =>
                 b \in custody' /\ b \in ToSet(pending')
    BY <1>4, ReceivedCustody
  <2>2. CASE d = b
    BY <1>3, <2>1, <2>2 DEF InCustody
  <2>3. CASE d # b
    <3>1. Received(d, "store") # Received(b, "store")
      BY <2>3 DEF Received
    <3> QED
      BY <1>3, <2>1, <2>3, <3>1, StillInCustody
  <2> QED
    BY <2>2, <2>3
<1>5. CASE Crash
  <2>1. PICK written \in SUBSET Bundles : store' = store \cup written /\ gap' = gap \cup written
    BY <1>1, <1>5, Written
  <2>2. d \in store' => d \in store
    BY <1>2, <2>1
  <2>3. store' \subseteq Bundles
    BY <1>1, <2>1 DEF TypeOK
  <2>4. \A b \in store' : Received(b, "store") \in ToSet(loading')
    BY <1>1, <1>5, <2>3, Reloads
  <2>5. UNCHANGED <<custody, owed>>
    BY <1>5 DEF Crash, ghosts
  <2> QED
    BY <1>3, <2>1, <2>2, <2>4, <2>5 DEF InCustody
<1>6. ASSUME NEW c \in Clients, Call(c) \/ Continue(c) PROVE InCustody(d)'
  <2>1. ClientDoes(c)
    BY <1>1, <1>6, ClientStep
  <2>2. UNCHANGED <<store, custody, pending, loading>>
    BY <2>1 DEF ClientDoes, ClientFrame, daemonVars
  <2>3. owed' \subseteq owed
    BY <2>1 DEF ClientDoes, Asks, Makes, Expires, Removes, Pops, Takes, Fails, ghosts
  <2> QED
    BY <1>3, <2>2, <2>3, StillInCustody
<1>7. ASSUME TimerPosts \/ (\E r \in Regs : TimerFires(r)) \/ UNCHANGED vars
             \/ \E b \in Bundles : BundleTimeout(b) \/ Arrive(b) \/ LifetimeEnds(b)
      PROVE  InCustody(d)'
  <2>1. UNCHANGED <<store, custody, pending, loading, owed>>
    BY <1>7 DEF TimerPosts, TimerFires, BundleTimeout, Arrive, LifetimeEnds, bundleVars,
                daemonVars, delivery, ghosts, events, vars
  <2> QED
    BY <1>3, <2>1, StillInCustody
<1> QED
  BY <1>3, <1>4, <1>5, <1>6, <1>7, EndsLeaveCustody, TableLeavesCustody DEF Next, Daemon

\* A custodial bundle stays in the data store and in custody until an
\* application copied it or a passive registration dropped it, within its
\* lifetime, whatever else it is delivered to, whichever calls fail and however
\* often the daemon restarts, unless it stopped before it had accepted custody
\* (BundleDaemon::handle_bundle_delivered, can_delete_bundle,
\* handle_bundle_expired, Bundle::del_ref).
THEOREM CustodyOutlastsDelivery == Spec => []CustodyUntilTaken
<1> DEFINE Inv == TableInv /\ EndsAreMeant /\ CustodyHeld
<1>1. Init => Inv
  BY InitTable, ElementsOfEmpty DEF Init, EndsAreMeant, CustodyHeld, InCustody
<1>2. Inv /\ [Next]_vars => Inv'
  BY TableInvKept, EndsKept, CustodyKept
<1>3. Inv => CustodyUntilTaken
  BY DEF CustodyHeld, InCustody, CustodyUntilTaken
<1> QED
  BY <1>1, <1>2, <1>3, PTL DEF Spec

-----------------------------------------------------------------------------
(* What a registration was given stays until it is taken.                  *)

\* Where the bundle of p is.
Kept(p) ==
    \/ p \in failed
    \/ p[2] \in over
    \/ /\ p[2] \in store
       /\ \/ Received(p[2], "store") \in ToSet(loading)
          \/ p[2] \in ToSet(lists[p[1]])
          \/ Popped(p[1], p[2])

LEMMA OwedKept ==
    OwedIsSomewhere <=> \A p \in owed : p[1] \in regstore /\ p[1] \in Matches[p[2]] /\ Kept(p)
BY DEF OwedIsSomewhere, Kept

\* A notifier ends a call that waits, and no other.
LEMMA HandlerKeepsPopped ==
    ASSUME TableInv, NEW e \in Events, Handles(e)
    PROVE  \A r, b : Popped(r, b) => Popped(r, b)'
<1>1. /\ TypeOK /\ WaitersWait /\ AddedIsNew /\ Restarting
      /\ e \in ToSet(eventq) \/ e \in ToSet(loading)
  BY HandledEvent DEF TableInv
<1> SUFFICES ASSUME NEW r, NEW b, NEW c \in Clients,
                    call[c] = [op |-> "popped", reg |-> r, bundle |-> b]
             PROVE  call'[c] = call[c]
  BY DEF Popped
<1>2. call[c].op # "wait"
  OBVIOUS
<1>3. call'[c] = call[c] \/ (e.type \in Awaited /\ c = e.client)
  BY DEF Handles
<1>4. CASE e.type \in Awaited /\ c = e.client
  <2>1. e \notin ToSet(eventq)
    BY <1>1, <1>2, <1>4 DEF WaitersWait
  <2>2. e.client = None
    BY <1>1, <1>4, <2>1 DEF AddedIsNew, Restarting, Awaited
  <2> QED
    BY <1>4, <2>2, RegsAssumption
<1> QED
  BY <1>3, <1>4

\* What a delivery does to what registrations are given.
LEMMA DeliveryKeeps ==
    ASSUME TableInv, NEW e \in Events, Handles(e), NEW pairs \in Seq(Pairs), Deliver(pairs),
           OwedIsSomewhere, e.type # "free", regstore \subseteq regstore',
           \A p \in ToSet(pairs) : p[1] \in regstore' /\ p[1] \in Matches[p[2]] /\ p[2] \in store',
           \A r \in Regs, b \in Bundles :
              e = Received(b, "store") /\ <<r, b>> \in owed => <<r, b>> \in ToSet(pairs) \cap New
    PROVE  OwedIsSomewhere'
<1>1. TypeOK /\ owed \subseteq Regs \X Bundles
  BY DEF TableInv, TypeOK
<1>2. /\ \A r \in Regs : ToSet(lists'[r]) = ToSet(lists[r]) \cup
                             {b \in Bundles : <<r, b>> \in ToSet(pairs) \cap Queued}
      /\ owed' = (owed \ (ToSet(pairs) \cap Dropped)) \cup (ToSet(pairs) \cap Queued)
      /\ failed' = failed \ (ToSet(pairs) \cap New)
  BY <1>1, DeliverIs
<1>3. /\ \A p \in owed : p[1] \in regstore /\ p[1] \in Matches[p[2]] /\ Kept(p)
  BY OwedKept
<1>4. Queued \subseteq Regs \X Bundles /\ New = Dropped \cup Queued /\ Queued \cap Dropped = {}
  BY DEF Queued, New, Dropped
<1>5. store \subseteq store' /\ UNCHANGED over
  BY DEF Handles
<1>6. ASSUME NEW r \in Regs, NEW b \in Bundles, <<r, b>> \in ToSet(pairs) \cap Queued
      PROVE  b \in store' /\ b \in ToSet(lists'[r])
  BY <1>2, <1>6
<1>7. ASSUME NEW r \in Regs, NEW b \in Bundles, <<r, b>> \in owed', <<r, b>> \in owed,
             b \notin over, <<r, b>> \notin failed'
      PROVE  /\ b \in store'
             /\ \/ Received(b, "store") \in ToSet(loading')
                \/ b \in ToSet(lists'[r])
                \/ Popped(r, b)'
  <2>1. CASE <<r, b>> \in failed
    <3>1. <<r, b>> \in ToSet(pairs) \cap Queued
      BY <1>2, <1>4, <1>7, <2>1
    <3> QED
      BY <1>6, <3>1
  <2> SUFFICES ASSUME <<r, b>> \notin failed
               PROVE  /\ b \in store'
                      /\ \/ Received(b, "store") \in ToSet(loading')
                         \/ b \in ToSet(lists'[r])
                         \/ Popped(r, b)'
    BY <2>1
  <2>2. /\ b \in store
        /\ \/ Received(b, "store") \in ToSet(loading)
           \/ b \in ToSet(lists[r])
           \/ Popped(r, b)
    BY <1>3, <1>7 DEF Kept
  <2>3. CASE b \in ToSet(lists[r])
    BY <1>2, <1>5, <2>2, <2>3
  <2>4. CASE Popped(r, b)
    BY <1>5, <2>2, <2>4, HandlerKeepsPopped
  <2>5. CASE Received(b, "store") \in ToSet(loading)
    <3>1. \/ Received(b, "store") \in ToSet(loading')
          \/ e = Received(b, "store")
      BY <2>5, HandledEvent, ElementsOfEmpty
    <3>2. CASE e = Received(b, "store")
      <4>1. <<r, b>> \in ToSet(pairs) \cap New
        BY <1>7, <3>2
      <4>2. <<r, b>> \in ToSet(pairs) \cap Queued
        BY <1>2, <1>4, <1>7, <4>1
      <4> QED
        BY <1>6, <4>2
    <3> QED
      BY <1>5, <2>2, <3>1, <3>2
  <2> QED
    BY <2>2, <2>3, <2>4, <2>5
<1>8. ASSUME NEW p \in owed'
      PROVE  p[1] \in regstore' /\ p[1] \in Matches[p[2]] /\ Kept(p)'
  <2>1. PICK r \in Regs, b \in Bundles : p = <<r, b>>
    BY <1>1, <1>2, <1>4
  <2>2. CASE <<r, b>> \in owed
    <3>1. r \in regstore' /\ r \in Matches[b]
      BY <1>3, <2>2
    <3>2. Kept(<<r, b>>)'
      BY <1>5, <1>7, <1>8, <2>1, <2>2 DEF Kept
    <3> QED
      BY <2>1, <3>1, <3>2
  <2>3. CASE <<r, b>> \in ToSet(pairs) \cap Queued
    <3>1. r \in regstore' /\ r \in Matches[b]
      BY <2>3
    <3>2. Kept(<<r, b>>)'
      BY <1>6, <2>3 DEF Kept
    <3> QED
      BY <2>1, <3>1, <3>2
  <2> QED
    BY <1>2, <1>8, <2>1, <2>2, <2>3
<1> QED
  BY <1>8 DEF OwedIsSomewhere, Kept

LEMMA StillKept ==
    ASSUME OwedIsSomewhere,
           \A p \in owed' : /\ p \in owed /\ (p[1] \in regstore => p[1] \in regstore')
                            /\ Kept(p) => Kept(p)'
    PROVE  OwedIsSomewhere'
<1>1. \A p \in owed : p[1] \in regstore /\ p[1] \in Matches[p[2]] /\ Kept(p)
  BY OwedKept
<1>2. \A p \in owed' : p[1] \in regstore' /\ p[1] \in Matches[p[2]] /\ Kept(p)'
  BY <1>1
<1> QED
  BY <1>2 DEF OwedIsSomewhere, Kept

\* When a restarted daemon loads a bundle, the table is complete.
LEMMA LoadedTable ==
    ASSUME TableInv, loading # <<>>, Head(loading).type = "received"
    PROVE  regstore = ToSet(reglist)
<1>1. TypeOK /\ Restarting /\ loading \in Seq(Events) /\ ToSet(reglist) \subseteq regstore
  BY DEF TableInv, TypeOK, AddedIsNew
<1>2. Len(loading) \in Nat /\ 1 \in 1..Len(loading) /\ Head(loading) = loading[1]
  BY <1>1
<1>3. \A j \in 1..Len(loading) : loading[j].type = "received"
  BY <1>1, <1>2 DEF Restarting
<1>4. \A x \in ToSet(loading) : x.type = "received"
  BY <1>1, <1>3, ElementsOf
<1>5. \A r : RegEvent("reg_added", r, None).type = "reg_added"
  BY DEF RegEvent
<1>6. \A r : RegEvent("reg_added", r, None) \notin ToSet(loading)
  BY <1>4, <1>5
<1> QED
  BY <1>1, <1>6 DEF Restarting

LEMMA ReceivedKeepsOwed ==
    ASSUME TableInv, OwedIsSomewhere, HandleReceived PROVE OwedIsSomewhere'
<1>1. /\ TypeOK /\ Current("received") /\ AddedIsNew /\ ReceivedIsNew
      /\ owed \subseteq Regs \X Bundles
  BY DEF TableInv, TypeOK, HandleReceived
<1>2. PICK e \in Events : Handles(e) /\ e = Event /\ e.type = "received"
  BY <1>1, ReceivedHandles DEF Handles, Current
<1>3. PICK b \in Bundles : b = e.bundle
  BY <1>2, EventFields
<1> DEFINE matching == SelectIn(reglist, Matches[b])
           pairs == [i \in DOMAIN matching |-> <<matching[i], b>>]
<1>4. /\ pairs \in Seq(Pairs)
      /\ ToSet(pairs) = {<<r, b>> : r \in ToSet(reglist) \cap Matches[b]}
  BY <1>1, MatchingPairs
<1>5. (b \in over /\ UNCHANGED delivery) \/ Deliver(pairs)
  BY <1>2, <1>3 DEF HandleReceived
<1> HIDE DEF matching, pairs
<1>6. /\ store' = store \cup {b} /\ UNCHANGED <<regstore, over, call>>
  BY <1>2, <1>3 DEF HandleReceived, table, inputs, clients
<1>7. ToSet(loading) \subseteq ToSet(loading') \cup {e}
  BY <1>2, HandledEvent, ElementsOfEmpty
<1>8. \A d : e = Received(d, "store") => d = b
  BY <1>3 DEF Received
<1>9. CASE b \in over /\ UNCHANGED delivery
  <2>1. ASSUME NEW p \in owed, Kept(p) PROVE Kept(p)'
    BY <1>6, <1>7, <1>8, <1>9, <2>1 DEF Kept, Popped, delivery
  <2>2. UNCHANGED owed
    BY <1>9 DEF delivery
  <2> QED
    BY <1>6, <2>1, <2>2, StillKept
<1>10. CASE Deliver(pairs)
  <2>1. \A p \in ToSet(pairs) : p[1] \in regstore' /\ p[1] \in Matches[p[2]] /\ p[2] \in store'
    BY <1>1, <1>4, <1>6 DEF AddedIsNew
  <2>2. ASSUME NEW r \in Regs, NEW d \in Bundles, e = Received(d, "store"), <<r, d>> \in owed
        PROVE  <<r, d>> \in ToSet(pairs) \cap New
    <3>1. d = b /\ r \in regstore /\ r \in Matches[b] /\ e.source = "store"
      BY <1>8, <2>2 DEF OwedIsSomewhere, Received
    <3>2. loading # <<>> /\ e = Head(loading) /\ e \in ToSet(loading)
      BY <1>1, <1>2, <3>1, HandledEvent DEF ReceivedIsNew
    <3>3. r \in ToSet(reglist)
      BY <1>2, <3>1, <3>2, LoadedTable
    <3>4. b \notin delivered[r]
      BY <1>1, <1>2, <1>3, <3>2 DEF ReceivedIsNew
    <3> QED
      BY <1>4, <3>1, <3>3, <3>4 DEF New
  <2>3. e.type # "free" /\ regstore \subseteq regstore'
    BY <1>2, <1>6
  <2> QED
    BY <1>2, <1>4, <1>10, <2>1, <2>2, <2>3, DeliveryKeeps
<1> QED
  BY <1>5, <1>9, <1>10

LEMMA AddedKeepsOwed == ASSUME TableInv, OwedIsSomewhere, HandleAdded PROVE OwedIsSomewhere'
<1>1. TypeOK /\ Current("reg_added") /\ ReceivedIsNew
  BY DEF TableInv, HandleAdded
<1>2. PICK e \in Events : Handles(e) /\ e = Event /\ e.type = "reg_added"
  BY <1>1, AddedHandles DEF Handles, Current
<1>3. PICK r \in Regs : r = e.reg
  BY <1>2, EventFields
<1>4. /\ Deliver(Waiting(r)) /\ regstore' = regstore \cup {r} /\ store' = store
  BY <1>2, <1>3 DEF HandleAdded, bundleVars
<1>5. /\ Waiting(r) \in Seq(Pairs)
      /\ ToSet(Waiting(r)) = {<<r, b>> : b \in {d \in ToSet(pending) : r \in Matches[d]}}
  BY <1>1, WaitingPairs
<1>6. \A p \in ToSet(Waiting(r)) :
         p[1] \in regstore' /\ p[1] \in Matches[p[2]] /\ p[2] \in store'
  BY <1>1, <1>4, <1>5 DEF ReceivedIsNew
<1>7. \A b : e # Received(b, "store")
  BY <1>2 DEF Received
<1>8. e.type # "free" /\ regstore \subseteq regstore'
  BY <1>2, <1>4
<1> QED
  BY <1>2, <1>4, <1>5, <1>6, <1>7, <1>8, DeliveryKeeps

LEMMA BundleKeepsOwed ==
    ASSUME TableInv, OwedIsSomewhere, HandleDelivered \/ HandleBundleExpired \/ HandleFree
    PROVE  OwedIsSomewhere'
<1>1. TypeOK /\ Restarting /\ FreeIsUnheld
  BY DEF TableInv
<1>2. PICK e \in Events : Handles(e)
  BY BundleHandles
<1>3. /\ e.type \in {"delivered", "bundle_expired", "free"}
      /\ UNCHANGED <<regstore, over, call, owed, failed, lists>>
  BY <1>2 DEF HandleDelivered, HandleBundleExpired, HandleFree, Handles, Current, table,
              delivery, clients, inputs
<1>4. /\ e \in ToSet(eventq) /\ loading = <<>> /\ ToSet(loading) = {}
  BY <1>1, <1>2, <1>3, HandledEvent, ElementsOfEmpty DEF Restarting
<1>5. ASSUME NEW p \in owed, Kept(p) PROVE Kept(p)'
  <2>1. PICK r \in Regs, b \in Bundles : p = <<r, b>>
    BY <1>1 DEF TypeOK
  <2>2. CASE b \in over \/ p \in failed
    BY <1>3, <2>1, <2>2 DEF Kept
  <2>3. CASE b \notin over /\ p \notin failed
    <3>1. b \in store /\ (b \in ToSet(lists[r]) \/ Popped(r, b))
      BY <1>4, <1>5, <2>1, <2>3 DEF Kept
    <3>2. ~(e.type = "free" /\ e.bundle = b)
      BY <1>1, <1>4, <3>1 DEF FreeIsUnheld
    <3>3. b \in store'
      BY <1>2, <1>3, <3>1, <3>2 DEF Handles
    <3>4. b \in ToSet(lists'[r]) \/ Popped(r, b)'
      BY <1>3, <3>1 DEF Popped
    <3> QED
      BY <2>1, <3>3, <3>4 DEF Kept
  <2> QED
    BY <2>2, <2>3
<1> QED
  BY <1>3, <1>5, StillKept

LEMMA TableKeepsOwed ==
    ASSUME TableInv, OwedIsSomewhere, HandleRemoved \/ HandleExpired \/ HandleRegDelete
    PROVE  OwedIsSomewhere'
<1>1. TypeOK /\ Restarting /\ AddedIsNew /\ EachOnce /\ owed \subseteq Regs \X Bundles
      /\ lists \in [Regs -> Seq(Bundles)]
  BY DEF TableInv, TypeOK
<1>2. PICK r \in Regs, type \in {"reg_removed", "reg_expired", "reg_delete"} :
         /\ Current(type) /\ r = Event.reg
         /\ UNCHANGED <<bundleVars, inputs, failed>>
         /\ \/ UNCHANGED <<table, owed>>
            \/ /\ type # "reg_delete" /\ regstore' = regstore \ {r}
               /\ owed' = {p \in owed : p[1] # r}
         /\ UNCHANGED lists \/ (lists' = [lists EXCEPT ![r] = <<>>] /\ type = "reg_delete")
  BY TableHandler
<1>3. PICK e \in Events : Handles(e)
  BY TableHandles
<1>4. e.type = type /\ e.reg = r
  BY <1>2, <1>3 DEF Handles, Current
<1>5. e \in ToSet(eventq) /\ loading = <<>> /\ ToSet(loading) = {}
  <2>1. e \notin ToSet(loading)
    BY <1>1, <1>4 DEF Restarting
  <2> QED
    BY <1>3, <2>1, HandledEvent, ElementsOfEmpty
<1>6. type = "reg_delete" => r \notin regstore
  BY <1>1, <1>4, <1>5 DEF AddedIsNew
<1>7. store' = store /\ over' = over /\ failed' = failed
  BY <1>2 DEF bundleVars, inputs
<1>8. ASSUME NEW p \in owed' PROVE p \in owed /\ (p[1] \in regstore => p[1] \in regstore')
  BY <1>2, <1>8 DEF table
<1>9. ASSUME NEW p \in owed', Kept(p) PROVE Kept(p)'
  <2>1. PICK s \in Regs, b \in Bundles : p = <<s, b>> /\ p \in owed
    BY <1>1, <1>8
  <2>2. lists'[s] = lists[s]
    <3>1. s \in regstore
      BY <2>1 DEF OwedIsSomewhere
    <3> QED
      BY <1>1, <1>2, <1>6, <3>1
  <2>3. Popped(s, b) => Popped(s, b)'
    BY <1>3, HandlerKeepsPopped
  <2> QED
    BY <1>5, <1>7, <1>9, <2>1, <2>2, <2>3 DEF Kept
<1> QED
  BY <1>8, <1>9, StillKept

LEMMA ClientKeepsOwed ==
    ASSUME TypeOK, OwedIsSomewhere, NEW c \in Clients, ClientDoes(c) PROVE OwedIsSomewhere'
<1>1. /\ owed \subseteq Regs \X Bundles /\ lists \in [Regs -> Seq(Bundles)]
      /\ call \in [Clients -> Calls]
  BY DEF TypeOK
<1>2. UNCHANGED <<store, regstore, loading, over>>
  BY DEF ClientDoes, ClientFrame, daemonVars, table
\* The bundle that a thread holds is its own.
<1>3. ASSUME NEW k, Goes(c, k), NEW r, NEW b, Popped(r, b),
             call[c] # [op |-> "popped", reg |-> r, bundle |-> b]
      PROVE  Popped(r, b)'
  <2>1. PICK d \in Clients : call[d] = [op |-> "popped", reg |-> r, bundle |-> b]
    BY <1>3 DEF Popped
  <2>2. call'[d] = call[d]
    BY <1>1, <1>3, <2>1 DEF Goes
  <2> QED
    BY <2>1, <2>2 DEF Popped
<1>4. ASSUME NEW k, Goes(c, k), call[c].op # "popped" PROVE \A r, b : Popped(r, b) => Popped(r, b)'
  <2> SUFFICES ASSUME NEW r, NEW b, Popped(r, b) PROVE Popped(r, b)'
    OBVIOUS
  <2>1. call[c] # [op |-> "popped", reg |-> r, bundle |-> b]
    BY <1>4
  <2> QED
    BY <1>3, <1>4, <2>1
<1>5. ASSUME UNCHANGED <<lists, owed, failed>>, NEW k, Goes(c, k), call[c].op # "popped"
      PROVE  OwedIsSomewhere'
  <2>1. ASSUME NEW p \in owed, Kept(p) PROVE Kept(p)'
    BY <1>2, <1>4, <1>5, <2>1 DEF Kept
  <2> QED
    BY <1>2, <1>5, <2>1, StillKept
<1>6. ASSUME NEW r \in Regs, Makes(c, r) \/ Expires(c, r) \/ Removes(c, r)
      PROVE  OwedIsSomewhere'
  <2>1. /\ UNCHANGED <<lists, owed, failed>> /\ call[c].op # "popped"
        /\ \E k : Goes(c, k)
    BY <1>6 DEF Makes, Expires, Removes, GoesOn, Waits, ghosts
  <2> QED
    BY <1>5, <2>1
<1>7. ASSUME NEW r \in Regs, Pops(c, r) PROVE OwedIsSomewhere'
  <2>1. /\ lists[r] \in Seq(Bundles) /\ lists[r] # <<>> /\ call[c].op # "popped"
        /\ Goes(c, [op |-> "popped", reg |-> r, bundle |-> Head(lists[r])])
        /\ UNCHANGED <<owed, failed>>
    BY <1>1, <1>7 DEF Pops, ghosts
  <2>2. ToSet(lists[r]) = {Head(lists[r])} \cup ToSet(Tail(lists[r]))
    BY <2>1, ElementsOfTail
  <2>3. \A s \in Regs : lists'[s] = IF s = r THEN Tail(lists[r]) ELSE lists[s]
    BY <1>1, <1>7 DEF Pops
  <2>4. PICK h : h = Head(lists[r])
    OBVIOUS
  <2>5. Popped(r, h)'
    <3>1. call'[c] = [op |-> "popped", reg |-> r, bundle |-> h]
      BY <1>1, <2>1, <2>4 DEF Goes
    <3> QED
      BY <3>1 DEF Popped
  <2>6. \A s, b : Popped(s, b) => Popped(s, b)'
    BY <1>4, <2>1
  <2>7. ASSUME NEW p \in owed, Kept(p) PROVE Kept(p)'
    <3>1. PICK s \in Regs, b \in Bundles : p = <<s, b>>
      BY <1>1
    <3>2. CASE b \in ToSet(lists[s]) /\ (s # r \/ b # h)
      BY <1>2, <2>1, <2>2, <2>3, <2>7, <2>4, <3>1, <3>2 DEF Kept
    <3>3. CASE s = r /\ b = h
      BY <1>2, <2>1, <2>5, <2>7, <3>1, <3>3 DEF Kept
    <3>4. CASE b \notin ToSet(lists[s])
      BY <1>2, <2>1, <2>6, <2>7, <3>1, <3>4 DEF Kept
    <3> QED
      BY <3>2, <3>3, <3>4
  <2> QED
    BY <1>2, <2>1, <2>7, StillKept
<1>8. ASSUME NEW r \in Regs, NEW b \in Bundles, Takes(c, r, b) PROVE OwedIsSomewhere'
  <2>1. /\ call[c] = [op |-> "popped", reg |-> r, bundle |-> b] /\ Goes(c, Idle)
        /\ owed' = owed \ {<<r, b>>} /\ UNCHANGED <<lists, failed>>
    BY <1>8 DEF Takes
  <2>2. ASSUME NEW p \in owed', Kept(p) PROVE Kept(p)'
    <3>1. PICK s \in Regs, d \in Bundles : p = <<s, d>> /\ (s # r \/ d # b)
      BY <1>1, <2>1, <2>2
    <3>2. call[c] # [op |-> "popped", reg |-> s, bundle |-> d]
      BY <2>1, <3>1
    <3>3. Popped(s, d) => Popped(s, d)'
      BY <1>3, <2>1, <3>2
    <3> QED
      BY <1>2, <2>1, <2>2, <3>1, <3>3 DEF Kept
  <2> QED
    BY <1>2, <2>1, <2>2, StillKept
<1>9. ASSUME NEW r \in Regs, NEW b \in Bundles, Fails(c, r, b) PROVE OwedIsSomewhere'
  <2>1. /\ call[c] = [op |-> "popped", reg |-> r, bundle |-> b] /\ Goes(c, Idle)
        /\ failed' = failed \cup {<<r, b>>} /\ UNCHANGED <<lists, owed>>
    BY <1>9 DEF Fails
  <2>2. ASSUME NEW p \in owed', Kept(p) PROVE Kept(p)'
    <3>1. PICK s \in Regs, d \in Bundles : p = <<s, d>>
      BY <1>1, <2>1
    <3>2. CASE s = r /\ d = b
      BY <2>1, <3>1, <3>2 DEF Kept
    <3>3. CASE s # r \/ d # b
      <4>1. call[c] # [op |-> "popped", reg |-> s, bundle |-> d]
        BY <2>1, <3>3
      <4>2. Popped(s, d) => Popped(s, d)'
        BY <1>3, <2>1, <4>1
      <4> QED
        BY <1>2, <2>1, <2>2, <3>1, <4>2 DEF Kept
    <3> QED
      BY <3>2, <3>3
  <2> QED
    BY <1>2, <2>1, <2>2, StillKept
<1>10. CASE Asks(c)
  <2>1. /\ UNCHANGED <<lists, owed, failed>> /\ call[c].op # "popped"
        /\ \E k : Goes(c, k)
    BY <1>10 DEF Asks, GoesOn, ghosts
  <2> QED
    BY <1>5, <2>1
<1> QED
  BY <1>6, <1>7, <1>8, <1>9, <1>10 DEF ClientDoes

LEMMA OwedSomewhereKept ==
    ASSUME TableInv, OwedIsSomewhere, [Next]_vars PROVE OwedIsSomewhere'
<1>1. TypeOK /\ over \subseteq over'
  BY OverGrows DEF TableInv
<1>2. CASE HandleReceived \/ HandleAdded
  BY <1>2, ReceivedKeepsOwed, AddedKeepsOwed
<1>3. CASE HandleDelivered \/ HandleBundleExpired \/ HandleFree
  BY <1>3, BundleKeepsOwed
<1>4. CASE HandleRemoved \/ HandleExpired \/ HandleRegDelete
  BY <1>4, TableKeepsOwed
<1>5. ASSUME NEW c \in Clients, Call(c) \/ Continue(c) PROVE OwedIsSomewhere'
  BY <1>1, <1>5, ClientStep, ClientKeepsOwed
<1>6. CASE Crash
  <2>1. UNCHANGED <<owed, failed, regstore, over>>
    BY <1>6 DEF Crash, ghosts
  <2>2. store \subseteq store' /\ \A b \in store' : Received(b, "store") \in ToSet(loading')
    <3>1. store \subseteq store' /\ store' \subseteq Bundles
      BY <1>1, <1>6, Written DEF TypeOK
    <3> QED
      BY <1>1, <1>6, <3>1, Reloads
  <2>3. ASSUME NEW p \in owed, Kept(p) PROVE Kept(p)'
    BY <2>1, <2>2, <2>3 DEF Kept
  <2> QED
    BY <2>1, <2>3, StillKept
<1>7. ASSUME TimerPosts \/ (\E r \in Regs : TimerFires(r)) \/ UNCHANGED vars
             \/ \E b \in Bundles : BundleTimeout(b) \/ Arrive(b) \/ LifetimeEnds(b)
      PROVE  OwedIsSomewhere'
  <2>1. UNCHANGED <<owed, failed, store, regstore, loading, lists, call>>
    BY <1>7
    DEF TimerPosts, TimerFires, BundleTimeout, Arrive, LifetimeEnds, bundleVars, daemonVars,
        table, delivery, ghosts, clients, vars, events
  <2>2. ASSUME NEW p \in owed, Kept(p) PROVE Kept(p)'
    BY <1>1, <2>1, <2>2 DEF Kept, Popped
  <2> QED
    BY <2>1, <2>2, StillKept
<1> QED
  BY <1>2, <1>3, <1>4, <1>5, <1>6, <1>7 DEF Next, Daemon

\* A bundle that a registration was given is in the data store, and with the
\* registration or with a thread that is handing it over, until an application
\* has it or the call that took it fails, within its lifetime: a restart, the
\* end of its custody and of its stay in the pending list, a drop for another
\* registration, a call that fails to copy it from another one do not lose it
\* (APIRegistration::deliver_bundle, APIClient::handle_recv, Bundle::del_ref,
\* load_registrations, load_bundles).
THEOREM GivenIsKept == Spec => []OwedIsKept
<1>1. Init => TableInv /\ OwedIsSomewhere
  BY InitTable DEF Init, OwedIsSomewhere
<1>2. (TableInv /\ OwedIsSomewhere) /\ [Next]_vars => (TableInv /\ OwedIsSomewhere)'
  BY TableInvKept, OwedSomewhereKept
<1>3. TableInv /\ OwedIsSomewhere => OwedIsKept
  <2> SUFFICES ASSUME TableInv, OwedIsSomewhere, NEW p \in owed \ failed, p[2] \notin over
               PROVE  /\ p[2] \in store
                      /\ \/ loading # <<>> \/ p[2] \in ToSet(lists[p[1]])
                         \/ \E c \in Clients : /\ call[c].op = "popped"
                                               /\ call[c].reg = p[1] /\ call[c].bundle = p[2]
    BY DEF OwedIsKept
  <2>1. /\ p[2] \in store
        /\ \/ Received(p[2], "store") \in ToSet(loading)
           \/ p[2] \in ToSet(lists[p[1]])
           \/ Popped(p[1], p[2])
    BY DEF OwedIsSomewhere
  <2>2. CASE Popped(p[1], p[2])
    <3>1. PICK c \in Clients : call[c] = [op |-> "popped", reg |-> p[1], bundle |-> p[2]]
      BY <2>2 DEF Popped
    <3>2. call[c].op = "popped" /\ call[c].reg = p[1] /\ call[c].bundle = p[2]
      BY <3>1
    <3> QED
      BY <2>1, <3>2
  <2> QED
    BY <2>1, <2>2, ElementsOfEmpty
<1> QED
  BY <1>1, <1>2, <1>3, PTL DEF Spec
-----------------------------------------------------------------------------
(* What an application has bound stays.                                    *)

Names(c, r) == r \in Binds[c] \cup Registers[c]
Own == {r \in Regs : Sole(r)}

\* A client binds what it names, and of its own registrations each once: it is
\* active then, and passive while the client is about to bind or unregister it.
Holds(c) ==
    /\ OnceIn(bindings[c], Own)
    /\ \A r \in ToSet(bindings[c]) : /\ Names(c, r) /\ r \in made
                                     /\ r \in Own => r \in active
    /\ call[c].op \in {"bind", "unregister"} =>
          /\ Names(c, call[c].reg) /\ call[c].reg \in made
          /\ call[c].reg \in Own => call[c].reg \notin active

\* A client that has its own registration removed waits for that, so nobody
\* binds it.
RemovalsAreOwn ==
    \A e \in ToSet(eventq) :
        e.type = "reg_removed" => /\ Names(e.client, e.reg)
                                  /\ e.reg \in Own => e.reg \notin active
OwnIsHeld == (\A c \in Clients : Holds(c)) /\ RemovalsAreOwn

LEMMA OnceRemoveFirst ==
    ASSUME NEW T, NEW s \in Seq(T), NEW e, NEW S, OnceIn(s, S)
    PROVE  /\ OnceIn(RemoveFirst(s, e), S)
           /\ e \in S => e \notin ToSet(RemoveFirst(s, e))
<1> DEFINE t == RemoveFirst(s, e)
<1>1. CASE e \notin ToSet(s)
  BY <1>1, RemoveFirstIs
<1>2. CASE e \in ToSet(s)
  <2>1. PICK k \in 1..Len(s) :
            /\ s[k] = e
            /\ Len(t) = Len(s) - 1
            /\ \A i \in 1..(Len(s) - 1) : t[i] = IF i < k THEN s[i] ELSE s[i + 1]
    BY <1>2, RemoveFirstIs
  <2>2. t \in Seq(T) /\ Len(s) \in Nat
    BY RemoveFirstIs
  <2> HIDE DEF t
  <2>3. \A i \in 1..Len(t) :
           \/ i < k /\ i \in 1..Len(s) /\ t[i] = s[i]
           \/ i >= k /\ i + 1 \in 1..Len(s) /\ t[i] = s[i + 1]
    BY <2>1, <2>2
  <2>4. OnceIn(t, S)
    BY <2>1, <2>2, <2>3 DEF OnceIn
  <2>5. ASSUME e \in S, e \in ToSet(t) PROVE FALSE
    <3>1. PICK i \in 1..Len(t) : t[i] = e
      BY <2>2, <2>5, ElementsOf
    <3> QED
      BY <2>1, <2>2, <2>3, <2>5, <3>1 DEF OnceIn
  <2> QED
    BY <2>4, <2>5 DEF t
<1> QED
  BY <1>1, <1>2

\* A step of client c does not concern what only others name.
LEMMA OthersHold ==
    ASSUME TableInv, OwnIsHeld, NEW c \in Clients, call[c].op # "wait",
           made \subseteq made', Holds(c)',
           \A d \in Clients \ {c} : bindings'[d] = bindings[d] /\ call'[d] = call[d],
           \A r \in Own : ~Names(c, r) => (r \in active' <=> r \in active),
           \A e \in ToSet(eventq') :
              e.type = "reg_removed" =>
                 \/ e \in ToSet(eventq)
                 \/ Names(e.client, e.reg) /\ (e.reg \in Own => e.reg \notin active')
    PROVE  OwnIsHeld'
<1>1. \A d \in Clients, r \in Own : d # c /\ Names(d, r) => ~Names(c, r)
  BY DEF Own, Sole, Names
<1>2. ASSUME NEW d \in Clients PROVE Holds(d)'
  <2>1. CASE d = c
    BY <2>1
  <2>2. CASE d # c
    <3>1. Holds(d)
      BY DEF OwnIsHeld
    <3> QED
      BY <1>1, <2>2, <3>1 DEF Holds, Names, Own, Sole
  <2> QED
    BY <2>1, <2>2
<1>3. RemovalsAreOwn'
  <2> SUFFICES ASSUME NEW e \in ToSet(eventq), e.type = "reg_removed"
               PROVE  Names(e.client, e.reg) /\ (e.reg \in Own => e.reg \notin active')
    BY DEF RemovalsAreOwn, Names, Own, Sole
  <2>1. Names(e.client, e.reg) /\ (e.reg \in Own => e.reg \notin active)
    BY DEF OwnIsHeld, RemovalsAreOwn
  <2>2. e.client \in Clients /\ e.client # c
    BY DEF TableInv, WaitersWait, Awaited
  <2> QED
    BY <1>1, <2>1, <2>2
<1> QED
  BY <1>2, <1>3 DEF OwnIsHeld

LEMMA ClientKeepsOwn ==
    ASSUME TableInv, OwnIsHeld, NEW c \in Clients, Call(c) \/ Continue(c)
    PROVE  OwnIsHeld'
<1>1. /\ TypeOK /\ Holds(c) /\ call[c].op # "wait"
      /\ ToSet(reglist) \subseteq made
      /\ bindings \in [Clients -> Seq(Regs)] /\ call \in [Clients -> Calls]
      /\ eventq \in Seq(Events)
  BY NotWaiting DEF TableInv, OwnIsHeld, AddedIsNew, TypeOK
<1>2. /\ bindings[c] \in Seq(Regs) /\ call[c] \in Calls /\ Idle.op = "idle"
      /\ ToSet(bindings[c]) \subseteq Regs
  BY <1>1, ElementsOf DEF Idle
\* A step that changes the call, and perhaps posts an event.
<1>3. ASSUME NEW k, Goes(c, k), UNCHANGED <<bindings, active, made>>,
             k.op \in {"bind", "unregister"} =>
                /\ Names(c, k.reg) /\ k.reg \in made
                /\ k.reg \in Own => k.reg \notin active,
             \/ eventq' = eventq
             \/ \E e \in Events :
                   /\ eventq' = Append(eventq, e)
                   /\ e.type = "reg_removed" =>
                         Names(e.client, e.reg) /\ (e.reg \in Own => e.reg \notin active)
      PROVE  OwnIsHeld'
  <2>1. call'[c] = k /\ \A d \in Clients \ {c} : call'[d] = call[d]
    BY <1>1, <1>3 DEF Goes
  <2>2. Holds(c)'
    BY <1>1, <1>3, <2>1 DEF Holds, Names, Own, Sole
  <2>3. \A e \in ToSet(eventq') :
           e.type = "reg_removed" =>
              \/ e \in ToSet(eventq)
              \/ Names(e.client, e.reg) /\ (e.reg \in Own => e.reg \notin active')
    <3>1. CASE eventq' = eventq
      BY <3>1
    <3>2. ASSUME NEW x \in Events, eventq' = Append(eventq, x),
                 x.type = "reg_removed" =>
                    Names(x.client, x.reg) /\ (x.reg \in Own => x.reg \notin active)
          PROVE  \A e \in ToSet(eventq') :
                    e.type = "reg_removed" =>
                       \/ e \in ToSet(eventq)
                       \/ Names(e.client, e.reg) /\ (e.reg \in Own => e.reg \notin active')
      <4>1. ToSet(eventq') = ToSet(eventq) \cup {x}
        BY <1>1, <3>2, ElementsOfAppend
      <4> QED
        BY <1>3, <3>2, <4>1
    <3> QED
      BY <1>3, <3>1, <3>2
  <2> QED
    BY <1>1, <1>3, <2>1, <2>2, <2>3, OthersHold
\* A step that binds r.
<1>4. ASSUME NEW r \in Regs, NEW k, Goes(c, k), k.op \notin {"bind", "unregister"},
             Names(c, r), r \in Own => r \notin ToSet(bindings[c]),
             bindings' = [bindings EXCEPT ![c] = Append(@, r)], active' = active \cup {r},
             r \in made', made \subseteq made',
             \/ eventq' = eventq
             \/ \E e \in Events : eventq' = Append(eventq, e) /\ e.type # "reg_removed"
      PROVE  OwnIsHeld'
  <2>1. /\ call'[c] = k /\ bindings'[c] = Append(bindings[c], r)
        /\ \A d \in Clients \ {c} : bindings'[d] = bindings[d] /\ call'[d] = call[d]
    BY <1>1, <1>4 DEF Goes
  <2>2. OnceIn(bindings'[c], Own) /\ ToSet(bindings'[c]) = ToSet(bindings[c]) \cup {r}
    BY <1>1, <1>2, <1>4, <2>1, OnceAppend, ElementsOfAppend DEF Holds
  <2>3. Holds(c)'
    BY <1>1, <1>4, <2>1, <2>2 DEF Holds, Names, Own, Sole
  <2>4. \A e \in ToSet(eventq') : e.type = "reg_removed" => e \in ToSet(eventq)
    <3>1. CASE eventq' = eventq
      BY <3>1
    <3>2. ASSUME NEW x \in Events, eventq' = Append(eventq, x), x.type # "reg_removed"
          PROVE  \A e \in ToSet(eventq') : e.type = "reg_removed" => e \in ToSet(eventq)
      BY <1>1, <3>2, ElementsOfAppend
    <3> QED
      BY <1>4, <3>1, <3>2
  <2>5. \A s \in Own : ~Names(c, s) => (s \in active' <=> s \in active)
    BY <1>4
  <2> QED
    BY <1>1, <1>4, <2>1, <2>3, <2>4, <2>5, OthersHold
<1>5. ASSUME NEW r \in Regs, Register(c, r) PROVE OwnIsHeld'
  <2>1. /\ r \in Registers[c] \ made /\ made' = made \cup {r}
        /\ Goes(c, [op |-> "wait"])
        /\ eventq' = Append(eventq, RegEvent("reg_added", r, c))
    BY <1>5 DEF Register, Goes
  <2>2. /\ RegEvent("reg_added", r, c) \in Events
        /\ RegEvent("reg_added", r, c).type # "reg_removed"
    BY EventTypes DEF RegEvent
  <2>3. CASE /\ bindings' = [bindings EXCEPT ![c] = Append(@, r)]
             /\ active' = active \cup {r}
    <3>1. r \notin ToSet(bindings[c])
      BY <1>1, <2>1 DEF Holds
    <3> QED
      BY <1>4, <2>1, <2>2, <2>3, <3>1 DEF Names
  <2>4. CASE UNCHANGED <<bindings, active>>
    <3>1. call'[c].op = "wait" /\ \A d \in Clients \ {c} : call'[d] = call[d]
      BY <1>1, <2>1 DEF Goes
    <3>2. Holds(c)'
      BY <1>1, <2>1, <2>4, <3>1 DEF Holds, Names, Own, Sole
    <3>3. \A e \in ToSet(eventq') : e.type = "reg_removed" => e \in ToSet(eventq)
      BY <1>1, <2>1, <2>2, ElementsOfAppend
    <3> QED
      BY <1>1, <2>1, <2>4, <3>1, <3>2, <3>3, OthersHold
  <2> QED
    BY <1>5, <2>3, <2>4 DEF Register
<1>6. ASSUME NEW r \in Regs, LookupToBind(c, r) PROVE OwnIsHeld'
  <2>1. /\ Goes(c, [op |-> "bind", reg |-> r]) /\ Names(c, r) /\ r \in made /\ r \notin active
        /\ UNCHANGED <<bindings, active, made, eventq>>
    BY <1>1, <1>6 DEF LookupToBind, Goes, Names, Listed, regs, inputs
  <2> QED
    BY <1>3, <2>1
<1>7. ASSUME NEW r \in Regs, LookupToUnregister(c, r) PROVE OwnIsHeld'
  <2>1. /\ Goes(c, [op |-> "unregister", reg |-> r]) /\ Names(c, r) /\ r \in made
        /\ r \notin active /\ UNCHANGED <<bindings, active, made, eventq>>
    BY <1>1, <1>7 DEF LookupToUnregister, MayRemove, Goes, Names, Listed, regs, inputs
  <2> QED
    BY <1>3, <2>1
<1>8. ASSUME Bind(c) PROVE OwnIsHeld'
  <2>1. PICK r \in Regs : r = call[c].reg /\ call[c].op = "bind"
    BY <1>2, <1>8, CallFields DEF Bind
  <2>2. Names(c, r) /\ r \in made /\ (r \in Own => r \notin ToSet(bindings[c]))
    BY <1>1, <2>1 DEF Holds
  <2>3. /\ Goes(c, Idle) /\ bindings' = [bindings EXCEPT ![c] = Append(@, r)]
        /\ active' = active \cup {r} /\ UNCHANGED <<made, eventq>>
    BY <1>8, <2>1 DEF Bind, Goes, inputs
  <2> QED
    BY <1>2, <1>4, <2>2, <2>3
<1>9. ASSUME NEW r \in ToSet(bindings[c]), NEW n, Release(c, r, n) PROVE OwnIsHeld'
  <2>1. /\ bindings' = [bindings EXCEPT ![c] = RemoveFirst(@, r)] /\ active' = active \ {r}
        /\ Goes(c, [op |-> "released", reg |-> r, next |-> n])
        /\ UNCHANGED <<made, eventq>>
    BY <1>9 DEF Release, Goes, inputs
  <2>2. /\ call'[c].op = "released" /\ bindings'[c] = RemoveFirst(bindings[c], r)
        /\ \A d \in Clients \ {c} : bindings'[d] = bindings[d] /\ call'[d] = call[d]
    BY <1>1, <2>1 DEF Goes
  <2>3. /\ OnceIn(bindings'[c], Own) /\ ToSet(bindings'[c]) \subseteq ToSet(bindings[c])
        /\ r \in Own => r \notin ToSet(bindings'[c])
    BY <1>1, <1>2, <2>2, OnceRemoveFirst, ElementsOfRemoveFirst DEF Holds
  <2>4. Holds(c)' /\ Names(c, r)
    BY <1>1, <2>1, <2>2, <2>3 DEF Holds, Names, Own, Sole
  <2>5. \A s \in Own : ~Names(c, s) => (s \in active' <=> s \in active)
    BY <2>1, <2>4
  <2> QED
    BY <1>1, <2>1, <2>2, <2>4, <2>5, OthersHold
<1>10. ASSUME (\E r \in Regs : Unbind(c, r)) \/ Close(c) \/ CloseNext(c) PROVE OwnIsHeld'
  <2>1. CASE \E r \in Regs : Unbind(c, r)
    BY <1>9, <2>1 DEF Unbind, Bound
  <2>2. CASE Close(c) \/ CloseNext(c)
    <3>1. bindings[c] # <<>> /\ Release(c, Head(bindings[c]), "close")
      BY <2>2 DEF Close, CloseNext
    <3>2. Head(bindings[c]) \in ToSet(bindings[c])
      BY <1>2, <3>1, ElementsOfTail
    <3> QED
      BY <1>9, <3>1, <3>2
  <2> QED
    BY <1>10, <2>1, <2>2
<1>11. ASSUME Unregister(c) PROVE OwnIsHeld'
  <2>1. PICK r \in Regs : r = call[c].reg /\ call[c].op = "unregister"
    BY <1>2, <1>11, CallFields DEF Unregister
  <2>2. Names(c, r) /\ (r \in Own => r \notin active)
    BY <1>1, <2>1 DEF Holds
  <2>3. /\ Goes(c, [op |-> "wait"]) /\ UNCHANGED <<bindings, active, made>>
        /\ eventq' = Append(eventq, RegEvent("reg_removed", r, c))
    BY <1>11, <2>1 DEF Unregister, Goes, regs, inputs
  <2>4. /\ RegEvent("reg_removed", r, c) \in Events /\ RegEvent("reg_removed", r, c).reg = r
        /\ RegEvent("reg_removed", r, c).client = c
    BY EventTypes DEF RegEvent
  <2> QED
    BY <1>3, <2>2, <2>3, <2>4
<1>12. ASSUME NEW r \in Regs, ForceExpire(c, r) PROVE OwnIsHeld'
  <2>1. /\ Goes(c, Idle) /\ UNCHANGED <<bindings, active, made, eventq>>
    BY <1>1, <1>12 DEF ForceExpire, Goes, clients, inputs
  <2> QED
    BY <1>2, <1>3, <2>1
<1>13. ASSUME WaitForNotify(c) \/ Closed(c) \/ PopFront(c) PROVE OwnIsHeld'
  <2>1. UNCHANGED <<bindings, active, made, eventq>>
    BY <1>13 DEF WaitForNotify, Closed, PopFront, regs, inputs
  <2>2. \E k : Goes(c, k) /\ k.op \notin {"bind", "unregister"}
    <3>1. CASE WaitForNotify(c)
      <4>1. PICK r : Goes(c, [op |-> "recv", reg |-> r])
        BY <3>1 DEF WaitForNotify, Goes
      <4> QED
        BY <4>1
    <3>2. CASE Closed(c)
      BY <1>2, <3>2 DEF Closed, Goes
    <3>3. CASE PopFront(c)
      <4>1. PICK r, b : Goes(c, [op |-> "popped", reg |-> r, bundle |-> b])
        BY <3>3 DEF PopFront, Goes
      <4> QED
        BY <4>1
    <3> QED
      BY <1>13, <3>1, <3>2, <3>3
  <2> QED
    BY <1>3, <2>1, <2>2
<1>14. ASSUME Released(c) PROVE OwnIsHeld'
  <2>1. call[c].next \in {"idle", "close"} /\ call[c].reg \in Regs
    BY <1>2, <1>14, CallFields DEF Released
  <2>2. /\ Goes(c, [op |-> call[c].next]) /\ UNCHANGED <<bindings, active, made>>
        /\ \/ eventq' = eventq
           \/ eventq' = Append(eventq, RegEvent("reg_expired", call[c].reg, None))
    BY <1>14 DEF Released, Goes, regs, inputs
  <2>3. /\ RegEvent("reg_expired", call[c].reg, None) \in Events
        /\ RegEvent("reg_expired", call[c].reg, None).type # "reg_removed"
    BY <2>1, EventTypes DEF RegEvent
  <2> QED
    BY <1>3, <2>1, <2>2, <2>3
<1>15. ASSUME Copied(c) \/ CopyFails(c) PROVE OwnIsHeld'
  <2>1. PICK r \in Regs, b \in Bundles : r = call[c].reg /\ b = call[c].bundle
    BY <1>2, <1>15, CallFields DEF Copied, CopyFails
  <2>2. /\ Goes(c, Idle) /\ UNCHANGED <<bindings, active, made>>
        /\ \/ eventq' = eventq
           \/ eventq' = Append(eventq, Delivered(b, r))
           \/ eventq' = Append(eventq, BundleEvent("free", b))
    BY <1>15, <2>1 DEF Copied, CopyFails, Goes, regs, inputs
  <2>3. /\ Delivered(b, r) \in Events /\ BundleEvent("free", b) \in Events
        /\ Delivered(b, r).type # "reg_removed" /\ BundleEvent("free", b).type # "reg_removed"
    BY EventTypes DEF Delivered, BundleEvent
  <2> QED
    BY <1>2, <1>3, <2>2, <2>3
<1> QED
  BY <1>5, <1>6, <1>7, <1>8, <1>10, <1>11, <1>12, <1>13, <1>14, <1>15 DEF Call, Continue

LEMMA OwnIsHeldKept == ASSUME TableInv, OwnIsHeld, [Next]_vars PROVE OwnIsHeld'
<1>1. TypeOK /\ call \in [Clients -> Calls]
  BY DEF TableInv, TypeOK
\* A step of another thread: it activates nothing, binds nothing, and asks for
\* no removal.
<1>2. ASSUME UNCHANGED <<bindings, active, made>>,
             \A c \in Clients : call'[c] = call[c] \/ call'[c] = Idle,
             \A e \in ToSet(eventq') : e.type = "reg_removed" => e \in ToSet(eventq)
      PROVE  OwnIsHeld'
  <2>1. ASSUME NEW c \in Clients PROVE Holds(c)'
    <3>1. Holds(c) /\ (call'[c] = call[c] \/ call'[c].op = "idle")
      BY <1>2 DEF OwnIsHeld, Idle
    <3> QED
      BY <1>2, <3>1 DEF Holds, Names, Own, Sole
  <2>2. RemovalsAreOwn'
    BY <1>2 DEF OwnIsHeld, RemovalsAreOwn, Names, Own, Sole
  <2> QED
    BY <2>1, <2>2 DEF OwnIsHeld
<1>3. CASE Handler
  <2>1. PICK e \in Events : Handles(e)
    BY <1>3, HandlerStep
  <2>2. ToSet(Rest) \subseteq ToSet(eventq)
    BY <2>1, HandledEvent
  <2>3. \A x \in ToSet(eventq') : x.type = "reg_removed" => x \in ToSet(eventq)
    BY <2>1, <2>2 DEF Handles, Posts
  <2>4. UNCHANGED <<bindings, active, made>>
    BY <1>3, <2>1
    DEF Handler, HandleReceived, HandleDelivered, HandleBundleExpired, HandleFree, HandleAdded,
        HandleRemoved, HandleExpired, HandleRegDelete, Handles, regs, clients
  <2> QED
    BY <1>2, <2>1, <2>3, <2>4 DEF Handles
<1>4. CASE Crash
  <2>1. /\ \A c \in Clients : bindings'[c] = <<>> /\ call'[c].op = "idle"
        /\ eventq' = <<>>
    BY <1>4 DEF Crash, Idle
  <2>2. \A c \in Clients : OnceIn(bindings'[c], Own) /\ ToSet(bindings'[c]) = {}
    BY <2>1, OnceEmpty, ElementsOfEmpty
  <2>3. ToSet(eventq') = {}
    BY <2>1, ElementsOfEmpty
  <2> QED
    BY <2>1, <2>2, <2>3 DEF OwnIsHeld, Holds, RemovalsAreOwn, Own, Sole
<1>5. ASSUME NEW c \in Clients, Call(c) \/ Continue(c) PROVE OwnIsHeld'
  BY <1>5, ClientKeepsOwn
<1>6. ASSUME \/ TimerPosts \/ UNCHANGED vars \/ \E r \in Regs : TimerFires(r)
             \/ \E b \in Bundles : BundleTimeout(b) \/ Arrive(b) \/ LifetimeEnds(b)
      PROVE  OwnIsHeld'
  <2>1. UNCHANGED <<bindings, active, made, call>>
    BY <1>6
    DEF TimerPosts, TimerFires, BundleTimeout, Arrive, LifetimeEnds, regs, clients, inputs, vars
  <2>2. \/ eventq' = eventq
        \/ \E e \in Events : /\ eventq' = Append(eventq, e) \/ eventq' = <<e>> \o eventq
                             /\ e.type # "reg_removed"
    <3>1. CASE TimerPosts
      <4>1. firing \in Regs
        BY <1>1, <3>1 DEF TypeOK, TimerPosts
      <4>2. /\ RegEvent("reg_expired", firing, None) \in Events
            /\ RegEvent("reg_expired", firing, None).type # "reg_removed"
        BY <4>1, EventTypes DEF RegEvent
      <4> QED
        BY <3>1, <4>2 DEF TimerPosts
    <3>2. ASSUME NEW b \in Bundles, BundleTimeout(b) \/ Arrive(b)
          PROVE  \E e \in Events : /\ eventq' = Append(eventq, e) \/ eventq' = <<e>> \o eventq
                                   /\ e.type # "reg_removed"
      <4>1. /\ BundleEvent("bundle_expired", b) \in Events /\ Received(b, "new") \in Events
            /\ BundleEvent("bundle_expired", b).type # "reg_removed"
            /\ Received(b, "new").type # "reg_removed"
        BY EventTypes DEF BundleEvent, Received
      <4> QED
        BY <3>2, <4>1 DEF BundleTimeout, Arrive
    <3>3. CASE UNCHANGED vars \/ (\E r \in Regs : TimerFires(r)) \/ \E b \in Bundles : LifetimeEnds(b)
      BY <3>3 DEF vars, events, TimerFires, LifetimeEnds
    <3> QED
      BY <1>6, <3>1, <3>2, <3>3
  <2>3. \A e \in ToSet(eventq') : e.type = "reg_removed" => e \in ToSet(eventq)
    <3>1. CASE eventq' = eventq
      BY <3>1
    <3>2. ASSUME NEW x \in Events, x.type # "reg_removed",
                 eventq' = Append(eventq, x) \/ eventq' = <<x>> \o eventq
          PROVE  \A e \in ToSet(eventq') : e.type = "reg_removed" => e \in ToSet(eventq)
      <4>1. ToSet(eventq') = ToSet(eventq) \cup {x}
        <5>1. eventq \in Seq(Events)
          BY <1>1 DEF TypeOK
        <5>2. CASE eventq' = Append(eventq, x)
          BY <3>2, <5>1, <5>2, ElementsOfAppend
        <5>3. CASE eventq' = <<x>> \o eventq
          BY <3>2, <5>1, <5>3, ElementsOfPrepend
        <5> QED
          BY <3>2, <5>2, <5>3
      <4> QED
        BY <3>2, <4>1
    <3> QED
      BY <2>2, <3>1, <3>2
  <2> QED
    BY <1>2, <2>1, <2>3
<1> QED
  BY <1>3, <1>4, <1>5, <1>6 DEF Next, Daemon, Handler

\* What an application has bound stays in the table until it is unbound, whoever
\* else binds and unregisters what, whatever is unregistered twice and whenever
\* a timer fires, if no other application names it (handle_bind, handle_unbind,
\* handle_unregister; handle_registration_removed, handle_registration_expired).
THEOREM OwnIsNotRemoved == Spec => OwnInUseStays
<1>1. Init => TableInv /\ OwnIsHeld
  <2> SUFFICES ASSUME Init PROVE OwnIsHeld
    BY InitTable
  <2>1. /\ \A c \in Clients : bindings[c] = <<>> /\ call[c].op = "idle"
        /\ eventq = <<>>
    BY DEF Init, Idle
  <2> QED
    BY <2>1, OnceEmpty, ElementsOfEmpty DEF OwnIsHeld, Holds, RemovalsAreOwn
<1>2. (TableInv /\ OwnIsHeld) /\ [Next]_vars => (TableInv /\ OwnIsHeld)'
  BY TableInvKept, OwnIsHeldKept
<1>3. ASSUME TableInv, OwnIsHeld, [Next]_vars, NEW r \in Regs, Sole(r), RemovedInUse(r)
      PROVE  FALSE
  <2>1. TypeOK /\ reglist \in Seq(Regs) /\ r \in ToSet(reglist) /\ r \notin ToSet(reglist')
    BY <1>3 DEF TableInv, TypeOK, RemovedInUse, Listed
  <2>2. r \in active
    BY <1>3 DEF RemovedInUse, Bound, OwnIsHeld, Holds, Own
  <2>3. ~Crash
    BY <1>3 DEF Crash, RemovedInUse, TableInv, TypeOK
  <2>4. ~UNCHANGED reglist
    BY <2>1
  <2>5. HandleAdded \/ HandleRemoved \/ HandleExpired
    <3>1. \A c \in Clients : ~(Call(c) \/ Continue(c))
      <4> SUFFICES ASSUME NEW c \in Clients, Call(c) \/ Continue(c) PROVE UNCHANGED reglist
        BY <2>4
      <4> QED
        BY <2>1, ClientStep DEF ClientDoes, ClientFrame, daemonVars, table
    <3> QED
      BY <1>3, <2>3, <2>4, <3>1
      DEF Next, Daemon, HandleReceived, HandleDelivered, HandleBundleExpired, HandleFree,
          HandleRegDelete, TimerPosts, TimerFires, BundleTimeout, Arrive, LifetimeEnds, table,
          bundleVars, daemonVars, vars
  <2>6. PICK e \in Events : Handles(e) /\ e = Event
    BY <1>3, <2>5, HandlerStep DEF Handler, Handles
  <2>7. /\ e.type \in {"reg_removed", "reg_expired"} /\ reglist' = RemoveFirst(reglist, e.reg)
    <3>1. ~(e.type = "reg_added" /\ reglist' = Append(reglist, e.reg))
      <4> SUFFICES ASSUME e.type = "reg_added", reglist' = Append(reglist, e.reg) PROVE FALSE
        OBVIOUS
      <4>1. e.reg \in Regs
        BY EventFields
      <4>2. ToSet(reglist') = ToSet(reglist) \cup {e.reg}
        BY <2>1, <4>1, ElementsOfAppend
      <4> QED
        BY <2>1, <4>2
    <3> QED
      BY <2>4, <2>6, <3>1 DEF Handles, table
  <2>8. e.reg = r
    BY <2>1, <2>7, ElementsOfRemoveFirst
  <2>9. CASE e.type = "reg_removed"
    <3>1. e \in ToSet(eventq)
      BY <1>3, <2>6, <2>9, HandledEvent DEF TableInv, Restarting
    <3> QED
      BY <1>3, <2>2, <2>8, <2>9, <3>1 DEF OwnIsHeld, RemovalsAreOwn, Own
  <2>10. CASE e.type = "reg_expired"
    <3>1. HandleExpired
      BY <2>5, <2>6, <2>10 DEF HandleAdded, HandleRemoved, Current
    <3> QED
      BY <2>2, <2>4, <2>6, <2>8, <3>1 DEF HandleExpired, table
  <2> QED
    BY <2>7, <2>9, <2>10
<1>4. TableInv /\ OwnIsHeld /\ [Next]_vars =>
         [\A r \in Regs : Sole(r) => ~RemovedInUse(r)]_vars
  BY <1>3
<1> QED
  BY <1>1, <1>2, <1>4, PTL DEF Spec, OwnInUseStays
=============================================================================
