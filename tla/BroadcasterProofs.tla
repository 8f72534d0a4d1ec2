------------------------- MODULE BroadcasterProofs -------------------------
(***************************************************************************)
(* What Broadcaster keeps for any loops, ids and capacities, checked by    *)
(* TLAPS.                                                                  *)
(***************************************************************************)
EXTENDS Broadcaster, SequenceTheorems, FiniteSetTheorems, TLAPS

\* The converse of OneFeedPerId, which a sweep relies on: what the map holds
\* is open, and was registered under its own id.
RegisteredOpen ==
  \A i \in Ids : subscribers[i] # NoLoop =>
    subscribers[i] \in open /\ IdOf[subscribers[i]] = i

\* A sweep carries a packet.
SweepCarries == sweep # {} => sent > 0

IInv ==
  BroadcasterTypeOK /\ OneFeedPerId /\ RegisteredOpen /\ NeverSendsOnClosed /\ SweepCarries

-----------------------------------------------------------------------------
\* Before the first loop subscribes there is nothing to keep.
LEMMA InitInv == BroadcasterInit => IInv
<1> SUFFICES ASSUME BroadcasterInit PROVE IInv
  OBVIOUS
<1> USE BroadcasterAssumption DEF BroadcasterAssumption, BroadcasterInit
<1>1. queue \in [Loops -> Seq(Packets)] /\ \A l \in Loops : Len(queue[l]) <= Cap
  OBVIOUS
<1>2. QED
  BY <1>1 DEF IInv, BroadcasterTypeOK, OneFeedPerId, RegisteredOpen, NeverSendsOnClosed,
              SweepCarries

\* A loop that subscribes takes the place of the channel its id had.
LEMMA SubscribeStep ==
  ASSUME IInv, NEW l \in Loops, Subscribe(l)
  PROVE  IInv'
<1> USE BroadcasterAssumption DEF BroadcasterAssumption, IInv, BroadcasterTypeOK
<1>1. IdOf[l] \in Ids /\ subscribers' \in [Ids -> Loops \cup {NoLoop}]
  BY DEF Subscribe
<1>2. BroadcasterTypeOK'
  <2>1. queue' \in [Loops -> Seq(Packets)] /\ \A m \in Loops : Len(queue'[m]) <= Cap
    BY DEF Subscribe
  <2>2. QED
    BY <1>1, <2>1 DEF Subscribe
<1>3. OneFeedPerId'
  <2> SUFFICES ASSUME NEW m \in open'
               PROVE  subscribers'[IdOf[m]] = m /\ phase'[m] # "idle"
    BY DEF OneFeedPerId
  <2>1. CASE m = l
    BY <1>1, <2>1 DEF Subscribe
  <2>2. CASE m # l
    <3>1. m \in open /\ m # subscribers[IdOf[l]] /\ m \in Loops
      BY <2>2 DEF Subscribe
    <3>2. IdOf[m] # IdOf[l] /\ IdOf[m] \in Ids
      BY <3>1 DEF OneFeedPerId
    <3>3. QED
      BY <2>2, <3>1, <3>2 DEF Subscribe, OneFeedPerId
  <2>3. QED
    BY <2>1, <2>2
<1>4. RegisteredOpen'
  <2> SUFFICES ASSUME NEW i \in Ids, subscribers'[i] # NoLoop
               PROVE  subscribers'[i] \in open' /\ IdOf[subscribers'[i]] = i
    BY DEF RegisteredOpen
  <2>1. CASE i = IdOf[l]
    BY <1>1, <2>1 DEF Subscribe
  <2>2. CASE i # IdOf[l]
    <3>1. subscribers'[i] = subscribers[i]
      BY <2>2 DEF Subscribe
    <3>2. subscribers[i] # subscribers[IdOf[l]]
      BY <1>1, <2>2, <3>1 DEF RegisteredOpen
    <3>3. QED
      BY <3>1, <3>2 DEF Subscribe, RegisteredOpen
  <2>3. QED
    BY <2>1, <2>2
<1>5. NeverSendsOnClosed' /\ SweepCarries'
  BY DEF Subscribe, Unlocked, NeverSendsOnClosed, SweepCarries
<1>6. QED
  BY <1>2, <1>3, <1>4, <1>5

\* A loop that unsubscribes its id closes what it takes out of the map.
LEMMA UnsubscribeStep ==
  ASSUME IInv, NEW l \in Loops, Unsubscribe(l)
  PROVE  IInv'
<1> USE BroadcasterAssumption DEF BroadcasterAssumption, IInv, BroadcasterTypeOK
<1>1. IdOf[l] \in Ids
  OBVIOUS
<1>2. BroadcasterTypeOK'
  BY <1>1 DEF Unsubscribe
<1>3. OneFeedPerId'
  <2> SUFFICES ASSUME NEW m \in open'
               PROVE  subscribers'[IdOf[m]] = m /\ phase'[m] # "idle"
    BY DEF OneFeedPerId
  <2>1. m \in open /\ m # subscribers[IdOf[l]] /\ m \in Loops
    BY DEF Unsubscribe
  <2>2. IdOf[m] # IdOf[l] /\ IdOf[m] \in Ids /\ m # l
    BY <2>1 DEF OneFeedPerId
  <2>3. QED
    BY <2>1, <2>2 DEF Unsubscribe, OneFeedPerId
<1>4. RegisteredOpen'
  <2> SUFFICES ASSUME NEW i \in Ids, subscribers'[i] # NoLoop
               PROVE  subscribers'[i] \in open' /\ IdOf[subscribers'[i]] = i
    BY DEF RegisteredOpen
  <2>1. i # IdOf[l] /\ subscribers'[i] = subscribers[i]
    BY <1>1 DEF Unsubscribe
  <2>2. subscribers[i] # subscribers[IdOf[l]]
    BY <1>1, <2>1 DEF RegisteredOpen
  <2>3. QED
    BY <2>1, <2>2 DEF Unsubscribe, RegisteredOpen
<1>5. NeverSendsOnClosed' /\ SweepCarries'
  BY DEF Unsubscribe, Unlocked, NeverSendsOnClosed, SweepCarries
<1>6. QED
  BY <1>2, <1>3, <1>4, <1>5

\* A broadcast sweeps open channels.
LEMMA BroadcastStep == IInv /\ Broadcast => IInv'
<1> SUFFICES ASSUME IInv, Broadcast PROVE IInv'
  OBVIOUS
<1> USE BroadcasterAssumption DEF BroadcasterAssumption, IInv, BroadcasterTypeOK, Broadcast
<1>1. sweep' \subseteq open
  BY DEF RegisteredOpen
<1>2. BroadcasterTypeOK'
  BY <1>1
<1>3. QED
  BY <1>1, <1>2 DEF OneFeedPerId, RegisteredOpen, NeverSendsOnClosed, SweepCarries

\* An offer fills no channel beyond its capacity.
LEMMA OfferStep ==
  ASSUME IInv, NEW l \in Loops, Offer(l)
  PROVE  IInv'
<1> USE BroadcasterAssumption DEF BroadcasterAssumption, IInv, BroadcasterTypeOK, Offer
<1>1. UNCHANGED <<subscribers, open, phase>> /\ sweep' \subseteq sweep
  OBVIOUS
<1>2. queue' \in [Loops -> Seq(Packets)] /\ \A m \in Loops : Len(queue'[m]) <= Cap
  <2>1. CASE Len(queue[l]) < Cap
    <3>1. sent \in Packets
      BY DEF SweepCarries, Packets
    <3>2. /\ Append(queue[l], sent) \in Seq(Packets)
          /\ Len(Append(queue[l], sent)) <= Cap
      BY <2>1, <3>1
    <3>3. QED
      BY <2>1, <3>2
  <2>2. CASE ~(Len(queue[l]) < Cap)
    BY <2>2
  <2>3. QED
    BY <2>1, <2>2
<1>3. BroadcasterTypeOK'
  BY <1>1, <1>2
<1>4. QED
  BY <1>1, <1>3 DEF OneFeedPerId, RegisteredOpen, NeverSendsOnClosed, SweepCarries

\* What a loop does with its own channel changes no registration.
LEMMA ReaderStep ==
  ASSUME IInv, NEW l \in Loops, Receive(l) \/ FindClosed(l) \/ Leave(l)
  PROVE  IInv'
<1> USE BroadcasterAssumption DEF BroadcasterAssumption, IInv, BroadcasterTypeOK
<1>1. /\ UNCHANGED <<subscribers, open, sent, sweep>>
      /\ \A m \in Loops : phase'[m] = "idle" => phase[m] = "idle"
  BY DEF Receive, FindClosed, Leave
<1>2. BroadcasterTypeOK'
  <2>1. CASE Receive(l)
    <3>1. /\ Head(queue[l]) \in Packets /\ Tail(queue[l]) \in Seq(Packets)
          /\ Len(Tail(queue[l])) <= Cap
      BY <2>1 DEF Receive
    <3>2. queue' \in [Loops -> Seq(Packets)] /\ \A m \in Loops : Len(queue'[m]) <= Cap
      BY <2>1, <3>1 DEF Receive
    <3>3. got' \in [Loops -> 0..MaxPackets]
      BY <2>1, <3>1 DEF Receive, Packets
    <3>4. QED
      BY <2>1, <3>2, <3>3 DEF Receive
  <2>2. CASE FindClosed(l)
    BY <2>2 DEF FindClosed
  <2>3. CASE Leave(l)
    BY <2>3 DEF Leave
  <2>4. QED
    BY <2>1, <2>2, <2>3
<1>3. OneFeedPerId'
  BY <1>1 DEF OneFeedPerId
<1>4. QED
  BY <1>1, <1>2, <1>3 DEF RegisteredOpen, NeverSendsOnClosed, SweepCarries

\* The invariant is inductive.
LEMMA NextStep == IInv /\ [BroadcasterNext]_broadcasterVars => IInv'
<1> SUFFICES ASSUME IInv, [BroadcasterNext]_broadcasterVars PROVE IInv'
  OBVIOUS
<1>1. CASE UNCHANGED broadcasterVars
  BY <1>1 DEF broadcasterVars, IInv, BroadcasterTypeOK, OneFeedPerId, RegisteredOpen,
              NeverSendsOnClosed, SweepCarries
<1>2. CASE BroadcasterNext
  BY <1>2, BroadcastStep, SubscribeStep, UnsubscribeStep, OfferStep, ReaderStep
     DEF BroadcasterNext
<1>3. QED
  BY <1>1, <1>2

-----------------------------------------------------------------------------
\* switcher.go:80-129: the inductive invariant holds.
THEOREM Invariance == BroadcasterSpec => []IInv
BY InitInv, NextStep, PTL DEF BroadcasterSpec

\* No channel holds more than its capacity, and no type is left.
THEOREM TypeCorrect == BroadcasterSpec => []BroadcasterTypeOK
<1>1. IInv => BroadcasterTypeOK
  BY DEF IInv
<1>2. QED
  BY <1>1, Invariance, PTL

\* However many loops come, go and overtake each other, Run never sends on a
\* closed channel.
THEOREM NoPanic == BroadcasterSpec => []NeverSendsOnClosed
<1>1. IInv => NeverSendsOnClosed
  BY DEF IInv
<1>2. QED
  BY <1>1, Invariance, PTL

\* However many loops a component has, one alone is fed, and every channel
\* that is open has a reader that will close it.
THEOREM OneFeed == BroadcasterSpec => []OneFeedPerId
<1>1. IInv => OneFeedPerId
  BY DEF IInv
<1>2. QED
  BY <1>1, Invariance, PTL

-----------------------------------------------------------------------------
\* What a channel that is being read holds is on its way to its reader in
\* order, and the packet of a broadcast under way comes after all of it.
Ordered(l) ==
  /\ got[l] <= sent /\ (l \in sweep => got[l] < sent)
  /\ \A k \in DOMAIN queue[l] : got[l] < queue[l][k] /\ queue[l][k] <= sent
  /\ \A j, k \in DOMAIN queue[l] : j < k => queue[l][j] < queue[l][k]
  /\ l \in sweep => \A k \in DOMAIN queue[l] : queue[l][k] < sent
OInv == IInv /\ \A l \in Loops : phase[l] # "idle" => Ordered(l)

\* A loop whose channel, position and state stay is kept by what is not sent.
LEMMA OrderedKept ==
  ASSUME NEW l \in Loops, Ordered(l), queue'[l] = queue[l], got'[l] = got[l],
         sent' = sent, sweep' \subseteq sweep
  PROVE  Ordered(l)'
BY DEF Ordered

\* Every step keeps the order.
LEMMA NextOrdered == OInv /\ [BroadcasterNext]_broadcasterVars => OInv'
<1> SUFFICES ASSUME OInv, [BroadcasterNext]_broadcasterVars, NEW m \in Loops, phase'[m] # "idle"
             PROVE  Ordered(m)'
  BY NextStep DEF OInv
<1>0. /\ IInv /\ BroadcasterTypeOK /\ (phase[m] # "idle" => Ordered(m))
      /\ queue[m] \in Seq(Packets) /\ sent \in Nat /\ got[m] \in Nat
  BY BroadcasterAssumption DEF BroadcasterAssumption, OInv, IInv, BroadcasterTypeOK
<1>a. \A k \in DOMAIN queue[m] : queue[m][k] \in Nat
  <2>1. DOMAIN queue[m] = 1..Len(queue[m]) /\ \A k \in 1..Len(queue[m]) : queue[m][k] \in Packets
    BY <1>0
  <2>2. QED
    BY <2>1 DEF Packets
<1>1. CASE Broadcast
  <2>1. UNCHANGED <<queue, phase, got>> /\ sent' = sent + 1
    BY <1>1 DEF Broadcast
  <2>2. /\ got[m] <= sent'
        /\ got[m] < sent'
        /\ \A k \in DOMAIN queue[m] : /\ got[m] < queue[m][k] /\ queue[m][k] <= sent'
                                      /\ queue[m][k] < sent'
    BY <1>0, <1>a, <2>1 DEF Ordered
  <2>3. QED
    BY <1>0, <2>1, <2>2 DEF Ordered
<1>2. ASSUME NEW l \in Loops, Subscribe(l) PROVE Ordered(m)'
  <2>1. CASE m = l
    <3>1. queue'[m] = <<>> /\ got'[m] = 0 /\ sent' = sent /\ sweep' = {}
      BY <1>0, <1>2, <2>1 DEF Subscribe, Unlocked, BroadcasterTypeOK
    <3>2. QED
      BY <1>0, <3>1 DEF Ordered
  <2>2. CASE m # l
    BY <1>0, <1>2, <2>2, OrderedKept DEF Subscribe, BroadcasterTypeOK
  <2>3. QED
    BY <2>1, <2>2
<1>3. ASSUME NEW l \in Loops, Offer(l) PROVE Ordered(m)'
  <2>1. /\ UNCHANGED <<got, sent, phase>> /\ sweep' = sweep \ {l} /\ l \in sweep
        /\ \A n \in Loops : n # l => queue'[n] = queue[n]
        /\ \/ queue'[l] = Append(queue[l], sent)
           \/ queue'[l] = queue[l]
    BY <1>0, <1>3 DEF Offer, BroadcasterTypeOK
  <2>2. CASE queue'[m] = queue[m]
    BY <1>0, <2>1, <2>2, OrderedKept
  <2>3. CASE m = l /\ queue'[m] = Append(queue[m], sent)
    <3>1. /\ got[m] < sent
          /\ \A k \in DOMAIN queue[m] : got[m] < queue[m][k] /\ queue[m][k] < sent
          /\ \A j, k \in DOMAIN queue[m] : j < k => queue[m][j] < queue[m][k]
      BY <1>0, <2>1, <2>3 DEF Ordered
    <3>2. /\ DOMAIN queue[m] = 1..Len(queue[m]) /\ Len(queue[m]) \in Nat
          /\ DOMAIN queue'[m] = 1..(Len(queue[m]) + 1)
          /\ \A k \in DOMAIN queue[m] : queue'[m][k] = queue[m][k]
          /\ queue'[m][Len(queue[m]) + 1] = sent
      <4>1. sent \in Packets
        BY <1>0, <2>1, BroadcasterAssumption
           DEF IInv, SweepCarries, BroadcasterTypeOK, Packets, BroadcasterAssumption
      <4>2. QED
        BY <1>0, <2>3, <4>1, AppendProperties
    <3>3. \A k \in DOMAIN queue'[m] : k \in DOMAIN queue[m] \/ k = Len(queue[m]) + 1
      BY <3>2
    <3>4. \A k \in DOMAIN queue'[m] : got[m] < queue'[m][k] /\ queue'[m][k] <= sent
      BY <1>0, <1>a, <3>1, <3>2, <3>3
    <3>5. \A j, k \in DOMAIN queue'[m] : j < k => queue'[m][j] < queue'[m][k]
      BY <3>1, <3>2, <3>3
    <3>6. QED
      BY <1>0, <2>1, <2>3, <3>1, <3>4, <3>5 DEF Ordered
  <2>4. QED
    BY <2>1, <2>2, <2>3
<1>4. ASSUME NEW l \in Loops, Receive(l) PROVE Ordered(m)'
  <2>1. CASE m = l
    <3>1. /\ queue[m] # <<>> /\ got'[m] = Head(queue[m]) /\ queue'[m] = Tail(queue[m])
          /\ UNCHANGED <<sent, sweep>> /\ Ordered(m)
      BY <1>0, <1>4, <2>1 DEF Receive, BroadcasterTypeOK
    <3>2. /\ DOMAIN queue[m] = 1..Len(queue[m]) /\ Len(queue[m]) \in Nat /\ Len(queue[m]) > 0
          /\ Head(queue[m]) = queue[m][1]
          /\ DOMAIN queue'[m] = 1..(Len(queue[m]) - 1)
          /\ \A k \in DOMAIN queue'[m] : queue'[m][k] = queue[m][k + 1]
      BY <1>0, <3>1, HeadTailProperties
    <3>3. /\ 1 \in DOMAIN queue[m]
          /\ \A k \in DOMAIN queue'[m] : k \in Nat /\ k + 1 \in DOMAIN queue[m] /\ 1 < k + 1
      BY <3>2
    <3>4. /\ got'[m] <= sent /\ (m \in sweep => got'[m] < sent)
          /\ \A k \in DOMAIN queue'[m] : got'[m] < queue'[m][k] /\ queue'[m][k] <= sent
          /\ m \in sweep => \A k \in DOMAIN queue'[m] : queue'[m][k] < sent
      BY <3>1, <3>2, <3>3 DEF Ordered
    <3>5. \A j, k \in DOMAIN queue'[m] : j < k => queue'[m][j] < queue'[m][k]
      <4>1. \A j, k \in DOMAIN queue'[m] : j < k => j + 1 < k + 1
        BY <3>3
      <4>2. QED
        BY <3>1, <3>2, <3>3, <4>1 DEF Ordered
    <3>6. QED
      BY <3>1, <3>4, <3>5 DEF Ordered
  <2>2. CASE m # l
    BY <1>0, <1>4, <2>2, OrderedKept DEF Receive, BroadcasterTypeOK
  <2>3. QED
    BY <2>1, <2>2
<1>5. ASSUME NEW l \in Loops, Unsubscribe(l) \/ FindClosed(l) \/ Leave(l) PROVE Ordered(m)'
  <2>1. UNCHANGED <<queue, got, sent, sweep>> /\ phase[m] # "idle"
    BY <1>0, <1>5 DEF Unsubscribe, FindClosed, Leave, BroadcasterTypeOK
  <2>2. QED
    BY <1>0, <2>1, OrderedKept
<1>6. CASE UNCHANGED broadcasterVars
  BY <1>0, <1>6, OrderedKept DEF broadcasterVars
<1>7. QED
  BY <1>1, <1>2, <1>3, <1>4, <1>5, <1>6 DEF BroadcasterNext

\* switcher.go:110-122: what a loop reads is a subsequence of the programme, in
\* order and nothing of it twice, whatever was dropped or subscribed again in
\* between.
InOrder ==
  \A l \in Loops : phase[l] # "idle" =>
    /\ \A k \in DOMAIN queue[l] : got[l] < queue[l][k] /\ queue[l][k] <= sent
    /\ \A j, k \in DOMAIN queue[l] : j < k => queue[l][j] < queue[l][k]
    /\ l \in sweep => \A k \in DOMAIN queue[l] : queue[l][k] < sent

LEMMA InitOrdered == BroadcasterInit => OInv
BY InitInv DEF BroadcasterInit, OInv

\* However packets are dropped and loops subscribe again, what a loop reads is
\* the programme in order and nothing of it twice (Broadcast, Subscribe).
THEOREM ReadInOrder == BroadcasterSpec => []InOrder
<1>1. OInv => InOrder
  BY DEF OInv, Ordered, InOrder
<1>2. QED
  BY <1>1, InitOrdered, NextOrdered, PTL DEF BroadcasterSpec

-----------------------------------------------------------------------------
(* Refinement: every step is one of Subscription or a stutter.             *)

\* What SMT has to know of a state that satisfies the invariant.
LEMMA Facts ==
  ASSUME OInv
  PROVE  /\ IInv /\ BroadcasterTypeOK /\ sent \in Nat /\ Cap \in Nat /\ NoLoop \notin Loops
         /\ \A l \in Loops : IdOf[l] \in Ids /\ queue[l] \in Seq(Packets)
         /\ \A l \in Loops : phase[l] # "idle" => Ordered(l)
         /\ \A l \in open : l \in Loops /\ phase[l] # "idle" /\ subscribers[IdOf[l]] = l
         /\ \A l \in sweep : l \in open /\ sent > 0
BY BroadcasterAssumption
   DEF BroadcasterAssumption, OInv, IInv, BroadcasterTypeOK, OneFeedPerId, NeverSendsOnClosed,
       SweepCarries

\* A channel that is being read buffers no packet twice, so that it is full when
\* as many packets are kept as there is room for.
LEMMA KeptSize ==
  ASSUME OInv, NEW l \in Loops, phase[l] # "idle"
  PROVE  Cardinality(Kept[l]) = Len(queue[l])
<1> DEFINE q == queue[l]
           n == Len(q)
<1>1. q \in Seq(Packets) /\ Ordered(l)
  BY Facts
<1>2. n \in Nat /\ DOMAIN q = 1..n /\ q = [k \in 1..n |-> q[k]]
  BY <1>1
<1>3. \A k \in 1..n : q[k] \in Nat
  <2>1. \A k \in 1..n : q[k] \in Packets
    BY <1>1
  <2>2. QED
    BY <2>1 DEF Packets
<1>4. \A j, k \in 1..n : j < k => q[j] < q[k]
  BY <1>1, <1>2 DEF Ordered
<1>5. \A j, k \in 1..n : q[j] = q[k] => j = k
  <2> SUFFICES ASSUME NEW j \in 1..n, NEW k \in 1..n, q[j] = q[k], j # k
               PROVE  FALSE
    OBVIOUS
  <2>1. j < k \/ k < j
    BY <1>2
  <2>2. QED
    BY <1>3, <1>4, <2>1
<1>6. Kept[l] = {q[k] : k \in 1..n}
  BY <1>2 DEF Kept
<1> HIDE DEF q, n
<1>7. q \in Surjection(1..n, Kept[l])
  BY <1>2, <1>6 DEF Surjection
<1>8. q \in Injection(1..n, Kept[l])
  BY <1>2, <1>5, <1>6 DEF Injection, IsInjective
<1>9. IsFiniteSet(1..n) /\ Cardinality(1..n) = n
  BY <1>2, FS_Interval
<1>10. Cardinality(Kept[l]) = n
  BY <1>7, <1>8, <1>9, FS_Surjection
<1>11. QED
  BY <1>10 DEF n, q

\* Both see a loop begin: what was fed under its id is closed.
LEMMA SubscribeMaps ==
  ASSUME OInv, NEW l \in Loops, Subscribe(l)
  PROVE  SB!Begin(l)
<1>1. /\ sweep = {} /\ sweep' = {} /\ UNCHANGED sent /\ phase[l] = "idle"
      /\ open' = (open \ {subscribers[IdOf[l]]}) \cup {l}
      /\ queue' = [queue EXCEPT ![l] = <<>>]
  BY DEF Subscribe, Unlocked
<1>2. l \notin open
  BY <1>1, Facts
<1>3. \A m \in Loops \ {l} :
        m \in open' <=> m \in open /\ IdOf[m] # IdOf[l]
  BY <1>1, Facts DEF IInv, RegisteredOpen
<1>4. Fed[l] = 0
  BY <1>2 DEF Fed
<1>5. Fed' = [SB!Cut(l) EXCEPT ![l] = sent + 1]
  BY <1>1, <1>3 DEF Fed, SB!Cut
<1>6. Kept' = [Kept EXCEPT ![l] = {}]
  <2>1. queue'[l] = <<>> /\ \A m \in Loops \ {l} : queue'[m] = queue[m]
    BY <1>1, Facts DEF BroadcasterTypeOK
  <2>2. {queue'[l][k] : k \in DOMAIN queue'[l]} = {}
    BY <2>1
  <2>3. QED
    BY <2>1, <2>2 DEF Kept
<1>7. QED
  BY <1>1, <1>4, <1>5, <1>6 DEF SB!Begin, Subscribe

\* Both see the subscription of an id end.
LEMMA UnsubscribeMaps ==
  ASSUME OInv, NEW l \in Loops, Unsubscribe(l)
  PROVE  SB!End(l)
<1>1. /\ sweep = {} /\ UNCHANGED <<sweep, sent, queue, got>>
      /\ open' = open \ {subscribers[IdOf[l]]}
  BY DEF Unsubscribe, Unlocked
<1>2. \A m \in Loops : m \in open' <=> m \in open /\ IdOf[m] # IdOf[l]
  BY <1>1, Facts DEF IInv, RegisteredOpen
<1>3. Fed' = SB!Cut(l)
  BY <1>1, <1>2 DEF Fed, SB!Cut
<1>4. UNCHANGED Kept
  BY <1>1 DEF Kept
<1>5. QED
  BY <1>1, <1>3, <1>4 DEF SB!End

\* A packet is sent to all that are fed when its sweep begins.
LEMMA BroadcastMaps == OInv /\ Broadcast => SB!Send
<1> SUFFICES ASSUME OInv, Broadcast PROVE SB!Send
  OBVIOUS
<1>1. /\ sweep = {} /\ sent' = sent + 1 /\ sent < MaxPackets
      /\ sweep' = {subscribers[i] : i \in Ids} \ {NoLoop}
      /\ UNCHANGED <<open, queue, got>>
  BY DEF Broadcast, Unlocked
<1>2. \A m \in open : m \in sweep'
  BY <1>1, Facts
<1>3. UNCHANGED Fed
  BY <1>1, <1>2 DEF Fed
<1>4. UNCHANGED Kept
  BY <1>1 DEF Kept
<1>5. QED
  BY <1>1, <1>3, <1>4 DEF SB!Send

\* The instance measures sets as this module does.
LEMMA SameSize == ASSUME NEW S PROVE SB!Cardinality(S) = Cardinality(S)
BY DEF SB!Cardinality, Cardinality

\* A loop of the sweep has been offered all but the packet that is sent.
LEMMA OfferMaps ==
  ASSUME OInv, NEW l \in Loops, Offer(l)
  PROVE  SB!Offer(l)
<1>1. /\ l \in sweep /\ sweep' = sweep \ {l} /\ UNCHANGED <<open, got, sent>>
      /\ queue' = IF Len(queue[l]) < Cap
                    THEN [queue EXCEPT ![l] = Append(@, sent)] ELSE queue
  BY DEF Offer
<1>2. l \in open /\ sent > 0 /\ phase[l] # "idle" /\ sent \in Nat
  BY <1>1, Facts
<1>3. Fed[l] = sent
  BY <1>1, <1>2 DEF Fed
<1>4. Fed' = [Fed EXCEPT ![l] = @ + 1]
  BY <1>1, <1>2, <1>3 DEF Fed
<1>5. Kept' = IF Cardinality(Kept[l]) < Cap
                THEN [Kept EXCEPT ![l] = @ \cup {Fed[l]}] ELSE Kept
  <2>1. Cardinality(Kept[l]) = Len(queue[l])
    BY <1>2, KeptSize
  <2>2. CASE Len(queue[l]) < Cap
    <3>1. /\ DOMAIN queue[l] = 1..Len(queue[l]) /\ Len(queue[l]) \in Nat
          /\ DOMAIN queue'[l] = 1..(Len(queue[l]) + 1)
          /\ \A k \in DOMAIN queue[l] : queue'[l][k] = queue[l][k]
          /\ queue'[l][Len(queue[l]) + 1] = sent
      <4>1. sent \in Packets
        BY <1>2, Facts DEF BroadcasterTypeOK, Packets
      <4>2. QED
        BY <1>1, <2>2, <4>1, Facts, AppendProperties DEF BroadcasterTypeOK
    <3>2. DOMAIN queue'[l] = DOMAIN queue[l] \cup {Len(queue[l]) + 1}
      BY <3>1
    <3>3. {queue'[l][k] : k \in DOMAIN queue'[l]}
            = {queue[l][k] : k \in DOMAIN queue[l]} \cup {sent}
      BY <3>1, <3>2
    <3>4. \A m \in Loops \ {l} : queue'[m] = queue[m]
      BY <1>1, Facts DEF BroadcasterTypeOK
    <3>5. Kept' = [Kept EXCEPT ![l] = @ \cup {sent}]
      BY <3>3, <3>4 DEF Kept
    <3>6. QED
      BY <1>3, <2>1, <2>2, <3>5
  <2>3. CASE ~(Len(queue[l]) < Cap)
    BY <1>1, <2>1, <2>3 DEF Kept
  <2>4. QED
    BY <2>2, <2>3
<1>6. QED
  BY <1>1, <1>2, <1>3, <1>4, <1>5, SameSize DEF SB!Offer

\* The head of a channel is the oldest packet it keeps.
LEMMA ReceiveMaps ==
  ASSUME OInv, NEW l \in Loops, Receive(l)
  PROVE  SB!Read(l)
<1> DEFINE q == queue[l]
           n == Len(q)
<1>1. /\ phase[l] = "reading" /\ q # <<>> /\ UNCHANGED <<open, sent, sweep>>
      /\ got' = [got EXCEPT ![l] = Head(q)] /\ queue' = [queue EXCEPT ![l] = Tail(@)]
  BY DEF Receive
<1>2. /\ q \in Seq(Packets) /\ queue \in [Loops -> Seq(Packets)]
      /\ \A j, k \in DOMAIN q : j < k => q[j] < q[k]
  BY <1>1, Facts DEF BroadcasterTypeOK, Ordered
<1>3. /\ n \in Nat /\ n > 0 /\ DOMAIN q = 1..n /\ Head(q) = q[1]
      /\ DOMAIN Tail(q) = 1..(n - 1)
      /\ \A k \in 1..(n - 1) : Tail(q)[k] = q[k + 1]
  BY <1>1, <1>2, HeadTailProperties
<1>4. \A k \in 1..n : q[k] \in Nat
  <2>1. \A k \in 1..n : q[k] \in Packets
    BY <1>2, <1>3
  <2>2. QED
    BY <2>1 DEF Packets
<1>5. Kept[l] = {q[k] : k \in 1..n} /\ Kept \in [Loops -> {Kept[m] : m \in Loops}]
  BY <1>3 DEF Kept
<1>6. Kept'[l] = {Tail(q)[k] : k \in 1..(n - 1)}
  <2>1. queue'[l] = Tail(q)
    BY <1>1, <1>2
  <2>2. QED
    BY <1>3, <2>1 DEF Kept
<1>7. \A m \in Loops \ {l} : Kept'[m] = Kept[m]
  BY <1>1, <1>2 DEF Kept
<1>8. DOMAIN Kept' = Loops /\ Kept' = [m \in Loops |-> Kept'[m]]
  BY DEF Kept
<1>9. UNCHANGED Fed
  BY <1>1 DEF Fed
<1> HIDE DEF q, n
<1>10. 1 \in 1..n /\ \A k \in 1..n : k # 1 => q[1] < q[k]
  BY <1>2, <1>3
<1>11. q[1] \in Kept[l] /\ \A p \in Kept[l] : q[1] <= p
  BY <1>4, <1>5, <1>10
<1>12. Kept'[l] = Kept[l] \ {q[1]}
  <2>1. ASSUME NEW p \in Kept'[l] PROVE p \in Kept[l] \ {q[1]}
    <3>1. PICK k \in 1..(n - 1) : p = q[k + 1]
      BY <1>3, <1>6
    <3>2. k + 1 \in 1..n /\ k + 1 # 1
      BY <1>3
    <3>3. QED
      BY <1>4, <1>5, <1>10, <3>1, <3>2
  <2>2. ASSUME NEW p \in Kept[l], p # q[1] PROVE p \in Kept'[l]
    <3>1. PICK k \in 1..n : p = q[k]
      BY <1>5
    <3>2. k - 1 \in 1..(n - 1) /\ (k - 1) + 1 = k
      BY <1>3, <2>2, <3>1
    <3>3. p = Tail(q)[k - 1]
      BY <1>3, <3>1, <3>2
    <3>4. QED
      BY <1>6, <3>2, <3>3
  <2>3. QED
    BY <2>1, <2>2
<1>13. Kept' = [Kept EXCEPT ![l] = @ \ {q[1]}]
  BY <1>5, <1>7, <1>8, <1>12
<1>14. QED
  BY <1>1, <1>3, <1>9, <1>11, <1>13 DEF SB!Read, q

\* Every step of the broadcaster and its loops is one of Subscription or shows
\* nothing of it: a loop that is on its way out is fed until it unsubscribes.
LEMMA NextMaps == OInv /\ [BroadcasterNext]_broadcasterVars => [SB!Next]_(SB!subscriptionVars)
<1> SUFFICES ASSUME OInv, [BroadcasterNext]_broadcasterVars PROVE [SB!Next]_(SB!subscriptionVars)
  OBVIOUS
<1>1. UNCHANGED <<open, queue, got, sent, sweep>> => UNCHANGED SB!subscriptionVars
  BY DEF SB!subscriptionVars, Fed, Kept
<1>2. ASSUME NEW l \in Loops, FindClosed(l) \/ Leave(l)
      PROVE  UNCHANGED SB!subscriptionVars
  BY <1>1, <1>2 DEF FindClosed, Leave
<1>3. CASE UNCHANGED broadcasterVars
  BY <1>1, <1>3 DEF broadcasterVars
<1>4. CASE BroadcasterNext
  BY <1>2, <1>4, BroadcastMaps, SubscribeMaps, UnsubscribeMaps, OfferMaps, ReceiveMaps
     DEF BroadcasterNext, SB!Next
<1>5. QED
  BY <1>3, <1>4

\* Nobody is fed before anybody subscribes.
LEMMA InitMaps == BroadcasterInit => SB!Init
BY DEF BroadcasterInit, SB!Init, Fed, Kept

\* switcher.go:89-122: for any loops, ids and capacity, a loop is offered each
\* packet that is broadcast from its subscription to its end, in order and once,
\* and misses one only when its channel is full.
THEOREM ImplementsSubscription == BroadcasterSpec => Delivers
<1>1. BroadcasterSpec => SB!Init /\ [][SB!Next]_(SB!subscriptionVars)
  BY InitMaps, InitOrdered, NextOrdered, NextMaps, PTL DEF BroadcasterSpec
<1>2. QED
  BY <1>1, PTL DEF Delivers, SB!Spec
=============================================================================
