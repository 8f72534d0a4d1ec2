---------------------------- MODULE Broadcaster ----------------------------
(***************************************************************************)
(* The Broadcaster of switcher.go and the loops that subscribe to it: the  *)
(* recorder's, the preview's and those of the outputs.  A loop subscribes  *)
(* under the id of its component, reads its channel until it leaves or     *)
(* finds it closed, and then unsubscribes the id.  Two loops of one        *)
(* component can be alive at once, when a new one starts before the old    *)
(* one has left.  The relay's Run is the only sender.                      *)
(*                                                                         *)
(* A loop owns at most one channel, so the channel bears its name.         *)
(* Packets are numbered in the order they are broadcast.                   *)
(***************************************************************************)
EXTENDS Integers, Sequences

CONSTANTS
  Loops,       \* goroutines that read a channel
  Ids,         \* subscriber ids
  IdOf,        \* the id each loop subscribes under
  NoLoop,      \* no entry in the map
  Cap,         \* capacity of a channel (5000 in the code)
  MaxPackets   \* bound: packets broadcast

ASSUME BroadcasterAssumption ==
  /\ IdOf \in [Loops -> Ids]
  /\ NoLoop \notin Loops
  /\ Cap \in Nat \ {0}
  /\ MaxPackets \in Nat

VARIABLES
  subscribers,  \* b.subscribers: the channel of each id, or NoLoop
  open,         \* channels that were made and not closed
  queue,        \* what is buffered in each channel
  phase,        \* where each loop is: "idle", "reading" or "leaving"
  got,          \* the last packet each loop has read
  sent,         \* packets broadcast so far
  sweep         \* channels the broadcast under way has not come to; it holds
                \* the read lock until there are none

broadcasterVars == <<subscribers, open, queue, phase, got, sent, sweep>>

Packets == 1..MaxPackets

BroadcasterTypeOK ==
  /\ subscribers \in [Ids -> Loops \cup {NoLoop}]
  /\ open \subseteq Loops
  /\ queue \in [Loops -> Seq(Packets)]
  /\ \A l \in Loops : Len(queue[l]) <= Cap
  /\ phase \in [Loops -> {"idle", "reading", "leaving"}]
  /\ got \in [Loops -> 0..MaxPackets]
  /\ sent \in 0..MaxPackets
  /\ sweep \subseteq Loops

BroadcasterInit ==
  /\ subscribers = [i \in Ids |-> NoLoop]
  /\ open = {}
  /\ queue = [l \in Loops |-> <<>>]
  /\ phase = [l \in Loops |-> "idle"]
  /\ got = [l \in Loops |-> 0]
  /\ sent = 0
  /\ sweep = {}

-----------------------------------------------------------------------------
\* The write lock is free: no broadcast holds the read lock.
Unlocked == sweep = {}

\* A loop starts.  Subscribe closes the channel its id had before.
Subscribe_LeavesOpen(l) ==
  /\ phase[l] = "idle" /\ Unlocked
  /\ open' = open \cup {l}
  /\ subscribers' = [subscribers EXCEPT ![IdOf[l]] = l]
  /\ queue' = [queue EXCEPT ![l] = <<>>]
  /\ phase' = [phase EXCEPT ![l] = "reading"]
  /\ got' = [got EXCEPT ![l] = 0]
  /\ UNCHANGED <<sent, sweep>>
Subscribe(l) ==
  /\ phase[l] = "idle" /\ Unlocked
  /\ open' = (open \ {subscribers[IdOf[l]]}) \cup {l}
  /\ subscribers' = [subscribers EXCEPT ![IdOf[l]] = l]
  /\ queue' = [queue EXCEPT ![l] = <<>>]
  /\ phase' = [phase EXCEPT ![l] = "reading"]
  /\ got' = [got EXCEPT ![l] = 0]
  /\ UNCHANGED <<sent, sweep>>

\* A loop on its way out unsubscribes its id, whoever's channel that has now.
Unsubscribe_NoLock(l) ==
  /\ phase[l] = "leaving"
  /\ open' = open \ {subscribers[IdOf[l]]}
  /\ subscribers' = [subscribers EXCEPT ![IdOf[l]] = NoLoop]
  /\ phase' = [phase EXCEPT ![l] = "idle"]
  /\ UNCHANGED <<queue, got, sent, sweep>>
Unsubscribe(l) ==
  /\ phase[l] = "leaving" /\ Unlocked
  /\ open' = open \ {subscribers[IdOf[l]]}
  /\ subscribers' = [subscribers EXCEPT ![IdOf[l]] = NoLoop]
  /\ phase' = [phase EXCEPT ![l] = "idle"]
  /\ UNCHANGED <<queue, got, sent, sweep>>

\* Run broadcasts a packet: it takes the read lock ...
Broadcast ==
  /\ Unlocked /\ sent < MaxPackets
  /\ sent' = sent + 1
  /\ sweep' = {subscribers[i] : i \in Ids} \ {NoLoop}
  /\ UNCHANGED <<subscribers, open, queue, phase, got>>

\* ... and offers the packet to the channels one by one: a full one drops it.
Offer_Retries(l) ==
  /\ l \in sweep
  /\ IF Len(queue[l]) < Cap
       THEN /\ queue' = [queue EXCEPT ![l] = Append(@, sent)]
            /\ sweep' = sweep \ {l}
       ELSE UNCHANGED <<queue, sweep>>
  /\ UNCHANGED <<subscribers, open, phase, got, sent>>
Offer_Returns(l) ==
  /\ l \in sweep
  /\ IF Len(queue[l]) < Cap
       THEN queue' = [queue EXCEPT ![l] = Append(@, sent)] /\ sweep' = sweep \ {l}
       ELSE sweep' = {} /\ UNCHANGED queue
  /\ UNCHANGED <<subscribers, open, phase, got, sent>>
Offer(l) ==
  /\ l \in sweep
  /\ queue' = IF Len(queue[l]) < Cap
                THEN [queue EXCEPT ![l] = Append(@, sent)] ELSE queue
  /\ sweep' = sweep \ {l}
  /\ UNCHANGED <<subscribers, open, phase, got, sent>>

\* A loop reads a packet: a closed channel still yields what it buffers.
Receive(l) ==
  /\ phase[l] = "reading" /\ queue[l] # <<>>
  /\ got' = [got EXCEPT ![l] = Head(queue[l])]
  /\ queue' = [queue EXCEPT ![l] = Tail(@)]
  /\ UNCHANGED <<subscribers, open, phase, sent, sweep>>

\* A loop finds its channel closed and empty.
FindClosed(l) ==
  /\ phase[l] = "reading" /\ queue[l] = <<>> /\ l \notin open
  /\ phase' = [phase EXCEPT ![l] = "leaving"]
  /\ UNCHANGED <<subscribers, open, queue, got, sent, sweep>>

\* A loop leaves by itself: it was stopped, a write failed, a process ended.
Leave(l) ==
  /\ phase[l] = "reading"
  /\ phase' = [phase EXCEPT ![l] = "leaving"]
  /\ UNCHANGED <<subscribers, open, queue, got, sent, sweep>>

BroadcasterNext ==
  \/ Broadcast
  \/ \E l \in Loops :
       \/ Subscribe(l) \/ Unsubscribe(l) \/ Offer(l)
       \/ Receive(l) \/ FindClosed(l) \/ Leave(l)

BroadcasterSpec == BroadcasterInit /\ [][BroadcasterNext]_broadcasterVars

\* Run goes through the map; a loop that is blocked in a write never reads.
BroadcasterFairness == \A l \in Loops : WF_broadcasterVars(Offer(l))

-----------------------------------------------------------------------------
(* Properties.                                                             *)

\* The sender never meets a closed channel, which would panic: a channel is
\* only closed by whoever takes it out of the map, and never under a sweep.
NeverSendsOnClosed == sweep \subseteq open

\* Only the channel registered for an id is open, and its loop still has to
\* unsubscribe.  So of two loops of one component one alone is fed, no loop
\* waits for ever on a channel that nobody sends to or closes, and no channel
\* stays in the map for good.
OneFeedPerId ==
  \A l \in open : subscribers[IdOf[l]] = l /\ phase[l] # "idle"

\* A subscriber that never reads holds up neither the programme nor those who
\* wait for the write lock: every broadcast comes to its end.
SlowNeverBlocks == ~Unlocked ~> Unlocked

\* Whichever loops come, overtake each other and go, before a sweep or between
\* two offers of other loops, the broadcaster keeps the promise of Subscription:
\* a loop is offered each packet that is broadcast while its channel is open, in
\* order and once, and misses one only when its channel is full.
Fed ==
  [l \in Loops |-> IF l \notin open THEN 0 ELSE IF l \in sweep THEN sent ELSE sent + 1]
Kept == [l \in Loops |-> {queue[l][k] : k \in DOMAIN queue[l]}]
SB == INSTANCE Subscription WITH next <- Fed, kept <- Kept
Delivers == SB!Spec
=============================================================================
