---------------------------- MODULE Subscription ----------------------------
(***************************************************************************)
(* What a broadcast promises those who subscribe.  A loop that is fed is   *)
(* offered every packet that is sent from then on, one after the other;    *)
(* what it has not read yet is kept, and a packet is lost to it only when  *)
(* as many are kept as there is room for.  It reads the oldest first.      *)
(* Of the loops of one id the last that began is fed alone, until any of   *)
(* them ends the subscription; what is kept by then can still be read.     *)
(***************************************************************************)
EXTENDS Integers, FiniteSets

CONSTANTS Loops, IdOf, Cap, MaxPackets

VARIABLES
  next,   \* the packet each loop is to be offered next; 0 when it is not fed
  kept,   \* the packets that wait for each loop
  got,    \* the last packet each loop has read
  sent    \* packets sent so far

subscriptionVars == <<next, kept, got, sent>>

Init ==
  /\ next = [l \in Loops |-> 0]
  /\ kept = [l \in Loops |-> {}]
  /\ got = [l \in Loops |-> 0]
  /\ sent = 0

\* Those of l's id, none of which is fed from here on ...
Cut(l) == [m \in Loops |-> IF IdOf[m] = IdOf[l] THEN 0 ELSE next[m]]

\* ... when it is ended, or but l itself when it begins.
Begin(l) ==
  /\ next[l] = 0
  /\ next' = [Cut(l) EXCEPT ![l] = sent + 1]
  /\ kept' = [kept EXCEPT ![l] = {}]
  /\ got' = [got EXCEPT ![l] = 0]
  /\ UNCHANGED sent
End(l) ==
  /\ next' = Cut(l)
  /\ UNCHANGED <<kept, got, sent>>

Send ==
  /\ sent < MaxPackets
  /\ sent' = sent + 1
  /\ UNCHANGED <<next, kept, got>>

\* A loop is offered its next packet.
Offer(l) ==
  /\ next[l] # 0 /\ next[l] <= sent
  /\ next' = [next EXCEPT ![l] = @ + 1]
  /\ kept' = IF Cardinality(kept[l]) < Cap
               THEN [kept EXCEPT ![l] = @ \cup {next[l]}] ELSE kept
  /\ UNCHANGED <<got, sent>>

\* A loop reads the oldest packet that is kept for it.
Read(l) ==
  \E p \in kept[l] :
    /\ \A q \in kept[l] : p <= q
    /\ got' = [got EXCEPT ![l] = p]
    /\ kept' = [kept EXCEPT ![l] = @ \ {p}]
    /\ UNCHANGED <<next, sent>>

Next == Send \/ \E l \in Loops : Begin(l) \/ End(l) \/ Offer(l) \/ Read(l)
Spec == Init /\ [][Next]_subscriptionVars
=============================================================================
