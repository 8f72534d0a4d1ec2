------------------------- MODULE MultiplexerProofs -------------------------
(***************************************************************************)
(* That the aligner's packets do not depend on where the reads cut the     *)
(* stream, and that the parser finds in the packets of a multiplexer what  *)
(* they say - the program, its streams and its keyframes - for any bytes,  *)
(* any size of packets, any reads, and any programs, descriptors, pointer  *)
(* fields and pictures.  Checked by TLAPS.                                 *)
(*                                                                         *)
(* What the recursive definitions (Starts, Ends, Streams) are is shown     *)
(* with least counterexamples.                                             *)
(***************************************************************************)
EXTENDS Multiplexer, ListLemmas

\* The size of a packet.
LEMMA SizeNat == PacketSize \in Nat /\ PacketSize # 0
BY AlignerAssumption DEF AlignerAssumption

\* A pair of sync bytes begins a whole packet.
LEMMA PairsFacts ==
  ASSUME NEW s \in Seq(Bytes), NEW p \in Nat, p # 0
  PROVE  /\ Pairs(s, p) \subseteq Nat
         /\ \A q : q \in Pairs(s, p) <=>
              q \in Nat /\ p <= q /\ q + PacketSize <= Len(s) /\ s[q] = Sync /\ s[q + PacketSize] = Sync
         /\ Pairs(s, p) # {} =>
              /\ Min(Pairs(s, p)) \in Pairs(s, p)
              /\ \A q \in Pairs(s, p) : Min(Pairs(s, p)) <= q
<1>1. Len(s) \in Nat
  OBVIOUS
<1>2. \A q \in p..End(s) - 1 : q \in Nat /\ p <= q /\ q + PacketSize <= Len(s)
  BY <1>1, SizeNat DEF End
<1>3. \A q \in Nat : p <= q /\ q + PacketSize <= Len(s) => q \in p..End(s) - 1
  BY <1>1, SizeNat DEF End
<1>4. Pairs(s, p) \subseteq Nat
  BY <1>2 DEF Pairs
<1>5. QED
  BY <1>2, <1>3, <1>4, MinNat DEF Pairs

-----------------------------------------------------------------------------
\* The body of the recursion, ...
Body(s, f, p) ==
  IF p > End(s) THEN <<>>
  ELSE IF s[p] = Sync THEN <<p>> \o f[p + PacketSize]
  ELSE IF Pairs(s, p) = {} THEN <<>> ELSE f[Min(Pairs(s, p))]

\* ... which only asks for what comes later, ...
LEMMA BodyLooksAhead ==
  ASSUME NEW s \in Seq(Bytes), NEW f, NEW g, NEW p \in 1..Len(s) + 1,
         \A q \in 1..Len(s) + 1 : q > p => f[q] = g[q]
  PROVE  Body(s, f, p) = Body(s, g, p)
<1>1. Len(s) \in Nat /\ p \in Nat /\ p # 0
  OBVIOUS
<1>2. p <= End(s) => p + PacketSize \in 1..Len(s) + 1 /\ p + PacketSize > p
  BY <1>1, SizeNat DEF End
<1>3. ASSUME s[p] # Sync, Pairs(s, p) # {}
      PROVE  Min(Pairs(s, p)) \in 1..Len(s) + 1 /\ Min(Pairs(s, p)) > p
  <2>1. PICK m \in Pairs(s, p) : m = Min(Pairs(s, p))
    BY <1>1, <1>3, PairsFacts
  <2>2. m \in Nat /\ p <= m /\ m + PacketSize <= Len(s) /\ s[m] = Sync
    BY <1>1, PairsFacts
  <2>3. m # p
    BY <1>3, <2>2
  <2>4. QED
    BY <1>1, <2>1, <2>2, <2>3, SizeNat
<1>4. End(s) \in Int
  BY <1>1, SizeNat DEF End
<1>5. p > End(s) \/ p <= End(s)
  BY <1>1, <1>4
<1>6. QED
  BY <1>2, <1>3, <1>5 DEF Body

\* ... so that there is a function that solves it from any position on, ...
Solves(s, f, m) ==
  /\ f = [p \in 1..Len(s) + 1 |-> f[p]]
  /\ \A p \in 1..Len(s) + 1 : p + m > Len(s) + 1 => f[p] = Body(s, f, p)
LEMMA Solvable ==
  ASSUME NEW s \in Seq(Bytes), NEW m \in Nat
  PROVE  \E f : Solves(s, f, m)
<1> DEFINE T == {k \in Nat : ~\E f : Solves(s, f, k)}
<1>1. SUFFICES ASSUME T # {} PROVE FALSE
  BY DEF T
<1>2. T \subseteq Nat
  OBVIOUS
<1>3. PICK k \in T : \A j \in T : k <= j
  BY <1>1, <1>2, LeastNat
<1>4. k \in Nat /\ Len(s) \in Nat /\ ~\E f : Solves(s, f, k)
  BY <1>3
<1>5. CASE k = 0
  <2> DEFINE f == [p \in 1..Len(s) + 1 |-> <<>>]
  <2>1. f = [p \in 1..Len(s) + 1 |-> f[p]]
    OBVIOUS
  <2>2. \A p \in 1..Len(s) + 1 : ~(p + k > Len(s) + 1)
    BY <1>4, <1>5
  <2> HIDE DEF f
  <2>3. Solves(s, f, k)
    BY <2>1, <2>2 DEF Solves
  <2>4. QED
    BY <1>4, <2>3
<1>6. CASE k # 0
  <2>1. k - 1 \in Nat /\ ~(k <= k - 1)
    BY <1>4, <1>6
  <2>2. k - 1 \notin T
    BY <1>3, <2>1
  <2>3. PICK f : Solves(s, f, k - 1)
    BY <2>1, <2>2
  <2> HIDE DEF T
  <2> DEFINE n == Len(s) + 2 - k
             g == [p \in 1..Len(s) + 1 |-> IF p = n THEN Body(s, f, n) ELSE f[p]]
  <2>4. n \in Int
    BY <1>4
  <2>5. g = [p \in 1..Len(s) + 1 |-> g[p]]
    OBVIOUS
  <2>6. \A p \in 1..Len(s) + 1 : g[p] = IF p = n THEN Body(s, f, n) ELSE f[p]
    OBVIOUS
  <2> HIDE DEF g
  <2>7. ASSUME NEW p \in 1..Len(s) + 1, p + k > Len(s) + 1
        PROVE  g[p] = Body(s, g, p)
    <3>1. p >= n /\ \A q \in 1..Len(s) + 1 : q > p => q # n
      BY <1>4, <2>7
    <3>2. Body(s, f, p) = Body(s, g, p)
      BY <2>6, <3>1, BodyLooksAhead
    <3>3. CASE p = n
      BY <2>6, <3>2, <3>3
    <3>4. CASE p # n
      <4>1. p + (k - 1) > Len(s) + 1
        BY <1>4, <3>1, <3>4
      <4>2. f[p] = Body(s, f, p)
        BY <2>3, <4>1 DEF Solves
      <4>3. QED
        BY <2>6, <3>2, <3>4, <4>2
    <3>5. QED
      BY <3>3, <3>4
  <2>8. Solves(s, g, k)
    BY <2>5, <2>7 DEF Solves
  <2>9. QED
    BY <1>4, <2>8
<1>7. QED
  BY <1>5, <1>6

\* ... and InStepAt is one that does from the first on.
LEMMA InStepIs ==
  ASSUME NEW s \in Seq(Bytes), NEW p \in 1..Len(s) + 1
  PROVE  InStepAt(s)[p] = Body(s, InStepAt(s), p)
<1> DEFINE At == CHOOSE g : g = [q \in 1..Len(s) + 1 |-> Body(s, g, q)]
<1>1. PICK f : Solves(s, f, Len(s) + 1)
  <2>1. Len(s) + 1 \in Nat
    OBVIOUS
  <2>2. QED
    BY <2>1, Solvable
<1>2. \A q \in 1..Len(s) + 1 : q + (Len(s) + 1) > Len(s) + 1
  OBVIOUS
<1>3. f = [q \in 1..Len(s) + 1 |-> Body(s, f, q)]
  <2>1. \A q \in 1..Len(s) + 1 : f[q] = Body(s, f, q)
    BY <1>1, <1>2 DEF Solves
  <2>2. f = [q \in 1..Len(s) + 1 |-> f[q]]
    BY <1>1 DEF Solves
  <2>3. [q \in 1..Len(s) + 1 |-> f[q]] = [q \in 1..Len(s) + 1 |-> Body(s, f, q)]
    BY <2>1
  <2>4. QED
    BY <2>2, <2>3
<1>4. At = [q \in 1..Len(s) + 1 |-> Body(s, At, q)]
  BY <1>3
<1>5. InStepAt(s) = At
  BY DEF InStepAt, Body
<1> HIDE DEF At
<1>6. QED
  BY <1>4, <1>5

-----------------------------------------------------------------------------
\* A chain of packets in s: the first begins at the first pair, the next where it
\* is expected, or at the first pair from there, ...
IsNext(s, p, q) ==
  /\ p <= End(s)
  /\ IF s[p] = Sync THEN q = p ELSE Pairs(s, p) # {} /\ q = Min(Pairs(s, p))
Chain(s, st) ==
  /\ st \in Seq(Nat)
  /\ \A k \in 1..Len(st) : 1 <= st[k] /\ st[k] <= End(s) /\ s[st[k]] = Sync
  /\ st # <<>> => Pairs(s, 1) # {} /\ st[1] = Min(Pairs(s, 1))
  /\ \A k \in 1..Len(st) - 1 : IsNext(s, st[k] + PacketSize, st[k + 1])
\* ... and where the one after the last is expected: there is none in s.
Expected(st) == IF st = <<>> THEN 1 ELSE st[Len(st)] + PacketSize
Complete(s, st) ==
  \/ Expected(st) > End(s)
  \/ Pairs(s, Expected(st)) = {} /\ (st = <<>> \/ s[Expected(st)] # Sync)

\* A complete chain is what the recursion finds.
LEMMA ChainIsFound ==
  ASSUME NEW s \in Seq(Bytes), NEW st, Chain(s, st), Complete(s, st)
  PROVE  st = IF Pairs(s, 1) = {} THEN <<>> ELSE InStepAt(s)[Min(Pairs(s, 1))]
<1> DEFINE At == InStepAt(s)
           n == Len(st)
<1>0. /\ st \in Seq(Nat) /\ n \in Nat /\ Len(s) \in Nat /\ End(s) \in Int /\ End(s) <= Len(s)
      /\ \A k \in 1..n : st[k] \in Nat
  BY SizeNat DEF Chain, End
<1>1. CASE st = <<>>
  <2>1. Expected(st) = 1 /\ (1 > End(s) => Pairs(s, 1) = {})
    <3>1. ASSUME 1 > End(s), NEW q \in Pairs(s, 1) PROVE FALSE
      <4>1. q \in Nat /\ 1 <= q /\ q + PacketSize <= Len(s)
        BY PairsFacts
      <4>2. QED
        BY <1>0, <3>1, <4>1, SizeNat DEF End
    <3>2. QED
      BY <1>1, <3>1 DEF Expected
  <2>2. QED
    BY <1>1, <2>1 DEF Complete
<1>2. CASE st # <<>>
  <2>1. n \in 1..n /\ 1 \in 1..n
    BY <1>0, <1>2
  <2>2. \A k \in 1..n : st[k] \in 1..Len(s) + 1 /\ st[k] + PacketSize \in 1..Len(s) + 1
                        /\ ~(st[k] > End(s)) /\ s[st[k]] = Sync
    <3> SUFFICES ASSUME NEW k \in 1..n
                 PROVE  st[k] \in 1..Len(s) + 1 /\ st[k] + PacketSize \in 1..Len(s) + 1
                        /\ ~(st[k] > End(s)) /\ s[st[k]] = Sync
      OBVIOUS
    <3>1. 1 <= st[k] /\ st[k] <= End(s) /\ s[st[k]] = Sync /\ st[k] \in Nat
      BY <1>0 DEF Chain
    <3>2. QED
      BY <1>0, <3>1, SizeNat DEF End
  <2> HIDE DEF At
  <2>3. \A k \in 1..n : At[st[k]] = <<st[k]>> \o At[st[k] + PacketSize]
    BY <2>2, InStepIs DEF Body, At
  <2>4. ASSUME NEW k \in 1..n - 1 PROVE At[st[k] + PacketSize] = At[st[k + 1]]
    <3> DEFINE p == st[k] + PacketSize
    <3>1. IsNext(s, p, st[k + 1]) /\ p \in 1..Len(s) + 1 /\ k \in 1..n
      BY <1>0, <2>2 DEF Chain
    <3> HIDE DEF p
    <3>2. At[p] = Body(s, At, p)
      BY <3>1, InStepIs DEF At
    <3>3. ~(p > End(s))
      BY <1>0, <3>1 DEF IsNext
    <3>4. CASE s[p] = Sync
      BY <3>1, <3>4 DEF IsNext, p
    <3>5. CASE s[p] # Sync
      BY <3>1, <3>2, <3>3, <3>5 DEF IsNext, Body, p
    <3>6. QED
      BY <3>4, <3>5
  <2>5. At[st[n] + PacketSize] = <<>>
    <3> DEFINE p == st[n] + PacketSize
    <3>1. p = Expected(st) /\ p \in 1..Len(s) + 1
      BY <1>2, <2>1, <2>2 DEF Expected
    <3> HIDE DEF p
    <3>2. At[p] = Body(s, At, p)
      BY <3>1, InStepIs DEF At
    <3>3. QED
      BY <1>2, <3>1, <3>2 DEF Complete, Body, p
  <2> DEFINE T == {j \in Nat : j < n /\ At[st[n - j]] # SubSeq(st, n - j, n)}
  <2>6. T = {}
    <3>1. SUFFICES ASSUME T # {} PROVE FALSE
      OBVIOUS
    <3>2. T \subseteq Nat
      OBVIOUS
    <3> HIDE DEF T
    <3>3. PICK j \in T : \A i \in T : j <= i
      BY <3>1, <3>2, LeastNat
    <3>4. j \in Nat /\ j < n /\ At[st[n - j]] # SubSeq(st, n - j, n)
      BY <3>3 DEF T
    <3> DEFINE k == n - j
    <3>5. k \in 1..n /\ n \in k..Len(st) /\ k = n - j
      BY <1>0, <3>4
    <3>9. At[st[k]] # SubSeq(st, k, n)
      BY <3>4
    <3> HIDE DEF k
    <3>6. SubSeq(st, k, n) = <<st[k]>> \o SubSeq(st, k + 1, n)
      BY <1>0, <3>5, SubSeqRecursiveFirst
    <3>7. At[st[k] + PacketSize] = SubSeq(st, k + 1, n)
      <4>1. CASE k = n
        <5>1. SubSeq(st, n + 1, n) = <<>>
          BY <1>0, SubSeqEmpty
        <5>2. QED
          BY <2>5, <4>1, <5>1
      <4>2. CASE k # n
        <5>1. k \in 1..n - 1 /\ j - 1 \in Nat /\ j - 1 < n /\ ~(j <= j - 1) /\ n - (j - 1) = k + 1
          <6>1. n \in Nat /\ k \in Nat /\ k <= n /\ k >= 1 /\ j \in Nat /\ k = n - j /\ j < n
            BY <1>0, <3>4, <3>5
          <6> HIDE DEF n
          <6>2. QED
            BY <4>2, <6>1
        <5>2. j - 1 \notin T
          BY <3>3, <5>1
        <5>3. At[st[n - (j - 1)]] = SubSeq(st, n - (j - 1), n)
          BY <5>1, <5>2 DEF T
        <5>4. QED
          BY <2>4, <5>1, <5>3
      <4>3. QED
        BY <4>1, <4>2
    <3>8. QED
      BY <2>3, <3>5, <3>6, <3>7, <3>9
  <2>7. At[st[1]] = SubSeq(st, 1, n)
    <3>1. n - 1 \in Nat /\ n - 1 < n /\ n - (n - 1) = 1
      BY <1>0, <2>1
    <3>2. n - 1 \notin T
      BY <2>6
    <3>3. At[st[n - (n - 1)]] = SubSeq(st, n - (n - 1), n)
      BY <3>1, <3>2
    <3>4. QED
      BY <3>1, <3>3
  <2>8. SubSeq(st, 1, n) = st
    BY <1>0, SubSeqFull
  <2>9. Pairs(s, 1) # {} /\ st[1] = Min(Pairs(s, 1))
    BY <1>2 DEF Chain
  <2>10. QED
    BY <2>7, <2>8, <2>9 DEF At
<1>3. QED
  BY <1>1, <1>2

\* More of the stream ...
LEMMA ConcatFacts ==
  ASSUME NEW s \in Seq(Bytes), NEW d \in Seq(Bytes)
  PROVE  /\ s \o d \in Seq(Bytes) /\ Len(s \o d) = Len(s) + Len(d) /\ Len(s) \in Nat /\ Len(d) \in Nat
         /\ \A i \in 1..Len(s) : (s \o d)[i] = s[i]
         /\ \A i \in 1..Len(d) : (s \o d)[Len(s) + i] = d[i]
BY ConcatProperties

\* ... leaves the first pair what it was, ...
LEMMA PairsStay ==
  ASSUME NEW s \in Seq(Bytes), NEW d \in Seq(Bytes), NEW p \in Nat, p # 0, Pairs(s, p) # {}
  PROVE  Pairs(s \o d, p) # {} /\ Min(Pairs(s \o d, p)) = Min(Pairs(s, p))
<1> DEFINE sd == s \o d
<1>1. /\ sd \in Seq(Bytes) /\ Len(sd) = Len(s) + Len(d) /\ Len(s) \in Nat /\ Len(d) \in Nat
      /\ \A i \in 1..Len(s) : sd[i] = s[i]
  BY ConcatFacts
<1> HIDE DEF sd
<1>2. PICK m \in Pairs(s, p) : m = Min(Pairs(s, p)) /\ \A q \in Pairs(s, p) : m <= q
  BY PairsFacts
<1>3. m \in Nat /\ p <= m /\ m + PacketSize <= Len(s) /\ s[m] = Sync /\ s[m + PacketSize] = Sync
  BY PairsFacts
<1>4. m \in 1..Len(s) /\ m + PacketSize \in 1..Len(s) /\ m + PacketSize <= Len(sd)
  BY <1>1, <1>3, SizeNat
<1>5. m \in Pairs(sd, p)
  BY <1>1, <1>3, <1>4, PairsFacts
<1>6. ASSUME NEW q \in Pairs(sd, p) PROVE m <= q
  <2>1. q \in Nat /\ p <= q /\ q + PacketSize <= Len(sd) /\ sd[q] = Sync /\ sd[q + PacketSize] = Sync
    BY <1>1, PairsFacts
  <2>2. CASE q < m
    <3>1. q \in 1..Len(s) /\ q + PacketSize \in 1..Len(s) /\ q + PacketSize <= Len(s)
      BY <1>1, <1>3, <2>1, <2>2, SizeNat
    <3>2. q \in Pairs(s, p)
      BY <1>1, <2>1, <3>1, PairsFacts
    <3>3. QED
      BY <1>2, <3>2
  <2>3. QED
    BY <1>3, <2>1, <2>2
<1>7. Min(Pairs(sd, p)) = m
  <2>1. Pairs(sd, p) \subseteq Nat
    BY <1>1, PairsFacts
  <2>2. QED
    BY <1>5, <1>6, <2>1, MinIs
<1>8. QED
  BY <1>2, <1>5, <1>7 DEF sd

\* ... and a chain a chain, of the same packets.
Packets(s, st) == [k \in DOMAIN st |-> SubSeq(s, st[k], st[k] + PacketSize - 1)]
LEMMA PacketsType ==
  ASSUME NEW s \in Seq(Bytes), NEW st \in Seq(Nat),
         \A k \in 1..Len(st) : 1 <= st[k] /\ st[k] <= End(s)
  PROVE  /\ Packets(s, st) \in Seq(Seq(Bytes)) /\ Len(Packets(s, st)) = Len(st)
         /\ \A k \in 1..Len(st) : Packets(s, st)[k] = SubSeq(s, st[k], st[k] + PacketSize - 1)
<1>1. ASSUME NEW k \in 1..Len(st)
      PROVE  SubSeq(s, st[k], st[k] + PacketSize - 1) \in Seq(Bytes)
  <2>1. st[k] \in Nat /\ Len(s) \in Nat /\ 1 <= st[k] /\ st[k] <= End(s)
    OBVIOUS
  <2>2. st[k] + PacketSize - 1 \in Int /\ st[k] + PacketSize - 1 <= Len(s)
    BY <2>1, SizeNat DEF End
  <2>3. \A i \in st[k]..st[k] + PacketSize - 1 : i \in 1..Len(s)
    BY <2>1, <2>2
  <2>4. \A i \in st[k]..st[k] + PacketSize - 1 : s[i] \in Bytes
    BY <2>3
  <2>5. QED
    BY <2>1, <2>2, <2>4, SubSeqProperties
<1>2. DOMAIN st = 1..Len(st) /\ Len(st) \in Nat
  OBVIOUS
<1>3. Packets(s, st) = [k \in 1..Len(st) |-> SubSeq(s, st[k], st[k] + PacketSize - 1)]
  BY <1>2 DEF Packets
<1> DEFINE n == Len(st)
           T == Seq(Bytes)
           f == Packets(s, st)
           r(k) == SubSeq(s, st[k], st[k] + PacketSize - 1)
<1>4. \A k \in 1..n : r(k) \in T
  BY <1>1
<1>5. f = [k \in 1..n |-> r(k)] /\ n \in Nat
  BY <1>2, <1>3
<1> HIDE DEF n, T, f, r
<1>6. f \in Seq(T) /\ Len(f) = n /\ \A k \in 1..n : f[k] = r(k)
  BY <1>4, <1>5
<1>7. QED
  BY <1>6 DEF n, T, f, r
LEMMA ChainStays ==
  ASSUME NEW s \in Seq(Bytes), NEW d \in Seq(Bytes), NEW st, Chain(s, st)
  PROVE  Chain(s \o d, st) /\ Packets(s \o d, st) = Packets(s, st)
<1> DEFINE sd == s \o d
<1>1. /\ sd \in Seq(Bytes) /\ Len(sd) = Len(s) + Len(d) /\ Len(s) \in Nat /\ Len(d) \in Nat
      /\ \A i \in 1..Len(s) : sd[i] = s[i]
  BY ConcatFacts
<1> HIDE DEF sd
<1>2. End(s) \in Int /\ End(sd) \in Int /\ End(s) <= End(sd) /\ End(s) <= Len(s)
  BY <1>1, SizeNat DEF End
<1>3. st \in Seq(Nat) /\ \A k \in 1..Len(st) : st[k] \in Nat
  BY DEF Chain
<1>4. ASSUME NEW k \in 1..Len(st)
      PROVE  1 <= st[k] /\ st[k] <= End(sd) /\ sd[st[k]] = Sync
  <2>1. 1 <= st[k] /\ st[k] <= End(s) /\ s[st[k]] = Sync /\ st[k] \in Nat
    BY <1>3 DEF Chain
  <2>2. st[k] \in 1..Len(s) /\ st[k] <= End(sd)
    BY <1>1, <1>2, <2>1
  <2>3. QED
    BY <1>1, <2>1, <2>2
<1>5. st # <<>> => Pairs(sd, 1) # {} /\ st[1] = Min(Pairs(sd, 1))
  BY PairsStay DEF Chain, sd
<1>6. ASSUME NEW k \in 1..Len(st) - 1
      PROVE  IsNext(sd, st[k] + PacketSize, st[k + 1])
  <2> DEFINE p == st[k] + PacketSize
  <2>1. k \in 1..Len(st) /\ IsNext(s, p, st[k + 1])
    BY <1>3 DEF Chain
  <2>2. p \in Nat /\ p # 0
    BY <1>3, <2>1, SizeNat
  <2> HIDE DEF p
  <2>3. p <= End(s) /\ p \in 1..Len(s) /\ p <= End(sd)
    BY <1>1, <1>2, <2>1, <2>2 DEF IsNext
  <2>4. sd[p] = s[p]
    BY <1>1, <2>3
  <2>5. Pairs(s, p) # {} => Pairs(sd, p) # {} /\ Min(Pairs(sd, p)) = Min(Pairs(s, p))
    BY <2>2, PairsStay DEF sd
  <2>6. IsNext(sd, p, st[k + 1])
    BY <2>1, <2>3, <2>4, <2>5 DEF IsNext
  <2>7. QED
    BY <2>6 DEF p
<1>7. Chain(sd, st)
  BY <1>3, <1>4, <1>5, <1>6 DEF Chain
<1>8. ASSUME NEW k \in DOMAIN st
      PROVE  SubSeq(sd, st[k], st[k] + PacketSize - 1) = SubSeq(s, st[k], st[k] + PacketSize - 1)
  <2>1. k \in 1..Len(st) /\ st[k] \in Nat /\ 1 <= st[k] /\ st[k] <= End(s)
    BY <1>3 DEF Chain
  <2>2. st[k] \in 1..Len(s) + 1 /\ st[k] + PacketSize - 1 \in st[k] - 1..Len(s)
    BY <1>1, <2>1, SizeNat DEF End
  <2>3. QED
    BY <2>2, SubSeqOfConcat1 DEF sd
<1>9. QED
  BY <1>7, <1>8 DEF Packets, sd

\* A chain goes on with what is next.
LEMMA ChainGoesOn ==
  ASSUME NEW s \in Seq(Bytes), NEW st, Chain(s, st),
         NEW q \in Nat, 1 <= q, q <= End(s), s[q] = Sync,
         st = <<>> => Pairs(s, 1) # {} /\ q = Min(Pairs(s, 1)),
         st # <<>> => IsNext(s, Expected(st), q)
  PROVE  /\ Chain(s, Append(st, q)) /\ Append(st, q) # <<>>
         /\ Expected(Append(st, q)) = q + PacketSize
         /\ Packets(s, Append(st, q)) = Append(Packets(s, st), SubSeq(s, q, q + PacketSize - 1))
<1> DEFINE ap == Append(st, q)
           n == Len(st)
<1>1. st \in Seq(Nat) /\ n \in Nat /\ \A k \in 1..n : st[k] \in Nat
  BY DEF Chain
<1>2. /\ ap \in Seq(Nat) /\ Len(ap) = n + 1 /\ ap[n + 1] = q /\ ap # <<>>
      /\ \A k \in 1..n : ap[k] = st[k]
  BY <1>1, AppendProperties
<1>3. st = <<>> <=> n = 0
  BY <1>1
<1> HIDE DEF ap
<1>4. ASSUME NEW k \in 1..n + 1 PROVE 1 <= ap[k] /\ ap[k] <= End(s) /\ s[ap[k]] = Sync
  <2>1. CASE k = n + 1
    BY <1>2, <2>1
  <2>2. CASE k # n + 1
    <3>1. k \in 1..n
      BY <1>1, <2>2
    <3>2. QED
      BY <1>2, <3>1 DEF Chain
  <2>3. QED
    BY <2>1, <2>2
<1>5. Pairs(s, 1) # {} /\ ap[1] = Min(Pairs(s, 1))
  <2>1. CASE n = 0
    BY <1>2, <1>3, <2>1
  <2>2. CASE n # 0
    <3>1. 1 \in 1..n
      BY <1>1, <2>2
    <3>2. QED
      BY <1>2, <1>3, <2>2, <3>1 DEF Chain
  <2>3. QED
    BY <2>1, <2>2
<1>6. ASSUME NEW k \in 1..n PROVE IsNext(s, ap[k] + PacketSize, ap[k + 1])
  <2>1. CASE k = n
    <3>1. Expected(st) = st[n] + PacketSize /\ st # <<>>
      BY <1>1, <1>3, <2>1 DEF Expected
    <3>2. QED
      BY <1>2, <2>1, <3>1
  <2>2. CASE k # n
    <3>1. k \in 1..n - 1 /\ k + 1 \in 1..n
      BY <1>1, <2>2
    <3>2. QED
      BY <1>2, <3>1 DEF Chain
  <2>3. QED
    BY <2>1, <2>2
<1>7. Chain(s, ap)
  <2>1. (n + 1) - 1 = n
    BY <1>1
  <2>2. QED
    BY <1>2, <1>4, <1>5, <1>6, <2>1 DEF Chain
<1>8. Expected(ap) = q + PacketSize
  BY <1>2 DEF Expected
<1>9. Packets(s, ap) = Append(Packets(s, st), SubSeq(s, q, q + PacketSize - 1))
  <2> DEFINE new == SubSeq(s, q, q + PacketSize - 1)
  <2>1. \A k \in 1..n + 1 : ap[k] \in Nat /\ 1 <= ap[k] /\ ap[k] <= End(s)
    BY <1>1, <1>2, <1>4
  <2>2. Packets(s, st) \in Seq(Seq(Bytes)) /\ Len(Packets(s, st)) = n
        /\ \A k \in 1..n : Packets(s, st)[k] = SubSeq(s, st[k], st[k] + PacketSize - 1)
    BY <1>1, PacketsType DEF Chain
  <2>3. Packets(s, ap) \in Seq(Seq(Bytes)) /\ Len(Packets(s, ap)) = n + 1
        /\ \A k \in 1..n + 1 : Packets(s, ap)[k] = SubSeq(s, ap[k], ap[k] + PacketSize - 1)
    BY <1>2, <2>1, PacketsType
  <2>4. n + 1 \in 1..n + 1
    BY <1>1
  <2>5. new \in Seq(Bytes)
    BY <1>2, <2>3, <2>4, ElementOfSeq
  <2>6. /\ Append(Packets(s, st), new) \in Seq(Seq(Bytes))
        /\ Len(Append(Packets(s, st), new)) = n + 1
        /\ \A k \in 1..n : Append(Packets(s, st), new)[k] = Packets(s, st)[k]
        /\ Append(Packets(s, st), new)[n + 1] = new
    <3> DEFINE T == Seq(Bytes)
               old == Packets(s, st)
    <3>1. old \in Seq(T) /\ Len(old) = n /\ new \in T
      BY <2>2, <2>5
    <3> HIDE DEF new, old, T
    <3>2. /\ Append(old, new) \in Seq(T) /\ Len(Append(old, new)) = n + 1
          /\ \A k \in 1..n : Append(old, new)[k] = old[k]
          /\ Append(old, new)[n + 1] = new
      BY <3>1, AppendProperties
    <3>3. QED
      BY <3>2 DEF old, T
  <2>7. \A k \in 1..n + 1 : Packets(s, ap)[k] = Append(Packets(s, st), new)[k]
    <3> TAKE k \in 1..n + 1
    <3>1. CASE k = n + 1
      BY <1>2, <2>3, <2>6, <3>1
    <3>2. CASE k # n + 1
      <4>1. k \in 1..n
        BY <1>1, <3>2
      <4>2. QED
        BY <1>2, <2>2, <2>3, <2>6, <4>1
    <3>3. QED
      BY <3>1, <3>2
  <2> HIDE DEF new
  <2>8. Packets(s, ap) = Append(Packets(s, st), new)
    BY <2>3, <2>6, <2>7, SeqEqual
  <2>9. QED
    BY <2>8 DEF new
<1>10. QED
  BY <1>2, <1>7, <1>8, <1>9 DEF ap

-----------------------------------------------------------------------------
LEMMA FromFacts ==
  ASSUME NEW b \in Seq(Bytes), NEW i \in 1..Len(b) + 1
  PROVE  /\ From(b, i) \in Seq(Bytes) /\ Len(From(b, i)) = Len(b) - i + 1
         /\ \A k \in 1..Len(b) - i + 1 : From(b, i)[k] = b[i + k - 1]
<1>1. Len(b) \in Nat /\ i \in Nat /\ 1 <= i /\ i <= Len(b) + 1
  OBVIOUS
<1>2. \A k \in i..Len(b) : b[k] \in Bytes
  <2>1. \A k \in i..Len(b) : k \in 1..Len(b)
    BY <1>1
  <2>2. QED
    BY <2>1
<1>3. /\ From(b, i) \in Seq(Bytes)
      /\ Len(From(b, i)) = IF i <= Len(b) THEN Len(b) - i + 1 ELSE 0
      /\ \A k \in 1..Len(b) - i + 1 : From(b, i)[k] = b[i + k - 1]
  BY <1>1, <1>2, SubSeqProperties DEF From
<1>4. QED
  BY <1>1, <1>3

\* What the aligner holds is the end of the stream: what comes after the first
\* Gone bytes.
Gone(b, s) == Len(s) - Len(b)
Held(b, s) ==
  /\ b \in Seq(Bytes) /\ s \in Seq(Bytes) /\ Len(b) <= Len(s)
  /\ \A i \in 1..Len(b) : b[i] = s[Gone(b, s) + i]

LEMMA HeldFacts ==
  ASSUME NEW b, NEW s, Held(b, s)
  PROVE  /\ b \in Seq(Bytes) /\ s \in Seq(Bytes) /\ Len(b) \in Nat /\ Len(s) \in Nat
         /\ Gone(b, s) \in Nat /\ Gone(b, s) + Len(b) = Len(s)
         /\ \A i \in 1..Len(b) : b[i] = s[Gone(b, s) + i]
<1>1. b \in Seq(Bytes) /\ s \in Seq(Bytes) /\ Len(b) \in Nat /\ Len(s) \in Nat /\ Len(b) <= Len(s)
  BY DEF Held
<1>2. QED
  BY <1>1 DEF Held, Gone

LEMMA HeldFrom ==
  ASSUME NEW b, NEW s, Held(b, s), NEW i \in 1..Len(b) + 1
  PROVE  Held(From(b, i), s) /\ Gone(From(b, i), s) = Gone(b, s) + i - 1
<1>1. /\ b \in Seq(Bytes) /\ s \in Seq(Bytes) /\ Len(b) \in Nat /\ Len(s) \in Nat
      /\ Gone(b, s) \in Nat /\ Gone(b, s) + Len(b) = Len(s)
  BY HeldFacts
<1>2. /\ From(b, i) \in Seq(Bytes) /\ Len(From(b, i)) = Len(b) - i + 1
      /\ \A k \in 1..Len(b) - i + 1 : From(b, i)[k] = b[i + k - 1]
  BY <1>1, FromFacts
<1>3. Gone(From(b, i), s) = Gone(b, s) + i - 1
  BY <1>1, <1>2 DEF Gone
<1>4. ASSUME NEW k \in 1..Len(b) - i + 1
      PROVE  From(b, i)[k] = s[(Gone(b, s) + i - 1) + k]
  <2>1. i + k - 1 \in 1..Len(b) /\ Gone(b, s) + (i + k - 1) = (Gone(b, s) + i - 1) + k
    BY <1>1
  <2>2. b[i + k - 1] = s[Gone(b, s) + (i + k - 1)]
    BY <2>1, HeldFacts
  <2>3. QED
    BY <1>2, <2>1, <2>2
<1>5. Len(From(b, i)) <= Len(s)
  BY <1>1, <1>2
<1>6. QED
  BY <1>1, <1>2, <1>3, <1>4, <1>5 DEF Held

LEMMA HeldFeeds ==
  ASSUME NEW b, NEW s, Held(b, s), NEW d \in Seq(Bytes)
  PROVE  Held(b \o d, s \o d) /\ Gone(b \o d, s \o d) = Gone(b, s)
<1> DEFINE bd == b \o d
           sd == s \o d
<1>1. /\ b \in Seq(Bytes) /\ s \in Seq(Bytes) /\ Len(b) \in Nat /\ Len(s) \in Nat
      /\ Gone(b, s) \in Nat /\ Gone(b, s) + Len(b) = Len(s)
      /\ \A i \in 1..Len(b) : b[i] = s[Gone(b, s) + i]
  BY HeldFacts
<1>2. /\ bd \in Seq(Bytes) /\ Len(bd) = Len(b) + Len(d) /\ Len(d) \in Nat
      /\ \A i \in 1..Len(b) : bd[i] = b[i]
      /\ \A i \in 1..Len(d) : bd[Len(b) + i] = d[i]
  BY <1>1, ConcatFacts
<1>3. /\ sd \in Seq(Bytes) /\ Len(sd) = Len(s) + Len(d)
      /\ \A i \in 1..Len(s) : sd[i] = s[i]
      /\ \A i \in 1..Len(d) : sd[Len(s) + i] = d[i]
  BY <1>1, ConcatFacts
<1> HIDE DEF bd, sd
<1>4. Gone(bd, sd) = Gone(b, s)
  BY <1>1, <1>2, <1>3 DEF Gone
<1>5. ASSUME NEW i \in 1..Len(bd) PROVE bd[i] = sd[Gone(b, s) + i]
  <2>1. CASE i <= Len(b)
    <3>1. i \in 1..Len(b) /\ Gone(b, s) + i \in 1..Len(s)
      BY <1>1, <2>1
    <3>2. QED
      BY <1>1, <1>2, <1>3, <3>1
  <2>2. CASE ~(i <= Len(b))
    <3>1. PICK j \in 1..Len(d) : i = Len(b) + j
      <4> DEFINE j == i - Len(b)
      <4>1. i \in Nat /\ i > Len(b) /\ i <= Len(b) + Len(d)
        BY <1>1, <1>2, <2>2
      <4>2. j \in 1..Len(d) /\ i = Len(b) + j
        BY <1>1, <1>2, <4>1
      <4>3. QED
        BY <4>2
    <3>2. Len(s) + j = Gone(b, s) + i
      <4>1. /\ Len(s) \in Nat /\ Len(b) \in Nat /\ Gone(b, s) \in Nat /\ j \in Nat
            /\ Gone(b, s) + Len(b) = Len(s)
        BY <1>1, <3>1
      <4>2. QED
        BY <3>1, <4>1
    <3>3. QED
      BY <1>2, <1>3, <3>1, <3>2
  <2>3. QED
    BY <2>1, <2>2
<1>6. Len(bd) <= Len(sd)
  BY <1>1, <1>2, <1>3
<1>7. QED
  BY <1>2, <1>3, <1>4, <1>5, <1>6 DEF Held, bd, sd

\* The packets so far are those of a chain: in step, the next one is expected at
\* the first byte held; out of step, there is none in the bytes that are gone; and
\* when there is no more to take, the bytes held are too few for one.
InStep(b, s, st) == st # <<>> /\ Gone(b, s) + 1 = Expected(st)
OutOfStep(b, s, st) ==
  /\ Gone(b, s) = 0 \/ Gone(b, s) + PacketSize <= Len(s)
  /\ Expected(st) <= Gone(b, s) + 1
  /\ \A q \in Expected(st)..Gone(b, s) : ~(s[q] = Sync /\ s[q + PacketSize] = Sync)
  /\ st # <<>> => Expected(st) <= End(s) /\ s[Expected(st)] # Sync
Follows(b, s, sy, o, st) ==
  /\ Held(b, s) /\ Chain(s, st) /\ o = Packets(s, st)
  /\ sy \in BOOLEAN
  /\ IF sy THEN InStep(b, s, st) ELSE OutOfStep(b, s, st)
TooFew(b, sy) == IF sy THEN Len(b) < PacketSize ELSE Len(b) <= PacketSize
AInv ==
  /\ \E st : Follows(buf, stream, synced, out, st)
  /\ ~taking => TooFew(buf, synced)
  /\ taking \in BOOLEAN

\* Where the next packet is expected.
LEMMA ExpectedFacts ==
  ASSUME NEW s \in Seq(Bytes), NEW st, Chain(s, st)
  PROVE  /\ Expected(st) \in Nat /\ 1 <= Expected(st) /\ End(s) \in Int /\ Len(s) \in Nat
         /\ st = <<>> => Expected(st) = 1
<1>1. CASE st = <<>>
  BY <1>1, SizeNat DEF Expected, End
<1>2. CASE st # <<>>
  <2>1. st \in Seq(Nat) /\ Len(st) \in 1..Len(st)
    BY <1>2 DEF Chain
  <2>2. st[Len(st)] \in Nat
    BY <2>1
  <2>3. QED
    BY <1>2, <2>2, SizeNat DEF Expected, End
<1>3. QED
  BY <1>1, <1>2

LEMMA FeedFollows ==
  ASSUME NEW b, NEW s, NEW sy, NEW o, NEW st, Follows(b, s, sy, o, st), NEW d \in Seq(Bytes)
  PROVE  Follows(b \o d, s \o d, sy, o, st)
<1> DEFINE bd == b \o d
           sd == s \o d
           e == Expected(st)
           c == Gone(b, s)
<1>1. /\ Held(b, s) /\ b \in Seq(Bytes) /\ s \in Seq(Bytes) /\ Len(s) \in Nat /\ Chain(s, st)
      /\ c \in Nat /\ c + Len(b) = Len(s) /\ Len(b) \in Nat
  BY HeldFacts DEF Follows
<1>2. /\ sd \in Seq(Bytes) /\ Len(sd) = Len(s) + Len(d) /\ Len(d) \in Nat
      /\ \A i \in 1..Len(s) : sd[i] = s[i]
  BY <1>1, ConcatFacts
<1>3. Held(bd, sd) /\ Gone(bd, sd) = c
  BY <1>1, HeldFeeds
<1>4. Chain(sd, st) /\ Packets(sd, st) = Packets(s, st)
  BY <1>1, ChainStays
<1>5. e \in Nat /\ 1 <= e
  BY <1>1, ExpectedFacts
<1> HIDE DEF bd, sd, e, c
<1>6. ASSUME ~sy PROVE OutOfStep(bd, sd, st)
  <2>1. /\ c = 0 \/ c + PacketSize <= Len(s)
        /\ e <= c + 1
        /\ \A q \in e..c : ~(s[q] = Sync /\ s[q + PacketSize] = Sync)
        /\ st # <<>> => e <= End(s) /\ s[e] # Sync
    BY <1>6 DEF Follows, OutOfStep, c, e
  <2>2. \A q \in e..c : q \in 1..Len(s) /\ q + PacketSize \in 1..Len(s)
    BY <1>1, <1>5, <2>1, SizeNat
  <2>3. \A q \in e..c : ~(sd[q] = Sync /\ sd[q + PacketSize] = Sync)
    BY <1>2, <2>1, <2>2
  <2>4. e <= End(s) => e \in 1..Len(s) /\ e <= End(sd)
    BY <1>1, <1>2, <1>5, SizeNat DEF End
  <2>5. st # <<>> => e <= End(sd) /\ sd[e] # Sync
    BY <1>2, <2>1, <2>4
  <2>6. c = 0 \/ c + PacketSize <= Len(sd)
    BY <1>1, <1>2, <2>1, SizeNat
  <2>7. QED
    BY <1>3, <2>1, <2>3, <2>5, <2>6 DEF OutOfStep, e
<1>7. sy => InStep(bd, sd, st)
  BY <1>3 DEF Follows, InStep, c
<1>8. QED
  BY <1>3, <1>4, <1>6, <1>7 DEF Follows, bd, sd

\* The first sync byte that another one follows.
LEMMA SyncIdxFacts ==
  ASSUME NEW b \in Seq(Bytes)
  PROVE  /\ SyncIdx(b) \in Nat
         /\ SyncIdx(b) # 0 =>
              /\ SyncIdx(b) + PacketSize <= Len(b)
              /\ b[SyncIdx(b)] = Sync /\ b[SyncIdx(b) + PacketSize] = Sync
              /\ \A i \in 1..SyncIdx(b) - 1 : ~(b[i] = Sync /\ b[i + PacketSize] = Sync)
         /\ SyncIdx(b) = 0 =>
              \A i \in 1..Len(b) - PacketSize : ~(b[i] = Sync /\ b[i + PacketSize] = Sync)
<1> DEFINE T == {i \in 1..Len(b) - PacketSize : b[i] = Sync /\ b[i + PacketSize] = Sync}
<1>1. Len(b) \in Nat /\ T \subseteq Nat
  OBVIOUS
<1>2. \A i \in T : i \in Nat /\ i >= 1 /\ i + PacketSize <= Len(b) /\ b[i] = Sync /\ b[i + PacketSize] = Sync
  BY <1>1, SizeNat
<1>3. \A i \in Nat : i >= 1 /\ i + PacketSize <= Len(b) /\ b[i] = Sync /\ b[i + PacketSize] = Sync => i \in T
  BY <1>1, SizeNat
<1>4. SyncIdx(b) = IF T = {} THEN 0 ELSE Min(T)
  BY DEF SyncIdx
<1>5. CASE T = {}
  BY <1>4, <1>5
<1>6. CASE T # {}
  <2> HIDE DEF T
  <2>1. PICK m \in T : m = SyncIdx(b) /\ \A k \in T : m <= k
    BY <1>1, <1>4, <1>6, MinNat
  <2>2. m \in Nat /\ m >= 1 /\ m + PacketSize <= Len(b) /\ b[m] = Sync /\ b[m + PacketSize] = Sync
    BY <1>2, <2>1
  <2>3. ASSUME NEW i \in 1..m - 1, b[i] = Sync, b[i + PacketSize] = Sync PROVE FALSE
    <3>1. i \in Nat /\ i >= 1 /\ i + PacketSize <= Len(b) /\ ~(m <= i)
      BY <1>1, <2>2, SizeNat
    <3>2. i \in T
      BY <1>3, <2>3, <3>1
    <3>3. QED
      BY <2>1, <3>1, <3>2
  <2>4. QED
    BY <2>1, <2>2, <2>3
<1>7. QED
  BY <1>5, <1>6

\* Where Next begins.
Begin(b, sy) == IF sy /\ b # <<>> /\ b[1] = Sync THEN 1 ELSE SyncIdx(b)

\* A packet that is found is the next of the chain.
LEMMA FoundFollows ==
  ASSUME NEW b, NEW s, NEW sy, NEW o, NEW st, Follows(b, s, sy, o, st),
         NEW i, i = Begin(b, sy), i # 0, Len(b) - i + 1 >= PacketSize
  PROVE  Follows(From(From(b, i), PacketSize + 1), s, TRUE,
                 Append(o, SubSeq(From(b, i), 1, PacketSize)), Append(st, Gone(b, s) + i))
<1> DEFINE e == Expected(st)
           c == Gone(b, s)
           q == c + i
           a == From(b, i)
           ap == Append(st, q)
<1>1. /\ Held(b, s) /\ b \in Seq(Bytes) /\ s \in Seq(Bytes) /\ Len(s) \in Nat /\ Chain(s, st)
      /\ c \in Nat /\ c + Len(b) = Len(s) /\ Len(b) \in Nat
  BY HeldFacts DEF Follows
<1>0. \A k \in 1..Len(b) : b[k] = s[c + k]
  BY HeldFacts DEF Follows
<1> HIDE DEF e, c
<1>2. e \in Nat /\ 1 <= e /\ (st = <<>> => e = 1) /\ End(s) = Len(s) - PacketSize + 1
  BY <1>1, ExpectedFacts DEF End, e
<1>3. i \in Nat /\ i >= 1 /\ i + PacketSize <= Len(b) + 1 /\ b[i] = Sync
  <2>1. CASE sy /\ b # <<>> /\ b[1] = Sync
    BY <1>1, <2>1, SizeNat DEF Begin
  <2>2. CASE ~(sy /\ b # <<>> /\ b[1] = Sync)
    <3>1. i = SyncIdx(b)
      BY <2>2 DEF Begin
    <3>2. i \in Nat /\ b[i] = Sync
      BY <1>1, <3>1, SyncIdxFacts
    <3>3. QED
      BY <1>1, <3>2, SizeNat
  <2>3. QED
    BY <2>1, <2>2
<1> DEFINE lb == Len(b)
           ls == Len(s)
           E == End(s)
<1>a. /\ lb \in Nat /\ ls \in Nat /\ c \in Nat /\ c + lb = ls
      /\ PacketSize \in Nat /\ PacketSize >= 1 /\ E = ls - PacketSize + 1
      /\ i \in Nat /\ i >= 1 /\ i + PacketSize <= lb + 1
  BY <1>1, <1>2, <1>3, SizeNat
<1> HIDE DEF lb, ls, E
<1>b. i <= lb /\ q \in Nat /\ 1 <= q /\ q <= E /\ c < q
  BY <1>a
<1>4. /\ i \in 1..Len(b) + 1 /\ i \in 1..Len(b)
      /\ q \in Nat /\ 1 <= q /\ q <= End(s) /\ c < q
  BY <1>a, <1>b DEF lb, E
<1>5. s[q] = Sync
  BY <1>0, <1>3, <1>4
<1> HIDE DEF q
<1>6. /\ st = <<>> => Pairs(s, 1) # {} /\ q = Min(Pairs(s, 1))
      /\ st # <<>> => IsNext(s, e, q)
  <2>1. CASE sy /\ b # <<>> /\ b[1] = Sync
    <3>1. st # <<>> /\ c + 1 = e /\ i = 1
      BY <2>1 DEF Follows, InStep, Begin, c, e
    <3>2. q = e
      BY <3>1 DEF q
    <3>3. QED
      BY <1>4, <1>5, <3>1, <3>2 DEF IsNext
  <2>2. CASE ~(sy /\ b # <<>> /\ b[1] = Sync)
    <3>1. i = SyncIdx(b)
      BY <2>2 DEF Begin
    <3>2. /\ i + PacketSize <= Len(b) /\ b[i] = Sync /\ b[i + PacketSize] = Sync
          /\ \A k \in 1..i - 1 : ~(b[k] = Sync /\ b[k + PacketSize] = Sync)
      BY <1>1, <3>1, SyncIdxFacts
    <3>3. e <= c + 1 /\ (st # <<>> => s[e] # Sync)
      <4>1. CASE sy
        <5>1. st # <<>> /\ c + 1 = e
          BY <4>1 DEF Follows, InStep, c, e
        <5>2. b # <<>> /\ 1 \in 1..Len(b)
          BY <1>1, <1>4
        <5>3. s[e] = b[1]
          BY <1>0, <5>1, <5>2
        <5>4. QED
          BY <1>1, <1>2, <2>2, <4>1, <5>1, <5>2, <5>3
      <4>2. CASE ~sy
        BY <4>2 DEF Follows, OutOfStep, c, e
      <4>3. QED
        BY <4>1, <4>2
    <3>4. ASSUME NEW k \in e..c, s[k] = Sync, s[k + PacketSize] = Sync PROVE FALSE
      <4>1. CASE sy
        <5>1. c + 1 = e
          BY <4>1 DEF Follows, InStep, c, e
        <5>2. QED
          BY <1>1, <1>2, <5>1
      <4>2. CASE ~sy
        BY <3>4, <4>2 DEF Follows, OutOfStep, c, e
      <4>3. QED
        BY <4>1, <4>2
    <3>5. i + PacketSize \in 1..Len(b) /\ c + (i + PacketSize) = q + PacketSize
      <4>1. i + PacketSize <= lb
        BY <3>2 DEF lb
      <4>2. i + PacketSize \in 1..lb /\ c + (i + PacketSize) = q + PacketSize
        BY <1>a, <4>1 DEF q
      <4>3. QED
        BY <4>2 DEF lb
    <3>6. s[q + PacketSize] = Sync
      BY <1>0, <3>2, <3>5
    <3>7. e <= q /\ q + PacketSize <= Len(s) /\ e <= End(s)
      <4>1. i + PacketSize <= lb /\ e <= c + 1 /\ e \in Nat
        BY <1>2, <3>2, <3>3 DEF lb
      <4>2. e <= q /\ e <= E /\ q + PacketSize <= ls
        BY <1>a, <4>1 DEF q
      <4>3. QED
        BY <4>2 DEF E, ls
    <3>8. q \in Pairs(s, e)
      <4>1. q \in Nat /\ e <= q /\ q + PacketSize <= Len(s) /\ s[q] = Sync /\ s[q + PacketSize] = Sync
        BY <1>4, <1>5, <3>6, <3>7
      <4>2. s \in Seq(Bytes) /\ e \in Nat /\ e # 0
        BY <1>1, <1>2
      <4>3. QED
        BY <4>1, <4>2, PairsFacts
    <3>9. ASSUME NEW k \in Pairs(s, e) PROVE q <= k
      <4>1. k \in Nat /\ e <= k /\ k + PacketSize <= Len(s) /\ s[k] = Sync /\ s[k + PacketSize] = Sync
        BY <1>1, <1>2, PairsFacts
      <4>2. CASE k <= c
        <5>1. k \in e..c
          BY <1>1, <1>2, <4>1, <4>2
        <5>2. QED
          BY <3>4, <4>1, <5>1
      <4>3. CASE ~(k <= c) /\ k < q
        <5>1. PICK j \in 1..i - 1 : k = c + j
          <6> DEFINE j == k - c
          <6>1. j \in 1..i - 1 /\ k = c + j
            BY <1>1, <1>3, <4>1, <4>3 DEF q
          <6>2. QED
            BY <6>1
        <5>2. /\ j \in 1..Len(b) /\ j + PacketSize \in 1..Len(b)
              /\ c + (j + PacketSize) = k + PacketSize
          <6>1. j \in Nat /\ j >= 1 /\ j + 1 <= i /\ k \in Nat /\ i + PacketSize <= lb
            BY <1>3, <3>2, <4>1, <5>1 DEF lb
          <6>2. j \in 1..lb /\ j + PacketSize \in 1..lb /\ c + (j + PacketSize) = k + PacketSize
            BY <1>a, <5>1, <6>1
          <6>3. QED
            BY <6>2 DEF lb
        <5>3. b[j] = s[k] /\ b[j + PacketSize] = s[k + PacketSize]
          BY <1>0, <5>1, <5>2
        <5>4. QED
          BY <3>2, <4>1, <5>1, <5>3
      <4>4. QED
        BY <1>1, <1>4, <4>1, <4>2, <4>3
    <3>10. Pairs(s, e) # {} /\ q = Min(Pairs(s, e))
      <4>1. Pairs(s, e) \subseteq Nat
        BY <1>1, <1>2, PairsFacts
      <4>2. QED
        BY <3>8, <3>9, <4>1, MinIs
    <3>11. QED
      BY <1>2, <3>3, <3>7, <3>10 DEF IsNext
  <2>3. QED
    BY <2>1, <2>2
<1>7. /\ Chain(s, ap) /\ ap # <<>> /\ Expected(ap) = q + PacketSize
      /\ Packets(s, ap) = Append(Packets(s, st), SubSeq(s, q, q + PacketSize - 1))
  <2> HIDE DEF a
  <2>1. st # <<>> => IsNext(s, Expected(st), q)
    BY <1>6 DEF e
  <2>2. QED
    <3>1. q \in Nat /\ 1 <= q /\ q <= End(s)
      BY <1>4
    <3>2. st = <<>> => Pairs(s, 1) # {} /\ q = Min(Pairs(s, 1))
      BY <1>6
    <3>3. s \in Seq(Bytes) /\ Chain(s, st)
      BY <1>1
    <3>4. QED
      BY <1>5, <2>1, <3>1, <3>2, <3>3, ChainGoesOn, Zenon
<1>8. /\ a \in Seq(Bytes) /\ Len(a) = Len(b) - i + 1 /\ Len(a) >= PacketSize
      /\ Held(a, s) /\ Gone(a, s) = c + i - 1
      /\ \A k \in 1..Len(a) : a[k] = s[(c + i - 1) + k]
  <2>1. a \in Seq(Bytes) /\ Len(a) = Len(b) - i + 1
    BY <1>1, <1>4, FromFacts
  <2>2. Held(a, s) /\ Gone(a, s) = c + i - 1
    BY <1>1, <1>4, HeldFrom DEF c
  <2>3. \A k \in 1..Len(a) : a[k] = s[(c + i - 1) + k]
    BY <2>2 DEF Held
  <2>4. QED
    BY <2>1, <2>2, <2>3
<1> HIDE DEF a
<1>9. SubSeq(a, 1, PacketSize) = SubSeq(s, q, q + PacketSize - 1)
  <2> DEFINE x == SubSeq(a, 1, PacketSize)
             y == SubSeq(s, q, q + PacketSize - 1)
  <2>1. \A k \in 1..PacketSize : k \in 1..Len(a) /\ a[k] \in Bytes
    BY <1>8, SizeNat
  <2>2. /\ x \in Seq(Bytes) /\ Len(x) = PacketSize
        /\ \A k \in 1..PacketSize : x[k] = a[k]
    <3>1. /\ x \in Seq(Bytes) /\ Len(x) = IF 1 <= PacketSize THEN PacketSize - 1 + 1 ELSE 0
          /\ \A k \in 1..PacketSize - 1 + 1 : x[k] = a[1 + k - 1]
      BY <2>1, SizeNat, SubSeqProperties
    <3>2. \A k \in 1..PacketSize : k \in 1..PacketSize - 1 + 1 /\ 1 + k - 1 = k
      BY SizeNat
    <3> HIDE DEF x
    <3>3. Len(x) = PacketSize
      BY <3>1, SizeNat
    <3>4. \A k \in 1..PacketSize : x[k] = a[k]
      BY <3>1, <3>2
    <3>5. QED
      BY <3>1, <3>3, <3>4
  <2>3. /\ y \in Seq(Bytes) /\ Len(y) = PacketSize
        /\ \A k \in 1..PacketSize : y[k] = s[q + k - 1]
    <3>1. \A k \in q..q + PacketSize - 1 : k \in 1..Len(s)
      BY <1>1, <1>2, <1>4, SizeNat
    <3>2. \A k \in q..q + PacketSize - 1 : s[k] \in Bytes
      BY <1>1, <3>1
    <3>3. q \in Int /\ q + PacketSize - 1 \in Int
      BY <1>4, SizeNat
    <3>4. /\ y \in Seq(Bytes)
          /\ Len(y) = IF q <= q + PacketSize - 1 THEN (q + PacketSize - 1) - q + 1 ELSE 0
          /\ \A k \in 1..(q + PacketSize - 1) - q + 1 : y[k] = s[q + k - 1]
      BY <3>2, <3>3, SubSeqProperties
    <3>5. q <= q + PacketSize - 1 /\ (q + PacketSize - 1) - q + 1 = PacketSize
      BY <1>4, SizeNat
    <3> HIDE DEF y
    <3>6. QED
      BY <3>4, <3>5
  <2>4. \A k \in 1..PacketSize : x[k] = y[k]
    <3> TAKE k \in 1..PacketSize
    <3>1. (c + i - 1) + k = q + k - 1
      BY <1>1, <1>3, SizeNat DEF q
    <3> HIDE DEF x, y
    <3>2. QED
      BY <1>8, <2>1, <2>2, <2>3, <3>1
  <2> HIDE DEF x, y
  <2>5. x = y
    BY <2>2, <2>3, <2>4, SeqEqual
  <2>6. QED
    BY <2>5 DEF x, y
<1>10. /\ Held(From(a, PacketSize + 1), s)
       /\ Gone(From(a, PacketSize + 1), s) + 1 = q + PacketSize
  <2>1. PacketSize + 1 \in 1..Len(a) + 1
    BY <1>8, SizeNat
  <2>2. /\ Held(From(a, PacketSize + 1), s)
        /\ Gone(From(a, PacketSize + 1), s) = Gone(a, s) + (PacketSize + 1) - 1
    BY <1>8, <2>1, HeldFrom
  <2> DEFINE g == Gone(From(a, PacketSize + 1), s)
  <2>3. g = (c + i - 1) + (PacketSize + 1) - 1
    BY <1>8, <2>2
  <2> HIDE DEF g
  <2>4. g + 1 = q + PacketSize
    <3>1. (c + i - 1) + (PacketSize + 1) - 1 + 1 = (c + i) + PacketSize
      BY <1>a
    <3>2. QED
      BY <2>3, <3>1 DEF q
  <2>5. QED
    BY <2>2, <2>4 DEF g
<1>11. o = Packets(s, st)
  BY DEF Follows
<1>12. Follows(From(a, PacketSize + 1), s, TRUE, Append(o, SubSeq(a, 1, PacketSize)), ap)
  BY <1>7, <1>9, <1>10, <1>11 DEF Follows, InStep
<1>13. QED
  BY <1>12 DEF a, q, c

\* And where none is found, none begins in what is dropped.
LEMMA NothingFollows ==
  ASSUME NEW b, NEW s, NEW sy, NEW o, NEW st, Follows(b, s, sy, o, st),
         NEW i, i = Begin(b, sy), i = 0 \/ ~(Len(b) - i + 1 >= PacketSize), Len(b) >= PacketSize
  PROVE  /\ Follows(From(b, Len(b) - PacketSize + 1), s, FALSE, o, st)
         /\ Len(From(b, Len(b) - PacketSize + 1)) = PacketSize
<1> DEFINE e == Expected(st)
           c == Gone(b, s)
           r == From(b, Len(b) - PacketSize + 1)
<1>1. /\ Held(b, s) /\ b \in Seq(Bytes) /\ s \in Seq(Bytes) /\ Len(s) \in Nat /\ Chain(s, st)
      /\ c \in Nat /\ c + Len(b) = Len(s) /\ Len(b) \in Nat
      /\ \A k \in 1..Len(b) : b[k] = s[c + k]
  BY HeldFacts DEF Follows
<1>2. e \in Nat /\ 1 <= e /\ (st = <<>> => e = 1) /\ End(s) = Len(s) - PacketSize + 1
  BY <1>1, ExpectedFacts DEF End
<1>3. 1 \in 1..Len(b) /\ b # <<>>
  BY <1>1, SizeNat
<1>4. ~(sy /\ b # <<>> /\ b[1] = Sync)
  BY <1>1, SizeNat DEF Begin
<1>5. i = SyncIdx(b) /\ i = 0
  <2>1. i = SyncIdx(b)
    BY <1>4 DEF Begin
  <2>2. i \in Nat /\ (i # 0 => i + PacketSize <= Len(b))
    BY <1>1, <2>1, SyncIdxFacts
  <2>3. QED
    BY <1>1, <2>1, <2>2, SizeNat
<1>6. \A k \in 1..Len(b) - PacketSize : ~(b[k] = Sync /\ b[k + PacketSize] = Sync)
  BY <1>1, <1>5, SyncIdxFacts
<1>7. /\ Len(b) - PacketSize + 1 \in 1..Len(b) + 1
      /\ Len(b) - (Len(b) - PacketSize + 1) + 1 = PacketSize
      /\ c + (Len(b) - PacketSize + 1) - 1 = Len(s) - PacketSize
  BY <1>1, SizeNat
<1>8. Len(r) = PacketSize
  BY <1>1, <1>7, FromFacts
<1>9. Held(r, s) /\ Gone(r, s) = Len(s) - PacketSize
  BY <1>1, <1>7, HeldFrom
<1> HIDE DEF r, e, c
<1>10. e <= c + 1 /\ (st # <<>> => s[e] # Sync)
       /\ \A q \in e..c : ~(s[q] = Sync /\ s[q + PacketSize] = Sync)
  <2>1. CASE sy
    <3>1. st # <<>> /\ c + 1 = e
      BY <2>1 DEF Follows, InStep, c, e
    <3>2. s[e] = b[1]
      BY <1>1, <1>3, <3>1
    <3>3. e..c = {}
      BY <1>1, <1>2, <3>1
    <3>4. QED
      BY <1>1, <1>2, <1>3, <1>4, <2>1, <3>1, <3>2, <3>3
  <2>2. CASE ~sy
    BY <2>2 DEF Follows, OutOfStep, c, e
  <2>3. QED
    BY <2>1, <2>2
<1>11. e <= End(s) /\ e <= Gone(r, s) + 1 /\ Gone(r, s) + PacketSize <= Len(s)
  BY <1>1, <1>2, <1>9, <1>10, SizeNat
<1>12. ASSUME NEW q \in e..Gone(r, s), s[q] = Sync, s[q + PacketSize] = Sync PROVE FALSE
  <2>1. q \in Nat /\ e <= q /\ q + PacketSize <= Len(s)
    BY <1>1, <1>2, <1>9, SizeNat
  <2>2. CASE q <= c
    <3>1. q \in e..c
      BY <1>1, <1>2, <2>1, <2>2
    <3>2. QED
      BY <1>10, <1>12, <3>1
  <2>3. CASE ~(q <= c)
    <3>1. PICK k \in 1..Len(b) - PacketSize : q = c + k
      <4> DEFINE k == q - c
      <4>1. k \in 1..Len(b) - PacketSize /\ q = c + k
        BY <1>1, <2>1, <2>3, SizeNat
      <4>2. QED
        BY <4>1
    <3>2. k \in 1..Len(b) /\ k + PacketSize \in 1..Len(b) /\ c + (k + PacketSize) = q + PacketSize
      BY <1>1, <3>1, SizeNat
    <3>3. b[k] = s[q] /\ b[k + PacketSize] = s[q + PacketSize]
      BY <1>1, <3>1, <3>2
    <3>4. QED
      BY <1>6, <1>12, <3>1, <3>3
  <2>4. QED
    BY <2>2, <2>3
<1>13. OutOfStep(r, s, st)
  BY <1>10, <1>11, <1>12 DEF OutOfStep, e
<1>14. Follows(r, s, FALSE, o, st)
  BY <1>1, <1>9, <1>13 DEF Follows
<1>15. QED
  BY <1>8, <1>14 DEF r

-----------------------------------------------------------------------------
LEMMA InitAInv == MuxInit => AInv
<1> SUFFICES ASSUME MuxInit PROVE AInv
  OBVIOUS
<1>1. buf = <<>> /\ stream = <<>> /\ synced = FALSE /\ taking = FALSE /\ out = <<>>
  BY DEF MuxInit, AlignerInit
<1>2. Held(buf, stream) /\ Gone(buf, stream) = 0
  BY <1>1 DEF Held, Gone
<1>3. Chain(stream, <<>>)
  BY DEF Chain
<1>4. Packets(stream, <<>>) = <<>>
  BY DEF Packets
<1>5. OutOfStep(buf, stream, <<>>)
  <2>1. 1..0 = {}
    OBVIOUS
  <2>2. QED
    BY <1>2, <2>1 DEF OutOfStep, Expected
<1>6. Follows(buf, stream, synced, out, <<>>)
  BY <1>1, <1>2, <1>3, <1>4, <1>5 DEF Follows
<1>7. TooFew(buf, synced)
  BY <1>1, SizeNat DEF TooFew
<1>8. QED
  BY <1>1, <1>6, <1>7 DEF AInv

LEMMA FeedAInv == ASSUME AInv, NEW data \in Reads, Feed(data) PROVE AInv'
<1>1. data \in Seq(Bytes)
  <2>1. PICK n \in 1..MaxRead : data \in [1..n -> Bytes]
    BY DEF Reads
  <2>2. n \in Nat
    BY AlignerAssumption DEF AlignerAssumption
  <2>3. QED
    BY <2>1, <2>2
<1>2. PICK st : Follows(buf, stream, synced, out, st)
  BY DEF AInv
<1>3. Follows(buf \o data, stream \o data, synced, out, st)
  BY <1>1, <1>2, FeedFollows
<1>4. Follows(buf', stream', synced', out', st) /\ taking' = TRUE
  BY <1>3 DEF Feed
<1>5. QED
  BY <1>4 DEF AInv

LEMMA PacketAInv == ASSUME AInv, NextPacket PROVE AInv'
<1>1. PICK st : Follows(buf, stream, synced, out, st)
  BY DEF AInv
<1>2. Start = Begin(buf, synced)
  BY DEF Start, Begins, Begin
<1>3. Start # 0 /\ Len(buf) - Start + 1 >= PacketSize
  <2>1. Start > 0 /\ Len(buf) - Start + 1 >= PacketSize
    BY DEF NextPacket, HasPacket
  <2>2. QED
    BY <2>1
<1> DEFINE a == From(buf, Start)
<1>4. Follows(From(a, PacketSize + 1), stream, TRUE, Append(out, SubSeq(a, 1, PacketSize)),
              Append(st, Gone(buf, stream) + Start))
  BY <1>1, <1>2, <1>3, FoundFollows
<1>5. /\ buf' = From(a, PacketSize + 1) /\ out' = Append(out, SubSeq(a, 1, PacketSize))
      /\ stream' = stream /\ synced' = TRUE /\ taking' = taking /\ taking = TRUE
  BY DEF NextPacket, AInv
<1> HIDE DEF a
<1>6. PICK st1 : st1 = Append(st, Gone(buf, stream) + Start)
  OBVIOUS
<1>7. Follows(buf', stream', synced', out', st1)
  BY <1>4, <1>5, <1>6
<1>8. QED
  BY <1>5, <1>7 DEF AInv

LEMMA NothingAInv == ASSUME AInv, NextNothing PROVE AInv'
<1>1. PICK st : Follows(buf, stream, synced, out, st)
  BY DEF AInv
<1>2. /\ ~HasPacket /\ taking' = FALSE /\ stream' = stream /\ out' = out
  BY DEF NextNothing
<1>3. buf \in Seq(Bytes) /\ Len(buf) \in Nat /\ synced \in BOOLEAN
  BY <1>1, HeldFacts DEF Follows
<1>4. CASE Len(buf) < PacketSize
  <2>1. buf' = buf /\ synced' = synced
    BY <1>4 DEF NextNothing
  <2>2. Follows(buf', stream', synced', out', st)
    BY <1>1, <1>2, <2>1
  <2>3. Len(buf) <= PacketSize
    BY <1>3, <1>4, SizeNat
  <2>4. TooFew(buf', synced')
    BY <1>4, <2>1, <2>3 DEF TooFew
  <2>5. QED
    BY <1>2, <2>2, <2>4 DEF AInv
<1>5. CASE ~(Len(buf) < PacketSize)
  <2>1. buf' = From(buf, Len(buf) - PacketSize + 1) /\ synced' = FALSE
    BY <1>5 DEF NextNothing
  <2>2. Len(buf) >= PacketSize
    BY <1>3, <1>5, SizeNat
  <2>3. Start = Begin(buf, synced)
    BY DEF Start, Begins, Begin
  <2>4. Start \in Nat
    <3>1. SyncIdx(buf) \in Nat
      BY <1>3, SyncIdxFacts
    <3>2. QED
      BY <3>1 DEF Start
  <2>5. Start = 0 \/ ~(Len(buf) - Start + 1 >= PacketSize)
    BY <1>2, <2>2, <2>4 DEF HasPacket
  <2>6. /\ Follows(From(buf, Len(buf) - PacketSize + 1), stream, FALSE, out, st)
        /\ Len(From(buf, Len(buf) - PacketSize + 1)) = PacketSize
    BY <1>1, <2>2, <2>3, <2>5, NothingFollows
  <2>7. Follows(buf', stream', synced', out', st)
    BY <1>2, <2>1, <2>6
  <2>8. TooFew(buf', synced')
    BY <2>1, <2>6, SizeNat DEF TooFew
  <2>9. QED
    BY <1>2, <2>7, <2>8 DEF AInv
<1>6. QED
  BY <1>4, <1>5

\* Nothing else touches the buffer.
LEMMA NextAInv == AInv /\ [MuxNext]_muxVars => AInv'
<1> SUFFICES ASSUME AInv, [MuxNext]_muxVars PROVE AInv'
  OBVIOUS
<1>1. CASE Aligns
  BY <1>1, FeedAInv, PacketAInv, NothingAInv DEF Aligns, AlignerNext
<1>2. CASE UNCHANGED alignerVars
  BY <1>2 DEF AInv, alignerVars
<1>3. InspectPat \/ InspectPmt \/ InspectPes \/ UNCHANGED muxVars => UNCHANGED alignerVars
  BY DEF InspectPat, InspectPmt, InspectPes, muxVars, alignerVars
<1>4. QED
  BY <1>1, <1>2, <1>3 DEF MuxNext

\* When there is no more to take, the chain is complete.
LEMMA AlignedFromAInv == AInv => Aligned
<1> SUFFICES ASSUME AInv, ~taking
             PROVE  /\ out = [k \in DOMAIN Starts |->
                               SubSeq(stream, Starts[k], Starts[k] + PacketSize - 1)]
                    /\ Len(buf) <= PacketSize
  BY DEF Aligned
<1>1. PICK st : Follows(buf, stream, synced, out, st)
  BY DEF AInv
<1>2. TooFew(buf, synced)
  BY DEF AInv
<1> DEFINE c == Gone(buf, stream)
           ls == Len(stream)
           lb == Len(buf)
           e == Expected(st)
<1>3. /\ stream \in Seq(Bytes) /\ Chain(stream, st)
      /\ lb \in Nat /\ ls \in Nat /\ c \in Nat /\ c + lb = ls
  BY <1>1, HeldFacts DEF Follows
<1>4. e \in Nat /\ 1 <= e /\ End(stream) = ls - PacketSize + 1
  BY <1>3, ExpectedFacts DEF End
<1> HIDE DEF c, ls, lb, e
<1>5. lb <= PacketSize
  BY <1>2, <1>3, SizeNat DEF TooFew, lb
<1>6. CASE synced
  <2>1. c + 1 = e /\ lb < PacketSize
    BY <1>1, <1>2, <1>6 DEF Follows, InStep, TooFew, c, e, lb
  <2>2. e > End(stream)
    BY <1>3, <1>4, <2>1, SizeNat
  <2>3. QED
    <3>1. Complete(stream, st)
      BY <2>2 DEF Complete, e
    <3>2. Starts = st
      BY <1>3, <3>1, ChainIsFound DEF Starts
    <3>3. QED
      BY <1>1, <1>5, <3>2 DEF Follows, Packets, lb
<1>7. CASE ~synced
  <2>1. /\ \A q \in e..c : ~(stream[q] = Sync /\ stream[q + PacketSize] = Sync)
        /\ st # <<>> => stream[e] # Sync
    BY <1>1, <1>7 DEF Follows, OutOfStep, c, e
  <2>2. Pairs(stream, e) = {}
    <3>1. ASSUME NEW q \in Pairs(stream, e) PROVE FALSE
      <4>1. q \in Nat /\ e <= q /\ q + PacketSize <= ls /\ stream[q] = Sync /\ stream[q + PacketSize] = Sync
        BY <1>3, <1>4, PairsFacts DEF ls
      <4>2. q \in e..c
        BY <1>3, <1>4, <1>5, <4>1, SizeNat
      <4>3. QED
        BY <2>1, <4>1, <4>2
    <3>2. QED
      BY <3>1
  <2>3. Complete(stream, st)
    BY <2>1, <2>2 DEF Complete, e
  <2>4. Starts = st
    BY <1>3, <2>3, ChainIsFound DEF Starts
  <2>5. QED
    BY <1>1, <1>5, <2>4 DEF Follows, Packets, lb
<1>8. QED
  BY <1>6, <1>7

\* Wherever the reads cut the stream, once no packet is left to take, the packets
\* that went to the input's channel are exactly those of the whole stream, in
\* order, and at most a packet's length of bytes is held back.
THEOREM PacketsAligned == MuxSpec => []Aligned
<1>1. MuxSpec => []AInv
  BY InitAInv, NextAInv, PTL DEF MuxSpec
<1>2. QED
  BY <1>1, AlignedFromAInv, PTL

-----------------------------------------------------------------------------
\* Where the entries end, ...
LEMMA EndsFacts ==
  ASSUME NEW lengths \in Seq(Nat)
  PROVE  /\ Ends(lengths) \in [0..Len(lengths) -> Nat] /\ Ends(lengths)[0] = 0
         /\ \A i \in 1..Len(lengths) : Ends(lengths)[i] = Ends(lengths)[i - 1] + lengths[i]
<1> DEFINE n == Len(lengths)
           step == [i \in 1..n |-> [x \in Nat |-> x + lengths[i]]]
           Sum == CHOOSE g : g = [i \in 0..n |-> IF i = 0 THEN 0 ELSE g[i - 1] + lengths[i]]
<1>1. n \in Nat /\ \A i \in 1..n : lengths[i] \in Nat
  OBVIOUS
<1>2. step \in [1..n -> [Nat -> Nat]]
  BY <1>1
<1>3. \A i \in 1..n : \A x \in Nat : step[i][x] = x + lengths[i]
  OBVIOUS
<1> HIDE DEF n, step
<1>4. n \in Nat /\ 0 \in Nat
  BY <1>1
<1>5. PICK f \in [0..n -> Nat] : f[0] = 0 /\ \A i \in 1..n : f[i] = step[i][f[i - 1]]
  <2> HIDE DEF Sum
  <2>1. Iterated(n, Nat, 0, step)
    BY <1>4, <1>2, Iterates
  <2>2. QED
    BY <2>1 DEF Iterated
<1>6. \A i \in 1..n : f[i] = f[i - 1] + lengths[i] /\ i - 1 \in 0..n
  <2> TAKE i \in 1..n
  <2>1. i - 1 \in 0..n
    BY <1>1
  <2>2. QED
    BY <1>3, <1>5, <2>1
<1>7. f = [i \in 0..n |-> IF i = 0 THEN 0 ELSE f[i - 1] + lengths[i]]
  <2>1. \A i \in 0..n : f[i] = IF i = 0 THEN 0 ELSE f[i - 1] + lengths[i]
    <3> TAKE i \in 0..n
    <3>1. i # 0 => i \in 1..n
      BY <1>1
    <3>2. QED
      BY <1>5, <1>6, <3>1
  <2>2. QED
    BY <1>5, <2>1
<1>8. Sum = [i \in 0..n |-> IF i = 0 THEN 0 ELSE Sum[i - 1] + lengths[i]]
  BY <1>7
<1>9. Ends(lengths) = Sum
  BY DEF Ends, n
<1> HIDE DEF Sum
<1> DEFINE Bad == {i \in Nat : i <= n /\ Sum[i] # f[i]}
<1>10. Bad = {}
  <2>1. SUFFICES ASSUME Bad # {} PROVE FALSE
    OBVIOUS
  <2>2. Bad \subseteq Nat
    OBVIOUS
  <2>3. PICK m \in Bad : \A k \in Bad : m <= k
    BY <2>1, <2>2, LeastNat
  <2>4. m \in 0..n /\ Sum[m] # f[m] /\ m \in Nat
    BY <1>1, <2>3
  <2>5. m # 0
    BY <1>5, <1>8, <2>4
  <2>6. m - 1 \in Nat /\ m - 1 <= n /\ ~(m <= m - 1) /\ m \in 1..n
    BY <1>1, <2>4, <2>5
  <2>7. Sum[m - 1] = f[m - 1]
    BY <2>3, <2>6
  <2>8. QED
    BY <1>6, <1>8, <2>4, <2>5, <2>6, <2>7
<1>11. \A i \in 0..n : Sum[i] = f[i]
  <2> TAKE i \in 0..n
  <2>1. i \in Nat /\ i <= n
    BY <1>1
  <2>2. QED
    BY <1>10, <2>1
<1>12. Sum = f
  BY <1>5, <1>7, <1>8, <1>11
<1>13. QED
  BY <1>5, <1>6, <1>9, <1>12 DEF n

\* ... one after the other.
LEMMA EndsGrow ==
  ASSUME NEW lengths \in Seq(Nat)
  PROVE  \A i, j \in 0..Len(lengths) : i <= j => Ends(lengths)[i] <= Ends(lengths)[j]
<1> DEFINE n == Len(lengths)
           e == Ends(lengths)
<1>1. /\ n \in Nat /\ e \in [0..n -> Nat]
      /\ \A i \in 1..n : e[i] = e[i - 1] + lengths[i] /\ lengths[i] \in Nat
  BY EndsFacts
<1> HIDE DEF n, e
<1> SUFFICES ASSUME NEW i \in 0..n PROVE \A j \in 0..n : i <= j => e[i] <= e[j]
  BY DEF n, e
<1> DEFINE Bad == {j \in Nat : j <= n /\ i <= j /\ ~(e[i] <= e[j])}
<1>2. Bad = {}
  <2>1. SUFFICES ASSUME Bad # {} PROVE FALSE
    OBVIOUS
  <2>2. Bad \subseteq Nat
    OBVIOUS
  <2>3. PICK m \in Bad : \A k \in Bad : m <= k
    BY <2>1, <2>2, LeastNat
  <2>4. m \in 0..n /\ i <= m /\ ~(e[i] <= e[m]) /\ m \in Nat /\ e[i] \in Nat /\ e[m] \in Nat
    BY <1>1, <2>3
  <2>5. m # i
    BY <2>4
  <2>6. m - 1 \in Nat /\ m - 1 <= n /\ i <= m - 1 /\ ~(m <= m - 1) /\ m \in 1..n /\ m - 1 \in 0..n
    BY <1>1, <2>4, <2>5
  <2>7. e[i] <= e[m - 1]
    BY <2>3, <2>6
  <2>8. e[m] = e[m - 1] + lengths[m] /\ lengths[m] \in Nat /\ e[m - 1] \in Nat
    BY <1>1, <2>6
  <2>9. QED
    BY <2>4, <2>7, <2>8
<1>3. QED
  <2> TAKE j \in 0..n
  <2>1. j \in Nat /\ j <= n
    BY <1>1
  <2>2. QED
    BY <1>2, <2>1

\* The length of its packets.
LEMMA PacketLengthNat == PacketLength \in Nat /\ PacketLength >= 20 /\ PacketLength <= 188
BY MultiplexerAssumption DEF MultiplexerAssumption
\* The fields of what it sends.
LEMMA FieldsBounded ==
  /\ \A b \in Pointers \cup PesHeaders : b \in Nat /\ b < 256
  /\ \A n \in Infos : n \in Nat /\ n < 1024
  /\ \A e \in Programs : /\ e.number \in Nat /\ e.number < 65536 
                         /\ e.pid \in Nat /\ e.pid < 8192 /\ e.pid # 0 /\ e.pid \notin VideoPIDs
  /\ \A k \in StreamKinds : /\ k.type \in Nat /\ k.es \in Nat /\ k.es < 1024
                            /\ k.pid \in Nat /\ k.pid < 8192 /\ k.pid # 0 /\ k.pid \notin PmtPIDs
  /\ \A n \in PmtPIDs \cup VideoPIDs : n \in Nat /\ n < 8192 /\ n # 0
<1>1. /\ Pointers \cup PesHeaders \subseteq Below(256) /\ Infos \subseteq Below(1024)
      /\ PmtPIDs \cup VideoPIDs \subseteq Below(8192) \ {0}
  BY MultiplexerAssumption DEF MultiplexerAssumption
<1>2. /\ Programs \subseteq [number: Below(65536), pid: Below(8192) \ {0}]
      /\ StreamKinds \subseteq [type: Below(256), pid: Below(8192) \ {0}, es: Below(1024)]
      /\ \A e \in Programs : e.pid \notin VideoPIDs
      /\ \A k \in StreamKinds : k.pid \notin PmtPIDs
  BY MultiplexerAssumption DEF MultiplexerAssumption
<1>3. \A e \in Programs : e.number \in Below(65536) /\ e.pid \in Below(8192) \ {0} /\ e.pid \notin VideoPIDs
  BY <1>2
<1>4. \A k \in StreamKinds : /\ k.type \in Below(256) /\ k.pid \in Below(8192) \ {0} /\ k.es \in Below(1024)
                             /\ k.pid \notin PmtPIDs
  BY <1>2
<1>5. \A n, k : k \in Below(n) <=> k \in Nat /\ k < n
  BY DEF Below
<1>6. QED
  BY <1>1, <1>3, <1>4, <1>5

-----------------------------------------------------------------------------
\* The pieces of a packet: what remains from a position on, ...
IsRest(r, s, i) ==
  /\ r \in Seq(Nat) /\ Len(r) = IF i < Len(s) THEN Len(s) - i ELSE 0
  /\ \A k \in 1..Len(r) : r[k] = s[i + k]
LEMMA RestFacts ==
  ASSUME NEW s \in Seq(Nat), NEW i \in Nat
  PROVE  IsRest(Rest(s, i), s, i)
BY DEF Rest, IsRest

\* ... what is before one, ...
IsCut(c, s, n) ==
  /\ c \in Seq(Nat) /\ Len(c) = IF Len(s) < n THEN Len(s) ELSE n
  /\ \A k \in 1..Len(c) : c[k] = s[k]
LEMMA CutFacts ==
  ASSUME NEW s \in Seq(Nat), NEW n \in Nat
  PROVE  IsCut(Cut(s, n), s, n)
BY SubSeqProperties DEF Cut, IsCut

\* ... the bytes of a field, ...
IsFilled(f, b, n) == f \in Seq(Nat) /\ Len(f) = n /\ \A k \in 1..n : f[k] = b
LEMMA ByteFacts ==
  ASSUME NEW b \in Nat, NEW n \in Nat
  PROVE  IsFilled(Byte(b, n), b, n)
BY DEF Byte, IsFilled

\* ... and one piece of m bytes after the other, of n.
IsJoined(c, a, m, b, n) ==
  /\ c \in Seq(Nat) /\ Len(c) = m + n
  /\ \A k \in 1..m : c[k] = a[k]
  /\ \A k \in 1..n : c[m + k] = b[k]
LEMMA JoinFacts ==
  ASSUME NEW a \in Seq(Nat), NEW b \in Seq(Nat), NEW m, NEW n, Len(a) = m, Len(b) = n
  PROVE  a \o b \in Seq(Nat) /\ Len(a \o b) = m + n /\ IsJoined(a \o b, a, m, b, n)
<1> DEFINE la == Len(a)
           lb == Len(b)
           c == a \o b
<1>1. la \in Nat /\ lb \in Nat /\ c \in Seq(Nat) /\ Len(c) = la + lb
  OBVIOUS
<1>2. \A k \in 1..la + lb : c[k] = IF k <= la THEN a[k] ELSE b[k - la]
  BY ConcatProperties
<1> HIDE DEF la, lb, c
<1>3. \A k \in 1..la : c[k] = a[k]
  BY <1>1, <1>2
<1>4. \A k \in 1..lb : c[la + k] = b[k]
  <2> TAKE k \in 1..lb
  <2>1. la + k \in 1..la + lb /\ ~(la + k <= la) /\ (la + k) - la = k
    BY <1>1
  <2>2. QED
    BY <1>2, <2>1
<1>5. QED
  BY <1>1, <1>3, <1>4 DEF la, lb, c, IsJoined

\* The same, for the lengths the pieces have.
LEMMA Joins ==
  ASSUME NEW a \in Seq(Nat), NEW b \in Seq(Nat)
  PROVE  a \o b \in Seq(Nat) /\ IsJoined(a \o b, a, Len(a), b, Len(b))
BY JoinFacts

\* What a packet says of itself in the four bytes it begins with: marks is 64
\* when a table or a picture starts, field is 48 after an adaptation field.
IsHeader(h, pid, marks, field) ==
  h[2] = marks + pid \div 256 /\ h[3] = pid % 256 /\ h[4] = field
Says(p, pid, marks, offset) ==
  LET info == ParseTSPacket(p) IN
    /\ info.PID = pid /\ (info.PUSI <=> marks = 64) /\ info.HasPayload
    /\ info.PayloadOffset = offset
LEMMA HeaderRead ==
  ASSUME NEW p, NEW pid \in Nat, pid < 8192, NEW marks \in {0, 64}, NEW field \in {16, 48},
         IsHeader(p, pid, marks, field)
  PROVE  Says(p, pid, marks, 4 + IF field = 48 THEN 1 + p[5] ELSE 0)
<1>1. pid = (pid \div 256) * 256 + (pid % 256) /\ pid \div 256 \in Nat /\ pid \div 256 < 32
  OBVIOUS
<1> DEFINE high == pid \div 256
<1>2. \A b \in Nat : b < 32 => /\ Bits(64 + b, 0, 5) = b /\ Bits(0 + b, 0, 5) = b
                               /\ Bits(64 + b, 6, 1) = 1 /\ Bits(0 + b, 6, 1) = 0
  BY DEF Bits
<1>3. Bits(48, 4, 1) = 1 /\ Bits(16, 4, 1) = 1 /\ Bits(48, 5, 1) = 1 /\ Bits(16, 5, 1) = 0
  BY DEF Bits
<1> HIDE DEF high
<1>4. Word(p, 1, 5) = pid /\ (Bits(B(p, 1), 6, 1) = 1 <=> marks = 64)
  <2>1. B(p, 1) = p[2] /\ B(p, 2) = p[3]
    BY DEF B
  <2>2. p[2] = marks + high /\ high \in Nat /\ high < 32 /\ p[3] = pid % 256
    BY <1>1 DEF high, IsHeader
  <2>3. Bits(p[2], 0, 5) = high /\ (Bits(p[2], 6, 1) = 1 <=> marks = 64)
    BY <1>2, <2>2
  <2>4. 1 + 1 = 2
    OBVIOUS
  <2>5. Word(p, 1, 5) = high * 256 + (pid % 256)
    BY <2>1, <2>2, <2>3, <2>4 DEF Word
  <2>6. QED
    BY <1>1, <2>1, <2>3, <2>5 DEF high
<1>5. B(p, 3) = p[4] /\ B(p, 4) = p[5]
  BY DEF B
<1>6. Bits(B(p, 3), 4, 1) = 1 /\ (Bits(B(p, 3), 5, 1) = 1 <=> field = 48)
  BY <1>3, <1>5 DEF IsHeader
<1> DEFINE info == ParseTSPacket(p)
           pusi == Bits(B(p, 1), 6, 1) = 1
           has == Bits(B(p, 3), 4, 1) = 1
           offset == 4 + IF Bits(B(p, 3), 5, 1) = 1 THEN 1 + B(p, 4) ELSE 0
<1>7. info = [PID |-> Word(p, 1, 5), PUSI |-> pusi, HasPayload |-> has, PayloadOffset |-> offset]
  BY DEF ParseTSPacket
<1>8. offset = 4 + IF field = 48 THEN 1 + p[5] ELSE 0
  BY <1>5, <1>6
<1>9. (pusi <=> marks = 64) /\ has /\ pusi \in BOOLEAN /\ has \in BOOLEAN
  BY <1>4, <1>6
<1> HIDE DEF info, pusi, has, offset
<1>10. info.PID = Word(p, 1, 5) /\ info.PUSI = pusi /\ info.HasPayload = has /\ info.PayloadOffset = offset
  BY <1>7
<1>11. QED
  BY <1>4, <1>8, <1>9, <1>10 DEF info, Says

\* A number over two bytes, as it is read.
LEMMA WordRead ==
  ASSUME NEW s, NEW i \in Nat, NEW v \in Nat
  PROVE  /\ v < 8192 /\ B(s, i) = 224 + v \div 256 /\ B(s, i + 1) = v % 256 => Word(s, i, 5) = v
         /\ v < 4096 /\ B(s, i) = 176 + v \div 256 /\ B(s, i + 1) = v % 256 => Word(s, i, 4) = v
         /\ v < 4096 /\ B(s, i) = 240 + v \div 256 /\ B(s, i + 1) = v % 256 => Word(s, i, 4) = v
         /\ v < 65536 /\ B(s, i) = v \div 256 /\ B(s, i + 1) = v % 256 => Word(s, i, 8) = v
<1>1. v = (v \div 256) * 256 + (v % 256) /\ v \div 256 \in Nat /\ v % 256 \in Nat
  OBVIOUS
<1>2. ASSUME v < 8192 PROVE v \div 256 < 32
  BY <1>2
<1>3. ASSUME v < 4096 PROVE v \div 256 < 16
  BY <1>3
<1>4. ASSUME v < 65536 PROVE v \div 256 < 256
  BY <1>4
<1> DEFINE high == v \div 256
<1>5. \A b \in Nat : b < 32 => Bits(224 + b, 0, 5) = b
  BY DEF Bits
<1>6. \A b \in Nat : b < 16 => Bits(176 + b, 0, 4) = b /\ Bits(240 + b, 0, 4) = b
  BY DEF Bits
<1>7. \A b \in Nat : b < 256 => Bits(b, 0, 8) = b
  BY DEF Bits
<1> HIDE DEF high
<1>8. QED
  BY <1>1, <1>2, <1>3, <1>4, <1>5, <1>6, <1>7 DEF high, Word

\* The section of a table is found after its pointer field, as much of it as the
\* packet has.
IsTable(p, pid) == Says(p, pid, 64, 4) /\ Len(Rest(p, 4)) = PacketLength - 4
IsSection(s, section, room) ==
  /\ s \in Seq(Nat) /\ Len(s) = IF 0 < room THEN room ELSE 0
  /\ \A k \in 1..Len(s) : k <= Len(section) => s[k] = section[k]
LEMMA TableRead ==
  ASSUME NEW pid \in Nat, pid < 8192, NEW pointer \in Nat, NEW section \in Seq(Nat), NEW crc \in Seq(Nat),
         NEW p, p = TablePacket(pid, pointer, section, crc)
  PROVE  IsTable(p, pid) /\ IsSection(Section(Rest(p, 4)), section, PacketLength - 4 - 1 - pointer)
<1> DEFINE size == PacketLength
           h == Header(pid, TRUE, FALSE)
           one == <<pointer>>
           over == Byte(2, pointer)
           fill == Byte(255, size)
           front == h \o one
           head == front \o over
           body == section \o crc
           tail == body \o fill
           all == head \o tail
           ls == Len(section)
           lc == Len(crc)
           lb == ls + lc
           lh == 5 + pointer
           lt == lb + size
<1>1. size \in Nat /\ size >= 20
  BY PacketLengthNat
<1> HIDE DEF size
<1>2. h \in Seq(Nat) /\ Len(h) = 4 /\ IsHeader(h, pid, 64, 16)
  BY DEF Header, Two, IsHeader
<1>3. one \in Seq(Nat) /\ Len(one) = 1 /\ one[1] = pointer
  OBVIOUS
<1>4. IsFilled(over, 2, pointer) /\ IsFilled(fill, 255, size)
  <2>1. 2 \in Nat /\ 255 \in Nat
    OBVIOUS
  <2>2. QED
    BY <1>1, <2>1, ByteFacts
<1>5. p = Cut(all, size)
  BY DEF TablePacket, size
<1>6. ls \in Nat /\ lc \in Nat /\ lb \in Nat /\ lh \in Nat /\ lt \in Nat /\ lt >= size /\ ls <= lt
  BY <1>1
<1>7. /\ over \in Seq(Nat) /\ Len(over) = pointer
      /\ fill \in Seq(Nat) /\ Len(fill) = size
  BY <1>4 DEF IsFilled
<1> HIDE DEF h, one, over, fill
<1>8. front \in Seq(Nat) /\ IsJoined(front, h, Len(h), one, Len(one))
  <2>1. h \in Seq(Nat) /\ one \in Seq(Nat)
    BY <1>2, <1>3
  <2>2. QED
    BY <2>1, Joins
<1>9. /\ Len(front) = 5 /\ front[5] = pointer
      /\ front[2] = h[2] /\ front[3] = h[3] /\ front[4] = h[4]
  <2>1. /\ Len(front) = Len(h) + Len(one) /\ \A k \in 1..Len(h) : front[k] = h[k]
        /\ \A k \in 1..Len(one) : front[Len(h) + k] = one[k]
    BY <1>8 DEF IsJoined
  <2>2. /\ 2 \in 1..Len(h) /\ 3 \in 1..Len(h) /\ 4 \in 1..Len(h) /\ 1 \in 1..Len(one)
        /\ Len(h) + 1 = 5 /\ Len(h) + Len(one) = 5
    BY <1>2, <1>3
  <2>3. front[Len(h) + 1] = one[1]
    BY <2>1, <2>2
  <2>4. QED
    BY <1>3, <2>1, <2>2, <2>3
<1> HIDE DEF front
<1>10. /\ head \in Seq(Nat) /\ Len(head) = lh /\ head[5] = pointer
       /\ head[2] = h[2] /\ head[3] = h[3] /\ head[4] = h[4]
  <2>1. head \in Seq(Nat) /\ IsJoined(head, front, Len(front), over, Len(over))
    BY <1>7, <1>8, Joins
  <2>2. Len(head) = Len(front) + Len(over) /\ \A k \in 1..Len(front) : head[k] = front[k]
    BY <2>1 DEF IsJoined
  <2>3. /\ 2 \in 1..Len(front) /\ 3 \in 1..Len(front) /\ 4 \in 1..Len(front) /\ 5 \in 1..Len(front)
        /\ Len(front) + Len(over) = lh
    BY <1>7, <1>9
  <2>4. QED
    BY <1>9, <2>1, <2>2, <2>3
<1>11. body \in Seq(Nat) /\ Len(body) = lb /\ IsJoined(body, section, ls, crc, lc)
  BY JoinFacts
<1> HIDE DEF body, ls, lc, lb, lh
<1>12. tail \in Seq(Nat) /\ Len(tail) = lt /\ IsJoined(tail, body, lb, fill, size)
  BY <1>7, <1>11, JoinFacts
<1> HIDE DEF head, tail, lt
<1>13. all \in Seq(Nat) /\ Len(all) = lh + lt /\ IsJoined(all, head, lh, tail, lt)
  BY <1>10, <1>12, JoinFacts
<1> HIDE DEF all
<1>14. IsCut(p, all, size)
  BY <1>1, <1>5, <1>13, CutFacts
<1>15. p \in Seq(Nat) /\ Len(p) = size /\ \A k \in 1..size : p[k] = all[k]
  <2>1. Len(p) = IF lh + lt < size THEN lh + lt ELSE size
    BY <1>13, <1>14 DEF IsCut
  <2>2. Len(p) = size
    BY <1>1, <1>6, <2>1
  <2>3. QED
    BY <1>14, <2>2 DEF IsCut
<1>16. IsHeader(p, pid, 64, 16) /\ p[5] = pointer
  <2>1. /\ 2 \in 1..lh /\ 3 \in 1..lh /\ 4 \in 1..lh /\ 5 \in 1..lh
        /\ 2 \in 1..size /\ 3 \in 1..size /\ 4 \in 1..size /\ 5 \in 1..size
    BY <1>1 DEF lh
  <2>2. \A k \in 1..lh : all[k] = head[k]
    BY <1>13 DEF IsJoined
  <2>3. p[2] = all[2] /\ p[3] = all[3] /\ p[4] = all[4] /\ p[5] = all[5]
    BY <1>15, <2>1
  <2>4. all[2] = head[2] /\ all[3] = head[3] /\ all[4] = head[4] /\ all[5] = head[5]
    BY <2>1, <2>2
  <2>5. p[2] = h[2] /\ p[3] = h[3] /\ p[4] = h[4] /\ p[5] = pointer
    BY <1>10, <2>3, <2>4
  <2>6. QED
    BY <1>2, <2>5 DEF IsHeader
<1> DEFINE payload == Rest(p, 4)
           s == Section(payload)
<1>17. IsRest(payload, p, 4)
  BY <1>15, RestFacts
<1> HIDE DEF payload
<1>18. /\ payload \in Seq(Nat) /\ Len(payload) = size - 4
       /\ \A k \in 1..size - 4 : payload[k] = p[4 + k]
  <2>1. Len(payload) = size - 4
    BY <1>1, <1>15, <1>17 DEF IsRest
  <2>2. payload \in Seq(Nat) /\ \A k \in 1..Len(payload) : payload[k] = p[4 + k]
    BY <1>17 DEF IsRest
  <2>3. QED
    BY <2>1, <2>2
<1>19. IsTable(p, pid)
  <2>1. 64 \in {0, 64} /\ 16 \in {16, 48}
    OBVIOUS
  <2>2. Says(p, pid, 64, 4 + IF 16 = 48 THEN 1 + p[5] ELSE 0)
    BY <1>16, <2>1, HeaderRead
  <2>3. Says(p, pid, 64, 4)
    BY <2>2
  <2>4. QED
    BY <1>18, <2>3 DEF IsTable, payload, size
<1>20. B(payload, 0) = pointer
  <2>1. 1 \in 1..size - 4 /\ 4 + 1 = 5 /\ 0 + 1 = 1
    BY <1>1
  <2>2. QED
    BY <1>16, <1>18, <2>1 DEF B
<1>21. IsRest(s, payload, 1 + pointer)
  <2>1. 1 + pointer \in Nat
    OBVIOUS
  <2>2. s = Rest(payload, 1 + pointer)
    BY <1>20 DEF Section
  <2>3. QED
    BY <1>18, <2>1, <2>2, RestFacts
<1> HIDE DEF s
<1>22. s \in Seq(Nat) /\ Len(s) = IF 0 < size - 4 - 1 - pointer THEN size - 4 - 1 - pointer ELSE 0
  BY <1>1, <1>18, <1>21 DEF IsRest
<1>23. ASSUME NEW k \in 1..Len(s), k <= ls PROVE s[k] = section[k]
  <2> DEFINE i == (1 + pointer) + k
             j == lh + k
  <2>1. /\ k \in Nat /\ k >= 1 /\ k \in 1..ls /\ k \in 1..lb /\ k \in 1..lt
        /\ i \in 1..size - 4 /\ 4 + i = j /\ j \in 1..size
    BY <1>1, <1>6, <1>22, <1>23 DEF lh, lb
  <2>2. s[k] = payload[i]
    BY <1>21 DEF IsRest
  <2> HIDE DEF i
  <2>3. payload[i] = p[j]
    BY <1>18, <2>1
  <2>4. p[j] = all[j]
    <3> HIDE DEF j
    <3>1. QED
      BY <1>15, <2>1
  <2>5. all[j] = tail[k]
    BY <1>13, <2>1 DEF IsJoined
  <2>6. tail[k] = body[k]
    BY <1>12, <2>1 DEF IsJoined
  <2>7. body[k] = section[k]
    BY <1>11, <2>1 DEF IsJoined
  <2>8. QED
    BY <2>2, <2>3, <2>4, <2>5, <2>6, <2>7
<1>24. IsSection(s, section, size - 4 - 1 - pointer)
  BY <1>22, <1>23 DEF IsSection, ls
<1>25. QED
  BY <1>19, <1>24 DEF payload, s, size

\* Entries, one after the other, ...
IsList(flat, parts, lengths) ==
  /\ flat \in Seq(Nat) /\ Len(flat) = All(lengths) /\ All(lengths) \in Nat
  /\ \A i \in 1..Len(lengths) : \A j \in 1..lengths[i] :
       flat[Ends(lengths)[i - 1] + j] = parts[i][j]
LEMMA ListFacts ==
  ASSUME NEW lengths \in Seq(Nat), NEW parts \in Seq(Seq(Nat)), Len(parts) = Len(lengths),
         \A i \in 1..Len(lengths) : Len(parts[i]) = lengths[i]
  PROVE  IsList(FlattenSeq(parts), parts, lengths)
<1> DEFINE n == Len(lengths)
           ends == Ends(lengths)
<1>1. /\ ends \in [0..n -> Nat] /\ ends[0] = 0
      /\ \A i \in 1..n : ends[i] = ends[i - 1] + lengths[i]
  BY EndsFacts
<1>2. n \in 0..n /\ ends[n] = All(lengths)
  BY DEF All
<1> HIDE DEF n, ends
<1>3. Len(parts) = n /\ \A i \in 1..n : Len(parts[i]) = lengths[i]
  BY DEF n
<1>4. /\ ends \in [0..Len(parts) -> Nat]
      /\ \A i \in 1..Len(parts) : ends[i] = ends[i - 1] + Len(parts[i])
  BY <1>1, <1>3
<1>5. /\ FlattenSeq(parts) \in Seq(Nat) /\ Len(FlattenSeq(parts)) = ends[Len(parts)]
      /\ \A i \in 1..Len(parts) : \A j \in 1..Len(parts[i]) :
           FlattenSeq(parts)[ends[i - 1] + j] = parts[i][j]
  BY <1>1, <1>4, Flattened
<1> DEFINE flat == FlattenSeq(parts)
<1> HIDE DEF flat
<1>6. /\ flat \in Seq(Nat) /\ Len(flat) = All(lengths) /\ All(lengths) \in Nat
      /\ \A i \in 1..n : \A j \in 1..lengths[i] : flat[ends[i - 1] + j] = parts[i][j]
  BY <1>1, <1>2, <1>3, <1>5 DEF flat
<1>7. QED
  BY <1>6 DEF IsList, flat, n, ends

\* ... as they are read in a section, after m bytes h.
IsHead(s, h, m) == \A k \in 1..m : k <= Len(s) => B(s, k - 1) = h[k]
IsEntries(s, m, parts, lengths) ==
  \A i \in 1..Len(lengths) : \A j \in 1..lengths[i] :
    m + Ends(lengths)[i - 1] + j <= Len(s) => B(s, m + Ends(lengths)[i - 1] + j - 1) = parts[i][j]
LEMMA SectionRead ==
  ASSUME NEW h \in Seq(Nat), NEW m, Len(h) = m,
         NEW lengths \in Seq(Nat), NEW parts, NEW flat, IsList(flat, parts, lengths),
         NEW section, IsJoined(section, h, m, flat, Len(flat)),
         NEW s, NEW room, IsSection(s, section, room)
  PROVE  IsHead(s, h, m) /\ IsEntries(s, m, parts, lengths)
<1> DEFINE all == All(lengths)
           ls == Len(s)
<1>1. m \in Nat
  OBVIOUS
<1>2. flat \in Seq(Nat) /\ Len(flat) = all /\ all \in Nat
  BY DEF IsList
<1>3. /\ Len(section) = m + all
      /\ \A k \in 1..m : section[k] = h[k]
      /\ \A k \in 1..all : section[m + k] = flat[k]
  BY <1>2 DEF IsJoined
<1>4. s \in Seq(Nat) /\ \A k \in 1..Len(s) : k <= Len(section) => s[k] = section[k]
  BY DEF IsSection
<1>5. ls \in Nat
  BY <1>4
<1>6. \A k \in Nat : k >= 1 /\ k <= ls /\ k <= m + all => B(s, k - 1) = section[k]
  <2> TAKE k \in Nat
  <2> HAVE k >= 1 /\ k <= ls /\ k <= m + all
  <2>1. k \in 1..ls /\ (k - 1) + 1 = k
    BY <1>5
  <2>2. s[k] = section[k]
    BY <1>3, <1>4, <2>1
  <2>3. QED
    BY <2>1, <2>2 DEF B
<1> HIDE DEF all, ls
<1>7. IsHead(s, h, m)
  <2>1. ASSUME NEW k \in 1..m, k <= ls PROVE B(s, k - 1) = h[k]
    <3>1. k \in Nat /\ k >= 1 /\ k <= m + all
      BY <1>1, <1>2
    <3>2. QED
      BY <1>3, <1>6, <2>1, <3>1
  <2>2. QED
    BY <2>1 DEF IsHead, ls
<1>8. IsEntries(s, m, parts, lengths)
  <2> DEFINE n == Len(lengths)
             e == Ends(lengths)
  <2>1. ASSUME NEW i \in 1..n, NEW j \in 1..lengths[i], m + e[i - 1] + j <= ls
        PROVE  B(s, m + e[i - 1] + j - 1) = parts[i][j]
    <3>1. /\ e[i - 1] \in Nat /\ e[i] = e[i - 1] + lengths[i] /\ lengths[i] \in Nat
          /\ e[i] \in Nat /\ e[i] <= e[n] /\ e[n] \in Nat
      <4>1. n \in Nat /\ i - 1 \in 0..n /\ i \in 0..n /\ n \in 0..n /\ i <= n
        OBVIOUS
      <4>2. /\ e \in [0..n -> Nat]
            /\ \A k \in 1..n : e[k] = e[k - 1] + lengths[k]
        BY EndsFacts
      <4>3. lengths[i] \in Nat
        OBVIOUS
      <4>4. e[i] <= e[n]
        BY <4>1, EndsGrow
      <4> HIDE DEF n, e
      <4>5. QED
        BY <4>1, <4>2, <4>3, <4>4
    <3>2. e[n] = all
      BY DEF All, all
    <3>3. flat[e[i - 1] + j] = parts[i][j]
      BY DEF IsList
    <3> DEFINE a == e[i - 1]
               b == lengths[i]
    <3>4. a \in Nat /\ b \in Nat /\ a + b <= all /\ j \in 1..b /\ m + a + j <= ls
      BY <2>1, <3>1, <3>2
    <3> HIDE DEF n, e, a, b
    <3>5. PICK k \in Nat : k = a + j
      BY <3>4
    <3>6. PICK o \in Nat : o = m + k
      BY <1>1
    <3>7. k \in 1..all /\ o >= 1 /\ o <= m + all /\ o <= ls /\ m + a + j - 1 = o - 1
      BY <1>1, <1>2, <3>4, <3>5, <3>6
    <3>8. flat[k] = parts[i][j]
      BY <3>3, <3>5 DEF a
    <3>9. section[o] = flat[k]
      BY <1>3, <3>6, <3>7
    <3>10. B(s, o - 1) = section[o]
      BY <1>6, <3>7
    <3>11. QED
      BY <3>7, <3>8, <3>9, <3>10 DEF a
  <2>2. QED
    BY <2>1 DEF IsEntries, ls
<1>9. QED
  BY <1>7, <1>8

\* The programs of a PAT whose entries are in the packet.
PatIn(p) == {i \in DOMAIN p.programs : /\ p.programs[i].number # 0
                                        /\ 8 + Ends(PatLengths(p))[i] <= Room(p)}

\* What is written of a PAT, ...
PatHead(p) == <<0>> \o Two(PatSection(p), 176) \o <<0, 1, 193, 0, 0>>
PatParts(p) == [i \in DOMAIN p.programs |-> Two(p.programs[i].number, 0) \o Two(p.programs[i].pid, 224)]
IsPatEntry(e, number, pid) ==
  /\ e \in Seq(Nat) /\ Len(e) = 4
  /\ e[1] = number \div 256 /\ e[2] = number % 256 /\ e[3] = 224 + pid \div 256 /\ e[4] = pid % 256
IsTableHead(h, size, id, section) ==
  /\ h \in Seq(Nat) /\ Len(h) = size /\ h[1] = id
  /\ h[2] = 176 + section \div 256 /\ h[3] = section % 256 /\ section \in Nat /\ section < 4096
LEMMA PatWritten ==
  ASSUME NEW p \in PATs
  PROVE  /\ p.programs \in Seq(Programs) /\ p.pointer \in Nat
         /\ PatLengths(p) \in Seq(Nat) /\ Len(PatLengths(p)) = Len(p.programs)
         /\ IsList(FlattenSeq(PatParts(p)), PatParts(p), PatLengths(p))
         /\ \A i \in 1..Len(p.programs) :
              PatLengths(p)[i] = 4 /\ IsPatEntry(PatParts(p)[i], p.programs[i].number, p.programs[i].pid)
         /\ IsTableHead(PatHead(p), 8, 0, PatSection(p))
<1> DEFINE q == p.programs
           n == Len(q)
           parts == PatParts(p)
           lengths == PatLengths(p)
<1>1. q \in SeqOf(Programs, MaxEntries) /\ p.pointer \in Pointers /\ PatSection(p) < 4096
  BY DEF PATs
<1>2. MaxEntries \in Nat
  BY MultiplexerAssumption DEF MultiplexerAssumption
<1>3. q \in Seq(Programs) /\ p.pointer \in Nat
  BY <1>1, <1>2, OfSeqOf, FieldsBounded
<1>4. n \in Nat /\ DOMAIN q = 1..n /\ \A i \in 1..n : q[i] \in Programs
  BY <1>3
<1>5. lengths = [i \in 1..n |-> 4]
  BY <1>4 DEF PatLengths
<1>6. parts = [i \in 1..n |-> Two(q[i].number, 0) \o Two(q[i].pid, 224)]
  BY <1>4 DEF PatParts
<1>7. \A i \in 1..n : q[i].number \in Nat /\ q[i].pid \in Nat
  BY <1>4, FieldsBounded
<1> HIDE DEF q, n, parts, lengths
<1>8. lengths \in Seq(Nat) /\ Len(lengths) = n /\ \A i \in 1..n : lengths[i] = 4
  BY <1>4, <1>5
<1>9. \A a, b \in Nat : IsPatEntry(Two(a, 0) \o Two(b, 224), a, b)
  BY DEF Two, IsPatEntry
<1>10. \A i \in 1..n : IsPatEntry(parts[i], q[i].number, q[i].pid)
  BY <1>6, <1>7, <1>9
<1>11. parts \in Seq(Seq(Nat)) /\ Len(parts) = n
  <2> DEFINE T == Seq(Nat)
  <2>1. parts \in [1..n -> T]
    BY <1>6, <1>10 DEF IsPatEntry
  <2> HIDE DEF T
  <2>2. parts \in Seq(T) /\ Len(parts) = n
    BY <1>4, <2>1
  <2>3. QED
    BY <2>2 DEF T
<1>12. IsList(FlattenSeq(parts), parts, lengths)
  <2>1. Len(parts) = Len(lengths) /\ \A i \in 1..Len(lengths) : Len(parts[i]) = lengths[i]
    BY <1>8, <1>10, <1>11 DEF IsPatEntry
  <2>2. QED
    BY <1>8, <1>11, <2>1, ListFacts
<1>13. PatSection(p) \in Nat
  BY <1>12 DEF IsList, PatSection, lengths
<1>14. \A v \in Nat : v < 4096 => IsTableHead(<<0>> \o Two(v, 176) \o <<0, 1, 193, 0, 0>>, 8, 0, v)
  BY DEF Two, IsTableHead
<1>15. IsTableHead(PatHead(p), 8, 0, PatSection(p))
  BY <1>1, <1>13, <1>14 DEF PatHead
<1>16. QED
  BY <1>3, <1>8, <1>10, <1>12, <1>15 DEF q, n, parts, lengths

\* ... whose entries have four bytes, ...
LEMMA PatEnds ==
  ASSUME NEW p \in PATs
  PROVE  \A i \in 0..Len(p.programs) : Ends(PatLengths(p))[i] = 4 * i
<1> DEFINE n == Len(p.programs)
           e == Ends(PatLengths(p))
<1>1. n \in Nat /\ e[0] = 0 /\ \A i \in 1..n : e[i] = e[i - 1] + 4
  <2> DEFINE lengths == PatLengths(p)
  <2>1. lengths \in Seq(Nat) /\ Len(lengths) = n /\ \A i \in 1..n : lengths[i] = 4
    BY PatWritten
  <2> HIDE DEF lengths
  <2>2. /\ Ends(lengths)[0] = 0
        /\ \A i \in 1..Len(lengths) : Ends(lengths)[i] = Ends(lengths)[i - 1] + lengths[i]
    BY <2>1, EndsFacts
  <2>3. n \in Nat
    BY PatWritten
  <2>4. QED
    BY <2>1, <2>2, <2>3 DEF lengths
<1> HIDE DEF n, e
<1> DEFINE Bad == {i \in Nat : i <= n /\ e[i] # 4 * i}
<1>2. Bad = {}
  <2>1. SUFFICES ASSUME Bad # {} PROVE FALSE
    OBVIOUS
  <2>2. Bad \subseteq Nat
    OBVIOUS
  <2>3. PICK m \in Bad : \A k \in Bad : m <= k
    BY <2>1, <2>2, LeastNat
  <2>4. m \in Nat /\ m <= n /\ e[m] # 4 * m /\ m # 0
    BY <1>1, <2>3
  <2>5. m - 1 \in Nat /\ m - 1 <= n /\ ~(m <= m - 1) /\ m \in 1..n
    BY <1>1, <2>4
  <2>6. e[m - 1] = 4 * (m - 1)
    BY <2>3, <2>5
  <2>7. QED
    BY <1>1, <2>4, <2>5, <2>6
<1>3. \A i \in 0..n : i \in Nat /\ i <= n
  BY <1>1
<1>4. QED
  BY <1>2, <1>3 DEF n, e

\* ... is what is read: the length, the programs and their PIDs, as far as the
\* packet goes.
IsPat(s, p) ==
  /\ Len(s) = IF 0 < Room(p) THEN Room(p) ELSE 0
  /\ 3 <= Len(s) => B(s, 0) = 0 /\ Word(s, 1, 4) = PatSection(p)
  /\ \A i \in 1..Len(p.programs) : 8 + 4 * i <= Len(s) =>
       /\ Word(s, 8 + 4 * (i - 1), 8) = p.programs[i].number
       /\ Word(s, 8 + 4 * (i - 1) + 2, 5) = p.programs[i].pid
LEMMA PatFields ==
  ASSUME NEW p \in PATs
  PROVE  IsTable(PatBytes(p), 0) /\ IsPat(Section(Rest(PatBytes(p), 4)), p)
<1> DEFINE q == p.programs
           n == Len(q)
           lengths == PatLengths(p)
           parts == PatParts(p)
           flat == FlattenSeq(parts)
           h == PatHead(p)
           section == h \o flat
           crc == <<0, 3, 225, 9>>
           bytes == PatBytes(p)
           s == Section(Rest(bytes, 4))
           room == PacketLength - 4 - 1 - p.pointer
<1>1. /\ q \in Seq(Programs) /\ p.pointer \in Nat
      /\ lengths \in Seq(Nat) /\ Len(lengths) = n /\ IsList(flat, parts, lengths)
      /\ IsTableHead(h, 8, 0, PatSection(p))
  BY PatWritten
<1>2. \A i \in 1..n : lengths[i] = 4 /\ IsPatEntry(parts[i], q[i].number, q[i].pid)
  BY PatWritten
<1>3. bytes = TablePacket(0, p.pointer, section, crc)
  BY DEF PatBytes, PatParts, PatHead
<1>4. crc \in Seq(Nat)
  OBVIOUS
<1>5. n \in Nat /\ \A i \in 1..n : q[i].number \in Nat /\ q[i].number < 65536 /\ q[i].pid \in Nat /\ q[i].pid < 8192
  <2>1. n \in Nat /\ \A i \in 1..n : q[i] \in Programs
    BY <1>1
  <2>2. QED
    BY <2>1, FieldsBounded
<1> HIDE DEF q, n, lengths, parts, flat, h, crc, bytes
<1>6. h \in Seq(Nat) /\ flat \in Seq(Nat)
  BY <1>1 DEF IsList, IsTableHead
<1>7. section \in Seq(Nat) /\ IsJoined(section, h, Len(h), flat, Len(flat))
  BY <1>6, Joins
<1> HIDE DEF section
<1>8. IsTable(bytes, 0) /\ IsSection(s, section, room)
  <2>1. 0 \in Nat /\ 0 < 8192
    OBVIOUS
  <2>2. QED
    BY <1>1, <1>3, <1>4, <1>7, <2>1, TableRead
<1> HIDE DEF s, room
<1>9. IsHead(s, h, Len(h)) /\ IsEntries(s, Len(h), parts, lengths)
  BY <1>1, <1>6, <1>7, <1>8, SectionRead
<1>10. Len(s) = IF 0 < Room(p) THEN Room(p) ELSE 0
  BY <1>8 DEF IsSection, room, Room
<1>11. Len(s) \in Nat
  BY <1>8 DEF IsSection
<1>12. ASSUME 3 <= Len(s) PROVE B(s, 0) = 0 /\ Word(s, 1, 4) = PatSection(p)
  <2>1. B(s, 1 - 1) = h[1] /\ B(s, 2 - 1) = h[2] /\ B(s, 3 - 1) = h[3]
    <3>1. Len(h) = 8
      BY <1>1 DEF IsTableHead
    <3>2. 1 \in 1..Len(h) /\ 2 \in 1..Len(h) /\ 3 \in 1..Len(h) /\ 1 <= Len(s) /\ 2 <= Len(s)
      BY <1>11, <1>12, <3>1
    <3>3. QED
      BY <1>9, <1>12, <3>2 DEF IsHead
  <2>2. B(s, 0) = h[1] /\ B(s, 1) = h[2] /\ B(s, 1 + 1) = h[3]
    BY <2>1
  <2>3. /\ h[1] = 0 /\ h[2] = 176 + PatSection(p) \div 256 /\ h[3] = PatSection(p) % 256
        /\ PatSection(p) \in Nat /\ PatSection(p) < 4096
    BY <1>1 DEF IsTableHead
  <2>4. Word(s, 1, 4) = PatSection(p)
    BY <2>2, <2>3, WordRead
  <2>5. QED
    BY <2>2, <2>3, <2>4
<1>13. ASSUME NEW i \in 1..n, 8 + 4 * i <= Len(s)
       PROVE  Word(s, 8 + 4 * (i - 1), 8) = q[i].number /\ Word(s, 8 + 4 * (i - 1) + 2, 5) = q[i].pid
  <2> DEFINE o == 8 + 4 * (i - 1)
             e == parts[i]
  <2>1. IsPatEntry(e, q[i].number, q[i].pid) /\ lengths[i] = 4
    BY <1>2
  <2>2. Ends(lengths)[i - 1] = 4 * (i - 1)
    <3>1. i - 1 \in 0..n
      BY <1>5
    <3>2. QED
      BY <3>1, PatEnds DEF n, q, lengths
  <2>3. Len(h) + Ends(lengths)[i - 1] = o
    BY <1>1, <2>2 DEF IsTableHead
  <2>4. \A j \in 1..lengths[i] : o + j <= Len(s) => B(s, o + j - 1) = e[j]
    BY <1>1, <1>9, <2>3 DEF IsEntries
  <2>5. o \in Nat /\ o + 4 <= Len(s)
    BY <1>5, <1>11, <1>13
  <2> HIDE DEF o, e
  <2>6. B(s, o) = e[1] /\ B(s, o + 1) = e[2] /\ B(s, o + 2) = e[3] /\ B(s, (o + 2) + 1) = e[4]
    <3>1. /\ 1 \in 1..lengths[i] /\ 2 \in 1..lengths[i] /\ 3 \in 1..lengths[i] /\ 4 \in 1..lengths[i]
          /\ o + 1 <= Len(s) /\ o + 2 <= Len(s) /\ o + 3 <= Len(s)
          /\ o + 1 - 1 = o /\ o + 2 - 1 = o + 1 /\ o + 3 - 1 = o + 2 /\ o + 4 - 1 = (o + 2) + 1
      BY <1>11, <2>1, <2>5
    <3>2. QED
      BY <2>4, <2>5, <3>1
  <2>7. Word(s, o, 8) = q[i].number
    <3> DEFINE v == q[i].number
    <3>1. v \in Nat /\ v < 65536 /\ B(s, o) = v \div 256 /\ B(s, o + 1) = v % 256 /\ o \in Nat
      BY <1>5, <2>1, <2>5, <2>6 DEF IsPatEntry
    <3> HIDE DEF v
    <3>2. Word(s, o, 8) = v
      BY <3>1, WordRead
    <3>3. QED
      BY <3>2 DEF v
  <2>8. Word(s, o + 2, 5) = q[i].pid
    <3>1. o + 2 \in Nat
      BY <2>5
    <3>2. QED
      BY <1>5, <2>1, <2>6, <3>1, WordRead DEF IsPatEntry
  <2>9. QED
    BY <2>7, <2>8 DEF o
<1>14. IsPat(s, p)
  BY <1>10, <1>12, <1>13 DEF IsPat, n, q
<1>15. QED
  BY <1>8, <1>14 DEF s, bytes

\* The least of the numbers that are c and d for each place from the first on.
LEMMA MinAt ==
  ASSUME NEW T, T \subseteq Nat \ {0}, T # {}, NEW c \in Nat
  PROVE  Min({c + 4 * (i - 1) : i \in T}) = c + 4 * (Min(T) - 1)
<1> DEFINE U == {c + 4 * (i - 1) : i \in T}
           m == c + 4 * (Min(T) - 1)
<1>1. Min(T) \in T /\ \A k \in T : Min(T) <= k
  BY MinNat
<1>2. U \subseteq Nat
  OBVIOUS
<1>3. m \in U
  BY <1>1
<1>4. \A u \in U : m <= u
  <2>1. PICK x \in T : x = Min(T) /\ \A k \in T : x <= k
    BY <1>1
  <2>2. m = c + 4 * (x - 1) /\ x \in Nat
    BY <2>1
  <2>3. \A i \in T : m <= c + 4 * (i - 1)
    <3> HIDE DEF m
    <3> TAKE i \in T
    <3>1. x <= i /\ i \in Nat
      BY <2>1
    <3>2. QED
      BY <2>2, <3>1
  <2> HIDE DEF m
  <2>4. QED
    BY <2>3
<1> HIDE DEF U, m
<1>5. Min(U) = m
  BY <1>2, <1>3, <1>4, MinIs
<1>6. QED
  BY <1>5 DEF U, m

\* The PMT is found that the first program announces whose entry is in the packet.
LEMMA PatFound ==
  ASSUME NEW p \in PATs
  PROVE  ParsePAT(Rest(PatBytes(p), 4)) =
           IF PatIn(p) = {} THEN 0 ELSE p.programs[Min(PatIn(p))].pid
<1> DEFINE q == p.programs
           n == Len(q)
           payload == Rest(PatBytes(p), 4)
           s == Section(payload)
           In == PatIn(p)
           Offsets == {o \in {8 + 4 * k : k \in 0..Len(s)} :
                         /\ o + 4 <= SectionEnd(s) /\ o + 4 <= Len(s)
                         /\ Word(s, o, 8) # 0}
<1>1. IsPat(s, p) /\ Len(payload) = PacketLength - 4
  BY PatFields DEF IsTable
<1>2. q \in Seq(Programs) /\ p.pointer \in Nat
  BY PatWritten
<1>3. n \in Nat /\ DOMAIN q = 1..n /\ \A i \in 1..n : q[i].pid # 0
  <2>1. n \in Nat /\ DOMAIN q = 1..n /\ \A i \in 1..n : q[i] \in Programs
    BY <1>2
  <2>2. QED
    BY <2>1, FieldsBounded
<1>4. Room(p) \in Int /\ Len(payload) \in Nat /\ ~(Len(payload) < 8)
  BY <1>1, <1>2, PacketLengthNat DEF Room
<1>5. Len(s) = IF 0 < Room(p) THEN Room(p) ELSE 0
  BY <1>1 DEF IsPat
<1>6. PatSection(p) = 9 + 4 * n
  <2>1. All(PatLengths(p)) = Ends(PatLengths(p))[n] /\ n \in 0..n
    BY <1>3, PatWritten DEF All
  <2>2. All(PatLengths(p)) = 4 * n
    BY <2>1, PatEnds
  <2>3. QED
    BY <1>3, <2>2 DEF PatSection
<1>7. In = {i \in 1..n : q[i].number # 0 /\ 8 + 4 * i <= Len(s)}
  <2>1. \A i \in 1..n : Ends(PatLengths(p))[i] = 4 * i
    <3>1. \A i \in 1..n : i \in 0..n
      OBVIOUS
    <3>2. QED
      BY <3>1, PatEnds
  <2>2. \A i \in 1..n : 8 + 4 * i <= Room(p) <=> 8 + 4 * i <= Len(s)
    BY <1>3, <1>4, <1>5
  <2>3. In = {i \in 1..n : q[i].number # 0 /\ 8 + Ends(PatLengths(p))[i] <= Room(p)}
    BY <1>3 DEF PatIn
  <2> HIDE DEF q, n, In, s
  <2>4. QED
    BY <2>1, <2>2, <2>3
<1>8. Len(s) \in Nat
  BY <1>4, <1>5
<1>9. 3 <= Len(s) => /\ B(s, 0) = 0 /\ Word(s, 1, 4) = 9 + 4 * n /\ SectionEnd(s) = 8 + 4 * n
  BY <1>1, <1>3, <1>6 DEF IsPat, SectionEnd
<1>10. \A i \in 1..n : 8 + 4 * i <= Len(s) =>
         /\ Word(s, 8 + 4 * (i - 1), 8) = q[i].number
         /\ Word(s, 8 + 4 * (i - 1) + 2, 5) = q[i].pid
  BY <1>1 DEF IsPat
<1> HIDE DEF q, n, In, s, payload
<1>11. Offsets = {8 + 4 * (i - 1) : i \in In}
  <2>1. ASSUME NEW o \in Offsets PROVE \E i \in In : o = 8 + 4 * (i - 1)
    <3>1. PICK k \in 0..Len(s) : o = 8 + 4 * k
      OBVIOUS
    <3>2. o + 4 <= SectionEnd(s) /\ o + 4 <= Len(s) /\ Word(s, o, 8) # 0
      OBVIOUS
    <3>3. k \in Nat /\ 3 <= Len(s)
      BY <1>8, <3>1, <3>2
    <3>4. PICK i \in Nat : i = k + 1
      BY <3>3
    <3>5. i \in 1..n /\ 8 + 4 * i <= Len(s) /\ o = 8 + 4 * (i - 1)
      BY <1>3, <1>8, <1>9, <3>1, <3>2, <3>3, <3>4
    <3>6. q[i].number # 0
      BY <1>10, <3>2, <3>5
    <3>7. QED
      BY <1>7, <3>5, <3>6
  <2>2. ASSUME NEW i \in In PROVE 8 + 4 * (i - 1) \in Offsets
    <3>1. i \in 1..n /\ q[i].number # 0 /\ 8 + 4 * i <= Len(s)
      BY <1>7
    <3>2. i - 1 \in 0..Len(s) /\ 3 <= Len(s)
      BY <1>3, <1>8, <3>1
    <3>3. 8 + 4 * (i - 1) + 4 <= 8 + 4 * n /\ 8 + 4 * (i - 1) + 4 <= Len(s)
      BY <1>3, <1>8, <3>1
    <3>4. Word(s, 8 + 4 * (i - 1), 8) # 0
      BY <1>10, <3>1
    <3>5. QED
      BY <1>9, <3>2, <3>3, <3>4
  <2> HIDE DEF Offsets
  <2>3. QED
    BY <2>1, <2>2
<1>12. ParsePAT(payload) =
         IF \/ Len(payload) < 8 \/ Len(s) < 8
            \/ B(s, 0) # 0 \/ Word(s, 1, 4) < 9 \/ Offsets = {}
           THEN 0
           ELSE Word(s, Min(Offsets) + 2, 5)
  BY DEF ParsePAT, s
<1> HIDE DEF Offsets
<1>13. CASE In = {}
  <2>1. Offsets = {}
    BY <1>11, <1>13
  <2>2. QED
    BY <1>12, <1>13, <2>1 DEF In, payload
<1>14. CASE In # {}
  <2>1. In \subseteq Nat \ {0}
    BY <1>7
  <2>2. Min(In) \in In
    BY <1>14, <2>1, MinNat
  <2>3. PICK i \in 1..n : i = Min(In) /\ 8 + 4 * i <= Len(s)
    BY <1>7, <2>2
  <2>4. 8 \in Nat
    OBVIOUS
  <2>5. Min(Offsets) = 8 + 4 * (i - 1)
    BY <1>11, <1>14, <2>1, <2>3, <2>4, MinAt
  <2>6. Offsets # {}
    BY <1>11, <1>14
  <2>7. ~(Len(s) < 8) /\ 3 <= Len(s) /\ ~(9 + 4 * n < 9)
    BY <1>3, <1>8, <2>3
  <2>8. B(s, 0) = 0 /\ ~(Word(s, 1, 4) < 9)
    BY <1>9, <2>7
  <2>9. ParsePAT(payload) = Word(s, Min(Offsets) + 2, 5)
    BY <1>4, <1>12, <2>6, <2>7, <2>8
  <2>10. Word(s, 8 + 4 * (i - 1) + 2, 5) = q[i].pid
    BY <1>10, <2>3
  <2>11. ParsePAT(payload) = q[Min(In)].pid
    BY <2>3, <2>5, <2>9, <2>10
  <2>12. QED
    BY <1>14, <2>11 DEF In, payload, q
<1>15. QED
  BY <1>13, <1>14

\* What is written of a PMT: its entries, ...
PmtHead(p) == <<2>> \o Two(PmtSection(p), 176) \o <<0, 1, 193, 0, 0, 225, 44>> \o Two(p.info, 240)
                \o Byte(27, p.info)
PmtEntry(e) == <<e.type>> \o Two(e.pid, 224) \o Two(e.es, 240) \o Byte(27, e.es)
PmtParts(p) == [i \in DOMAIN p.streams |-> PmtEntry(p.streams[i])]
IsPmtEntry(b, e) ==
  /\ b \in Seq(Nat) /\ Len(b) = 5 + e.es
  /\ b[1] = e.type /\ b[2] = 224 + e.pid \div 256 /\ b[3] = e.pid % 256
  /\ b[4] = 240 + e.es \div 256 /\ b[5] = e.es % 256
LEMMA PmtEntryWritten ==
  ASSUME NEW e, e.type \in Nat, e.pid \in Nat, e.es \in Nat
  PROVE  IsPmtEntry(PmtEntry(e), e)
<1> DEFINE a == <<e.type>> \o Two(e.pid, 224) \o Two(e.es, 240)
           fill == Byte(27, e.es)
           b == a \o fill
<1>1. /\ a \in Seq(Nat) /\ Len(a) = 5
      /\ a[1] = e.type /\ a[2] = 224 + e.pid \div 256 /\ a[3] = e.pid % 256
      /\ a[4] = 240 + e.es \div 256 /\ a[5] = e.es % 256
  <2> DEFINE t == e.type
             v == e.pid
             w == e.es
  <2>1. \A x, y, z \in Nat : LET c == <<x>> \o <<224 + y \div 256, y % 256>> \o <<240 + z \div 256, z % 256>> IN
          /\ c \in Seq(Nat) /\ Len(c) = 5
          /\ c[1] = x /\ c[2] = 224 + y \div 256 /\ c[3] = y % 256
          /\ c[4] = 240 + z \div 256 /\ c[5] = z % 256
    OBVIOUS
  <2>2. a = <<t>> \o <<224 + v \div 256, v % 256>> \o <<240 + w \div 256, w % 256>>
    BY DEF Two
  <2> HIDE DEF t, v, w
  <2>3. t \in Nat /\ v \in Nat /\ w \in Nat
    BY DEF t, v, w
  <2> HIDE DEF a
  <2>4. /\ a \in Seq(Nat) /\ Len(a) = 5
        /\ a[1] = t /\ a[2] = 224 + v \div 256 /\ a[3] = v % 256
        /\ a[4] = 240 + w \div 256 /\ a[5] = w % 256
    BY <2>1, <2>2, <2>3
  <2>5. QED
    BY <2>4 DEF t, v, w
<1>2. fill \in Seq(Nat) /\ Len(fill) = e.es
  <2>1. 27 \in Nat
    OBVIOUS
  <2>2. IsFilled(fill, 27, e.es)
    BY <2>1, ByteFacts
  <2>3. QED
    BY <2>2 DEF IsFilled
<1>3. PmtEntry(e) = b
  BY DEF PmtEntry
<1> HIDE DEF a, fill
<1>4. b \in Seq(Nat) /\ IsJoined(b, a, Len(a), fill, Len(fill))
  BY <1>1, <1>2, Joins
<1> HIDE DEF b
<1>5. Len(b) = 5 + e.es /\ \A k \in 1..Len(a) : b[k] = a[k]
  BY <1>1, <1>2, <1>4 DEF IsJoined
<1>6. 1 \in 1..Len(a) /\ 2 \in 1..Len(a) /\ 3 \in 1..Len(a) /\ 4 \in 1..Len(a) /\ 5 \in 1..Len(a)
  BY <1>1
<1>7. b[1] = a[1] /\ b[2] = a[2] /\ b[3] = a[3] /\ b[4] = a[4] /\ b[5] = a[5]
  BY <1>5, <1>6
<1>8. QED
  BY <1>1, <1>3, <1>4, <1>5, <1>7 DEF IsPmtEntry

\* ... its header, with the descriptors of the program, ...
LEMMA PmtHeadWritten ==
  ASSUME NEW p, p.info \in Nat, PmtSection(p) \in Nat, PmtSection(p) < 4096
  PROVE  /\ IsTableHead(PmtHead(p), 12 + p.info, 2, PmtSection(p))
         /\ PmtHead(p)[11] = 240 + p.info \div 256 /\ PmtHead(p)[12] = p.info % 256
<1> DEFINE v == PmtSection(p)
           w == p.info
           a == <<2>> \o Two(v, 176) \o <<0, 1, 193, 0, 0, 225, 44>> \o Two(w, 240)
           fill == Byte(27, w)
           b == a \o fill
<1>1. v \in Nat /\ w \in Nat /\ v < 4096
  OBVIOUS
<1>2. PmtHead(p) = b
  BY DEF PmtHead
<1> HIDE DEF v, w
<1>3. /\ a \in Seq(Nat) /\ Len(a) = 12
      /\ a[1] = 2 /\ a[2] = 176 + v \div 256 /\ a[3] = v % 256
      /\ a[11] = 240 + w \div 256 /\ a[12] = w % 256
  BY <1>1 DEF Two
<1>4. fill \in Seq(Nat) /\ Len(fill) = w
  <2>1. 27 \in Nat
    OBVIOUS
  <2>2. IsFilled(fill, 27, w)
    BY <1>1, <2>1, ByteFacts
  <2>3. QED
    BY <2>2 DEF IsFilled
<1> HIDE DEF a, fill
<1>5. b \in Seq(Nat) /\ IsJoined(b, a, Len(a), fill, Len(fill))
  <2>1. a \in Seq(Nat) /\ fill \in Seq(Nat)
    BY <1>3, <1>4
  <2>2. QED
    BY <2>1, Joins
<1> HIDE DEF b
<1>6. Len(b) = 12 + w /\ \A k \in 1..Len(a) : b[k] = a[k]
  BY <1>3, <1>4, <1>5 DEF IsJoined
<1>7. 1 \in 1..Len(a) /\ 2 \in 1..Len(a) /\ 3 \in 1..Len(a) /\ 11 \in 1..Len(a) /\ 12 \in 1..Len(a)
  BY <1>3
<1>8. b[1] = a[1] /\ b[2] = a[2] /\ b[3] = a[3] /\ b[11] = a[11] /\ b[12] = a[12]
  BY <1>6, <1>7
<1>9. QED
  BY <1>1, <1>2, <1>3, <1>5, <1>6, <1>8 DEF IsTableHead, v, w

\* ... and the whole.
LEMMA PmtWritten ==
  ASSUME NEW p \in PMTs
  PROVE  /\ p.streams \in Seq(StreamKinds) /\ p.pointer \in Nat /\ p.pid \in Nat /\ p.pid < 8192
         /\ p.info \in Nat /\ p.info < 1024
         /\ PmtLengths(p) \in Seq(Nat) /\ Len(PmtLengths(p)) = Len(p.streams)
         /\ IsList(FlattenSeq(PmtParts(p)), PmtParts(p), PmtLengths(p))
         /\ \A i \in 1..Len(p.streams) :
              /\ PmtLengths(p)[i] = 5 + p.streams[i].es
              /\ IsPmtEntry(PmtParts(p)[i], p.streams[i])
         /\ IsTableHead(PmtHead(p), 12 + p.info, 2, PmtSection(p))
         /\ PmtHead(p)[11] = 240 + p.info \div 256 /\ PmtHead(p)[12] = p.info % 256
         /\ PmtSection(p) = 13 + p.info + All(PmtLengths(p))
<1> DEFINE q == p.streams
           n == Len(q)
           parts == PmtParts(p)
           lengths == PmtLengths(p)
<1>1. /\ q \in SeqOf(StreamKinds, MaxEntries) /\ p.pointer \in Pointers /\ PmtSection(p) < 4096
      /\ p.pid \in PmtPIDs /\ p.info \in Infos
  BY DEF PMTs
<1>2. MaxEntries \in Nat
  BY MultiplexerAssumption DEF MultiplexerAssumption
<1>3. p.pointer \in Nat /\ p.pid \in Nat /\ p.pid < 8192 /\ p.info \in Nat /\ p.info < 1024
  BY <1>1, FieldsBounded
<1>4. q \in Seq(StreamKinds)
  BY <1>1, <1>2, OfSeqOf
<1>5. n \in Nat /\ DOMAIN q = 1..n /\ \A i \in 1..n : q[i] \in StreamKinds
  BY <1>4
<1>6. lengths = [i \in 1..n |-> 5 + q[i].es]
  BY <1>5 DEF PmtLengths
<1>7. parts = [i \in 1..n |-> PmtEntry(q[i])]
  BY <1>5 DEF PmtParts
<1>8. \A i \in 1..n : q[i].type \in Nat /\ q[i].pid \in Nat /\ q[i].es \in Nat
  BY <1>5, FieldsBounded
<1> HIDE DEF q, n, parts, lengths
<1>9. lengths \in Seq(Nat) /\ Len(lengths) = n /\ \A i \in 1..n : lengths[i] = 5 + q[i].es
  <2>1. lengths \in [1..n -> Nat] /\ \A i \in 1..n : lengths[i] = 5 + q[i].es
    BY <1>6, <1>8
  <2>2. QED
    BY <1>5, <2>1
<1>10. \A i \in 1..n : IsPmtEntry(parts[i], q[i])
  BY <1>7, <1>8, PmtEntryWritten
<1>11. parts \in Seq(Seq(Nat)) /\ Len(parts) = n
  <2> DEFINE T == Seq(Nat)
  <2>1. \A i \in 1..n : PmtEntry(q[i]) \in T
    BY <1>7, <1>10 DEF IsPmtEntry
  <2> HIDE DEF T
  <2>2. parts \in [1..n -> T]
    BY <1>7, <2>1
  <2>3. parts \in Seq(T) /\ Len(parts) = n
    BY <1>5, <2>2
  <2>4. QED
    BY <2>3 DEF T
<1>12. IsList(FlattenSeq(parts), parts, lengths)
  <2>1. Len(parts) = Len(lengths) /\ \A i \in 1..Len(lengths) : Len(parts[i]) = lengths[i]
    <3>1. \A i \in 1..n : Len(parts[i]) = 5 + q[i].es
      BY <1>10 DEF IsPmtEntry
    <3>2. QED
      BY <1>9, <1>11, <3>1
  <2>2. QED
    BY <1>9, <1>11, <2>1, ListFacts
<1>13. PmtSection(p) = 13 + p.info + All(lengths) /\ PmtSection(p) \in Nat
  <2>1. All(lengths) \in Nat
    BY <1>12 DEF IsList
  <2>2. PmtSection(p) = 9 + p.info + All(lengths) + 4
    BY DEF PmtSection, lengths
  <2>3. QED
    BY <1>3, <2>1, <2>2
<1>14. /\ IsTableHead(PmtHead(p), 12 + p.info, 2, PmtSection(p))
       /\ PmtHead(p)[11] = 240 + p.info \div 256 /\ PmtHead(p)[12] = p.info % 256
  BY <1>1, <1>3, <1>13, PmtHeadWritten
<1>15. QED
  BY <1>3, <1>4, <1>9, <1>10, <1>12, <1>13, <1>14 DEF q, n, parts, lengths

\* Where the entries begin in the section, ...
EntryAt(p, i) == 12 + p.info + Ends(PmtLengths(p))[i - 1]

\* ... which is what is read.
IsPmt(s, p) ==
  /\ s \in Seq(Nat) /\ Len(s) = IF 0 < Room(p) THEN Room(p) ELSE 0
  /\ 12 <= Len(s) => B(s, 0) = 2 /\ Word(s, 1, 4) = PmtSection(p) /\ Word(s, 10, 4) = p.info
  /\ \A i \in 1..Len(p.streams) : EntryAt(p, i) + 5 <= Len(s) =>
       /\ B(s, EntryAt(p, i)) = p.streams[i].type
       /\ Word(s, EntryAt(p, i) + 1, 5) = p.streams[i].pid
       /\ Word(s, EntryAt(p, i) + 3, 4) = p.streams[i].es
LEMMA PmtFields ==
  ASSUME NEW p \in PMTs
  PROVE  IsTable(PmtBytes(p), p.pid) /\ IsPmt(Section(Rest(PmtBytes(p), 4)), p)
<1> DEFINE q == p.streams
           n == Len(q)
           lengths == PmtLengths(p)
           parts == PmtParts(p)
           flat == FlattenSeq(parts)
           h == PmtHead(p)
           m == Len(h)
           section == h \o flat
           crc == <<27, 225, 9, 240>>
           bytes == PmtBytes(p)
           s == Section(Rest(bytes, 4))
           room == PacketLength - 4 - 1 - p.pointer
           info == p.info
           all == PmtSection(p)
<1>1. /\ q \in Seq(StreamKinds) /\ p.pointer \in Nat /\ p.pid \in Nat /\ p.pid < 8192
      /\ lengths \in Seq(Nat) /\ Len(lengths) = n /\ IsList(flat, parts, lengths)
  BY PmtWritten
<1>2. \A i \in 1..n : lengths[i] = 5 + q[i].es /\ IsPmtEntry(parts[i], q[i])
  BY PmtWritten
<1>3. /\ info \in Nat /\ info < 1024 /\ h \in Seq(Nat) /\ m = 12 + info /\ all \in Nat /\ all < 4096
      /\ h[1] = 2 /\ h[2] = 176 + all \div 256 /\ h[3] = all % 256
      /\ h[11] = 240 + info \div 256 /\ h[12] = info % 256
  BY PmtWritten DEF IsTableHead
<1>4. bytes = TablePacket(p.pid, p.pointer, section, crc)
  BY DEF PmtBytes, PmtParts, PmtHead, PmtEntry
<1>5. crc \in Seq(Nat)
  OBVIOUS
<1>6. n \in Nat /\ \A i \in 1..n : /\ q[i].pid \in Nat /\ q[i].pid < 8192
                                   /\ q[i].es \in Nat /\ q[i].es < 1024
  <2>1. n \in Nat /\ \A i \in 1..n : q[i] \in StreamKinds
    BY <1>1
  <2>2. QED
    BY <2>1, FieldsBounded
<1> HIDE DEF q, n, lengths, parts, flat, h, crc, bytes, info, all
<1>7. h \in Seq(Nat) /\ flat \in Seq(Nat)
  BY <1>1, <1>3 DEF IsList
<1>8. section \in Seq(Nat) /\ IsJoined(section, h, m, flat, Len(flat))
  BY <1>7, Joins
<1> HIDE DEF section
<1>9. IsTable(bytes, p.pid) /\ IsSection(s, section, room)
  BY <1>1, <1>4, <1>5, <1>8, TableRead
<1> HIDE DEF s, room
<1>10. IsHead(s, h, m) /\ IsEntries(s, m, parts, lengths)
  <2>1. /\ IsJoined(section, h, m, flat, Len(flat)) /\ IsSection(s, section, room)
        /\ lengths \in Seq(Nat) /\ IsList(flat, parts, lengths)
    BY <1>1, <1>8, <1>9
  <2>2. QED
    BY <1>7, <2>1, SectionRead
<1> HIDE DEF m
<1>11. s \in Seq(Nat) /\ Len(s) = IF 0 < Room(p) THEN Room(p) ELSE 0
  BY <1>9 DEF IsSection, room, Room
<1>12. Len(s) \in Nat
  BY <1>11
<1>13. ASSUME 12 <= Len(s) PROVE B(s, 0) = 2 /\ Word(s, 1, 4) = all /\ Word(s, 10, 4) = info
  <2>1. /\ B(s, 1 - 1) = h[1] /\ B(s, 2 - 1) = h[2] /\ B(s, 3 - 1) = h[3]
        /\ B(s, 11 - 1) = h[11] /\ B(s, 12 - 1) = h[12]
    <3>1. m \in Nat /\ 12 <= m
      BY <1>3
    <3>2. 1 \in 1..m /\ 2 \in 1..m /\ 3 \in 1..m /\ 11 \in 1..m /\ 12 \in 1..m
      BY <3>1
    <3>3. 1 <= Len(s) /\ 2 <= Len(s) /\ 3 <= Len(s) /\ 11 <= Len(s)
      BY <1>12, <1>13
    <3>4. QED
      BY <1>10, <1>13, <3>2, <3>3 DEF IsHead
  <2>2. B(s, 0) = h[1] /\ B(s, 1) = h[2] /\ B(s, 1 + 1) = h[3] /\ B(s, 10) = h[11] /\ B(s, 10 + 1) = h[12]
    BY <2>1
  <2>3. Word(s, 1, 4) = all
    <3>1. /\ all \in Nat /\ all < 4096
          /\ B(s, 1) = 176 + all \div 256 /\ B(s, 1 + 1) = all % 256
      BY <1>3, <2>2
    <3>2. QED
      BY <3>1, WordRead
  <2>4. Word(s, 10, 4) = info
    <3>1. /\ info \in Nat /\ info < 4096
          /\ B(s, 10) = 240 + info \div 256 /\ B(s, 10 + 1) = info % 256
      BY <1>3, <2>2
    <3>2. QED
      BY <3>1, WordRead
  <2>5. QED
    BY <1>3, <2>2, <2>3, <2>4
<1>14. ASSUME NEW i \in 1..n, EntryAt(p, i) + 5 <= Len(s)
       PROVE  /\ B(s, EntryAt(p, i)) = q[i].type /\ Word(s, EntryAt(p, i) + 1, 5) = q[i].pid
              /\ Word(s, EntryAt(p, i) + 3, 4) = q[i].es
  <2> DEFINE o == EntryAt(p, i)
             e == parts[i]
             pid == q[i].pid
             es == q[i].es
  <2>1. IsPmtEntry(e, q[i]) /\ lengths[i] = 5 + es /\ pid \in Nat /\ pid < 8192 /\ es \in Nat /\ es < 4096
    BY <1>2, <1>6
  <2>2. o = m + Ends(lengths)[i - 1]
    BY <1>3 DEF EntryAt, info, lengths
  <2>3. o \in Nat
    <3>1. i - 1 \in 0..n
      BY <1>6
    <3>2. Ends(lengths)[i - 1] \in Nat
      <4>1. Ends(lengths) \in [0..n -> Nat]
        BY <1>1, EndsFacts
      <4>2. QED
        BY <3>1, <4>1
    <3>3. m \in Nat
      BY <1>3
    <3> HIDE DEF o
    <3>4. QED
      BY <2>2, <3>2, <3>3
  <2>4. \A j \in 1..lengths[i] : o + j <= Len(s) => B(s, o + j - 1) = e[j]
    BY <1>1, <1>10, <2>2 DEF IsEntries
  <2>5. o + 5 <= Len(s)
    BY <1>14
  <2> HIDE DEF o, e, pid, es
  <2>6. /\ B(s, o) = e[1] /\ B(s, o + 1) = e[2] /\ B(s, (o + 1) + 1) = e[3]
        /\ B(s, o + 3) = e[4] /\ B(s, (o + 3) + 1) = e[5]
    <3>1. /\ 1 \in 1..lengths[i] /\ 2 \in 1..lengths[i] /\ 3 \in 1..lengths[i]
          /\ 4 \in 1..lengths[i] /\ 5 \in 1..lengths[i]
          /\ o + 1 <= Len(s) /\ o + 2 <= Len(s) /\ o + 3 <= Len(s) /\ o + 4 <= Len(s)
          /\ o + 1 - 1 = o /\ o + 2 - 1 = o + 1 /\ o + 3 - 1 = (o + 1) + 1
          /\ o + 4 - 1 = o + 3 /\ o + 5 - 1 = (o + 3) + 1
      BY <1>12, <2>1, <2>3, <2>5
    <3>2. QED
      BY <2>4, <2>5, <3>1
  <2>7. /\ e[1] = q[i].type /\ e[2] = 224 + pid \div 256 /\ e[3] = pid % 256
        /\ e[4] = 240 + es \div 256 /\ e[5] = es % 256
    BY <2>1 DEF IsPmtEntry, pid, es
  <2>8. Word(s, o + 1, 5) = pid
    <3>1. o + 1 \in Nat
      BY <2>3
    <3>2. QED
      BY <2>1, <2>6, <2>7, <3>1, WordRead
  <2>9. Word(s, o + 3, 4) = es
    <3>1. o + 3 \in Nat
      BY <2>3
    <3>2. QED
      BY <2>1, <2>6, <2>7, <3>1, WordRead
  <2>10. QED
    BY <2>6, <2>7, <2>8, <2>9 DEF o, pid, es
<1>15. IsPmt(s, p)
  BY <1>11, <1>13, <1>14 DEF IsPmt, n, q, all, info
<1>16. QED
  BY <1>9, <1>15 DEF s, bytes

\* The recursion over the entries of a PMT, ...
FromBody(s, f, o) ==
  IF o + 5 > SectionEnd(s) \/ o + 5 > Len(s) THEN <<>>
  ELSE <<[type |-> B(s, o), pid |-> Word(s, o + 1, 5)]>> \o f[o + 5 + Word(s, o + 3, 4)]

\* ... goes on in the section, ...
LEMMA WordNat ==
  ASSUME NEW s \in Seq(Nat), NEW o \in Nat, o + 2 <= Len(s)
  PROVE  Word(s, o, 4) \in Nat
<1>1. o + 1 \in 1..Len(s) /\ (o + 1) + 1 \in 1..Len(s)
  OBVIOUS
<1>2. B(s, o) \in Nat /\ B(s, o + 1) \in Nat
  BY <1>1 DEF B
<1>3. \A b, c \in Nat : Bits(b, 0, 4) * 256 + c \in Nat
  BY DEF Bits
<1>4. QED
  BY <1>2, <1>3 DEF Word

\* ... so that there is a function that solves it.
FromSolves(s, f, m) == \A o \in Nat : o + m > Len(s) => f[o] = FromBody(s, f, o)
LEMMA FromSolvable ==
  ASSUME NEW s \in Seq(Nat)
  PROVE  \E f : f = [o \in Nat |-> FromBody(s, f, o)]
<1> DEFINE Bad == {m \in Nat : ~\E f : FromSolves(s, f, m)}
<1>1. Len(s) \in Nat
  OBVIOUS
<1>2. Bad = {}
  <2>1. SUFFICES ASSUME Bad # {} PROVE FALSE
    OBVIOUS
  <2>2. Bad \subseteq Nat
    OBVIOUS
  <2>3. PICK m \in Bad : \A k \in Bad : m <= k
    BY <2>1, <2>2, LeastNat
  <2>4. m \in Nat /\ ~\E f : FromSolves(s, f, m)
    BY <2>3
  <2>5. CASE m = 0
    <3> DEFINE f == [o \in Nat |-> <<>>]
    <3>1. \A o \in Nat : o + m > Len(s) => o + 5 > Len(s)
      BY <1>1, <2>5
    <3>2. FromSolves(s, f, m)
      BY <3>1 DEF FromSolves, FromBody
    <3>3. QED
      BY <2>4, <3>2
  <2>6. CASE m # 0
    <3>1. m - 1 \in Nat /\ ~(m <= m - 1)
      BY <2>4, <2>6
    <3>2. m - 1 \notin Bad
      BY <2>3, <3>1
    <3>3. PICK f : FromSolves(s, f, m - 1)
      BY <3>1, <3>2
    <3> DEFINE g == [o \in Nat |-> IF o + m > Len(s) THEN FromBody(s, f, o) ELSE <<>>]
    <3>4. \A o \in Nat : g[o] = IF o + m > Len(s) THEN FromBody(s, f, o) ELSE <<>>
      OBVIOUS
    <3> HIDE DEF g, Bad
    <3>5. ASSUME NEW o \in Nat, o + m > Len(s) PROVE g[o] = FromBody(s, g, o)
      <4>1. g[o] = FromBody(s, f, o)
        BY <3>4, <3>5
      <4>2. CASE o + 5 > SectionEnd(s) \/ o + 5 > Len(s)
        BY <4>1, <4>2 DEF FromBody
      <4>3. CASE ~(o + 5 > SectionEnd(s) \/ o + 5 > Len(s))
        <5> DEFINE next == o + 5 + Word(s, o + 3, 4)
        <5>1. o + 3 \in Nat /\ (o + 3) + 2 <= Len(s)
          BY <1>1, <4>3
        <5>2. Word(s, o + 3, 4) \in Nat
          BY <5>1, WordNat
        <5>3. next \in Nat /\ next + (m - 1) > Len(s) /\ next + m > Len(s)
          BY <1>1, <2>4, <3>5, <5>2
        <5> HIDE DEF next
        <5>4. f[next] = FromBody(s, f, next)
          BY <3>3, <5>3 DEF FromSolves
        <5>5. g[next] = f[next]
          BY <3>4, <5>3, <5>4
        <5>6. FromBody(s, f, o) = FromBody(s, g, o)
          BY <4>3, <5>5 DEF FromBody, next
        <5>7. QED
          BY <4>1, <5>6
      <4>4. QED
        BY <4>2, <4>3
    <3>6. FromSolves(s, g, m)
      BY <3>5 DEF FromSolves
    <3>7. QED
      BY <2>4, <3>6
  <2>7. QED
    BY <2>5, <2>6
<1>3. PICK m \in Nat : m = Len(s) + 1
  BY <1>1
<1>4. PICK f : FromSolves(s, f, m)
  BY <1>2
<1> DEFINE g == [o \in Nat |-> f[o]]
<1>5. \A o \in Nat : f[o] = FromBody(s, f, o)
  <2> TAKE o \in Nat
  <2>1. o + m > Len(s)
    BY <1>1, <1>3
  <2>2. QED
    BY <1>4, <2>1 DEF FromSolves
<1>6. \A o \in Nat : FromBody(s, f, o) = FromBody(s, g, o)
  <2> TAKE o \in Nat
  <2>1. CASE o + 5 > SectionEnd(s) \/ o + 5 > Len(s)
    BY <2>1 DEF FromBody
  <2>2. CASE ~(o + 5 > SectionEnd(s) \/ o + 5 > Len(s))
    <3>1. o + 3 \in Nat /\ (o + 3) + 2 <= Len(s)
      BY <1>1, <2>2
    <3>2. Word(s, o + 3, 4) \in Nat
      BY <3>1, WordNat
    <3>3. o + 5 + Word(s, o + 3, 4) \in Nat
      BY <3>2
    <3>4. f[o + 5 + Word(s, o + 3, 4)] = g[o + 5 + Word(s, o + 3, 4)]
      BY <3>3
    <3> HIDE DEF g
    <3>5. QED
      BY <2>2, <3>4 DEF FromBody
  <2>3. QED
    BY <2>1, <2>2
<1>7. g = [o \in Nat |-> FromBody(s, g, o)]
  BY <1>5, <1>6
<1>8. QED
  BY <1>7

\* The streams of a PMT are what it gives for the first entry.
LEMMA StreamsFrom ==
  ASSUME NEW p, NEW s \in Seq(Nat), s = Section(p)
  PROVE  \E f : /\ \A o \in Nat : f[o] = FromBody(s, f, o)
                /\ Streams(p) = IF Len(p) < 12 \/ Len(s) < 12 \/ B(s, 0) # 2 THEN <<>>
                                ELSE f[12 + Word(s, 10, 4)]
<1> DEFINE Read == CHOOSE f : f = [o \in Nat |-> FromBody(s, f, o)]
<1>1. Read = [o \in Nat |-> FromBody(s, Read, o)]
  BY FromSolvable
<1>2. Streams(p) = IF Len(p) < 12 \/ Len(s) < 12 \/ B(s, 0) # 2 THEN <<>>
                   ELSE Read[12 + Word(s, 10, 4)]
  BY DEF Streams, FromBody
<1> HIDE DEF Read
<1>3. \A o \in Nat : Read[o] = FromBody(s, Read, o)
  BY <1>1
<1>4. QED
  BY <1>2, <1>3

\* The entries of a PMT begin one after the other, up to the CRC.
LEMMA BeginFacts ==
  ASSUME NEW p \in PMTs
  PROVE  LET n == Len(p.streams) IN
         /\ n \in Nat /\ EntryAt(p, 1) = 12 + p.info /\ EntryAt(p, n + 1) = PmtSection(p) - 1
         /\ \A i \in 1..n + 1 : EntryAt(p, i) \in Nat /\ EntryAt(p, i) >= 12
         /\ \A i \in 1..n : EntryAt(p, i + 1) = EntryAt(p, i) + 5 + p.streams[i].es
         /\ \A i, j \in 1..n + 1 : i <= j => EntryAt(p, i) <= EntryAt(p, j)
         /\ \A i \in 1..n : EntryAt(p, i) + 5 <= EntryAt(p, n + 1)
<1> DEFINE n == Len(p.streams)
           e == Ends(PmtLengths(p))
           info == p.info
           b == [i \in 1..n + 1 |-> EntryAt(p, i)]
           es == [i \in 1..n |-> p.streams[i].es]
<1>1. /\ info \in Nat /\ PmtLengths(p) \in Seq(Nat) /\ Len(PmtLengths(p)) = n
      /\ PmtSection(p) = 13 + info + All(PmtLengths(p)) /\ p.streams \in Seq(StreamKinds)
  BY PmtWritten
<1>2. \A i \in 1..n : PmtLengths(p)[i] = 5 + es[i]
  BY PmtWritten
<1>3. n \in Nat /\ \A i \in 1..n : es[i] \in Nat
  <2>1. n \in Nat /\ \A i \in 1..n : p.streams[i] \in StreamKinds
    BY <1>1
  <2>2. QED
    BY <2>1, FieldsBounded
<1>4. /\ e \in [0..n -> Nat] /\ e[0] = 0
      /\ \A i \in 1..n : e[i] = e[i - 1] + PmtLengths(p)[i]
  BY <1>1, EndsFacts
<1>5. \A i, j \in 0..n : i <= j => e[i] <= e[j]
  BY <1>1, EndsGrow
<1>6. e[n] = All(PmtLengths(p))
  BY <1>1 DEF All
<1>7. \A i \in 1..n + 1 : b[i] = 12 + info + e[i - 1] /\ b[i] = EntryAt(p, i)
  BY DEF EntryAt
<1> HIDE DEF n, e, info, b, es
<1>8. \A i \in 1..n + 1 : b[i] \in Nat /\ b[i] >= 12
  <2> TAKE i \in 1..n + 1
  <2>1. i - 1 \in 0..n
    BY <1>3
  <2>2. e[i - 1] \in Nat
    BY <1>4, <2>1
  <2>3. QED
    BY <1>1, <1>7, <2>2
<1>9. \A i \in 1..n : b[i + 1] = b[i] + 5 + es[i]
  <2> TAKE i \in 1..n
  <2>1. i \in 1..n + 1 /\ i + 1 \in 1..n + 1 /\ (i + 1) - 1 = i /\ i - 1 \in 0..n
    BY <1>3
  <2>2. e[i] = e[i - 1] + (5 + es[i]) /\ e[i - 1] \in Nat /\ es[i] \in Nat
    BY <1>2, <1>3, <1>4, <2>1
  <2>3. b[i] = 12 + info + e[i - 1] /\ b[i + 1] = 12 + info + e[i]
    BY <1>7, <2>1
  <2>4. PICK x, w \in Nat : x = e[i - 1] /\ w = es[i]
    BY <2>2
  <2>5. b[i] = 12 + info + x /\ b[i + 1] = 12 + info + (x + (5 + w))
    BY <2>2, <2>3, <2>4
  <2>6. b[i + 1] = b[i] + 5 + w
    BY <1>1, <2>5
  <2>7. QED
    BY <2>4, <2>6
<1>10. \A i, j \in 1..n + 1 : i <= j => b[i] <= b[j]
  <2> SUFFICES ASSUME NEW i \in 1..n + 1, NEW j \in 1..n + 1, i <= j PROVE b[i] <= b[j]
    OBVIOUS
  <2>1. i - 1 \in 0..n /\ j - 1 \in 0..n /\ i - 1 <= j - 1
    BY <1>3
  <2>2. e[i - 1] <= e[j - 1] /\ e[i - 1] \in Nat /\ e[j - 1] \in Nat
    BY <1>4, <1>5, <2>1
  <2>3. QED
    BY <1>1, <1>7, <2>2
<1>11. \A i \in 1..n : b[i] + 5 <= b[n + 1]
  <2> TAKE i \in 1..n
  <2>1. i \in 1..n + 1 /\ i + 1 \in 1..n + 1 /\ n + 1 \in 1..n + 1 /\ i + 1 <= n + 1
    BY <1>3
  <2>2. b[i + 1] <= b[n + 1] /\ b[i + 1] = b[i] + 5 + es[i]
    BY <1>9, <1>10, <2>1
  <2>3. b[i] \in Nat /\ b[n + 1] \in Nat /\ es[i] \in Nat
    BY <1>3, <1>8, <2>1
  <2>4. QED
    BY <2>2, <2>3
<1>12. b[1] = 12 + info /\ b[n + 1] = PmtSection(p) - 1
  <2>1. 1 \in 1..n + 1 /\ n + 1 \in 1..n + 1 /\ 1 - 1 = 0 /\ (n + 1) - 1 = n /\ n \in 0..n
    BY <1>3
  <2>2. b[1] = 12 + info + e[0] /\ b[n + 1] = 12 + info + e[n] /\ e[n] \in Nat
    BY <1>4, <1>7, <2>1
  <2>3. QED
    BY <1>1, <1>4, <1>6, <2>2
<1>13. \A i \in 1..n : i \in 1..n + 1 /\ i + 1 \in 1..n + 1
  BY <1>3
<1>14. 1 \in 1..n + 1 /\ n + 1 \in 1..n + 1
  BY <1>3
<1>15. /\ EntryAt(p, 1) = 12 + info /\ EntryAt(p, n + 1) = PmtSection(p) - 1
       /\ \A i \in 1..n + 1 : EntryAt(p, i) \in Nat /\ EntryAt(p, i) >= 12
       /\ \A i \in 1..n : EntryAt(p, i + 1) = EntryAt(p, i) + 5 + es[i]
       /\ \A i, j \in 1..n + 1 : i <= j => EntryAt(p, i) <= EntryAt(p, j)
       /\ \A i \in 1..n : EntryAt(p, i) + 5 <= EntryAt(p, n + 1)
  BY <1>7, <1>8, <1>9, <1>10, <1>11, <1>12, <1>13, <1>14
<1>16. QED
  BY <1>3, <1>15 DEF n, info, es

\* The streams that are read are those that begin in the packet, in their order.
IsStreams(r, p, m) ==
  /\ DOMAIN r = 1..m
  /\ \A i \in 1..m : r[i].type = p.streams[i].type /\ r[i].pid = p.streams[i].pid
LEMMA StreamsRead ==
  ASSUME NEW p \in PMTs
  PROVE  \E m \in 0..Len(p.streams) :
           /\ \A i \in 1..Len(p.streams) : EntryAt(p, i) + 5 <= Room(p) <=> i <= m
           /\ IsStreams(Streams(Rest(PmtBytes(p), 4)), p, m)
<1> DEFINE q == p.streams
           n == Len(q)
           payload == Rest(PmtBytes(p), 4)
           s == Section(payload)
           In(i) == EntryAt(p, i) + 5 <= Room(p)
<1>1. IsPmt(s, p) /\ Len(payload) = PacketLength - 4
  BY PmtFields DEF IsTable
<1>2. s \in Seq(Nat) /\ Len(s) = IF 0 < Room(p) THEN Room(p) ELSE 0
  BY <1>1 DEF IsPmt
<1>3. q \in Seq(StreamKinds) /\ p.pointer \in Nat /\ p.info \in Nat
  BY PmtWritten
<1>4. Room(p) \in Int /\ Len(payload) \in Nat /\ ~(Len(payload) < 12) /\ Len(s) \in Nat
  BY <1>1, <1>2, <1>3, PacketLengthNat DEF Room
<1>5. n \in Nat /\ \A i \in 1..n : q[i].type \in Nat /\ q[i].pid \in Nat /\ q[i].es \in Nat
  <2>1. n \in Nat /\ \A i \in 1..n : q[i] \in StreamKinds
    BY <1>3
  <2>2. QED
    BY <2>1, FieldsBounded
<1>6. /\ EntryAt(p, 1) = 12 + p.info /\ EntryAt(p, n + 1) = PmtSection(p) - 1
      /\ \A i \in 1..n + 1 : EntryAt(p, i) \in Nat /\ EntryAt(p, i) >= 12
      /\ \A i \in 1..n : EntryAt(p, i + 1) = EntryAt(p, i) + 5 + q[i].es
      /\ \A i, j \in 1..n + 1 : i <= j => EntryAt(p, i) <= EntryAt(p, j)
      /\ \A i \in 1..n : EntryAt(p, i) + 5 <= EntryAt(p, n + 1)
  BY BeginFacts
<1>7. \A i \in 1..n : In(i) <=> EntryAt(p, i) + 5 <= Len(s)
  <2> TAKE i \in 1..n
  <2>1. i \in 1..n + 1
    BY <1>5
  <2>2. EntryAt(p, i) \in Nat
    BY <1>6, <2>1
  <2>3. QED
    BY <1>2, <1>4, <2>2
<1> HIDE DEF q, n, payload, s
\* The entries in the packet are the first m.
<1>8. PICK m \in 0..n : \A i \in 1..n : In(i) <=> i <= m
  <2> DEFINE Out == {i \in 1..n + 1 : i <= n => ~In(i)}
  <2>1. n + 1 \in Out /\ Out \subseteq Nat
    BY <1>5
  <2>2. PICK k \in Out : \A i \in Out : k <= i
    BY <2>1, LeastNat
  <2>3. k \in 1..n + 1 /\ (k <= n => ~In(k))
    OBVIOUS
  <2>4. PICK m \in 0..n : m = k - 1
    BY <1>5, <2>3
  <2>5. ASSUME NEW i \in 1..n PROVE In(i) <=> i <= m
    <3>1. i \in Nat /\ i \in 1..n + 1 /\ k \in Nat /\ n \in Nat
      BY <1>5, <2>3
    <3>2. CASE i < k
      <4>1. ~(k <= i) /\ i <= m
        BY <2>4, <3>1, <3>2
      <4>2. i \notin Out
        BY <2>2, <4>1
      <4>3. QED
        BY <3>1, <4>1, <4>2
    <3>3. CASE ~(i < k)
      <4>1. k <= i /\ k <= n /\ ~(i <= m)
        BY <2>4, <3>1, <3>3
      <4>2. EntryAt(p, k) <= EntryAt(p, i) /\ EntryAt(p, k) \in Nat /\ EntryAt(p, i) \in Nat
        BY <1>6, <2>3, <3>1, <4>1
      <4>3. ~In(i)
        BY <1>4, <2>3, <4>1, <4>2
      <4>4. QED
        BY <4>1, <4>3
    <3>4. QED
      BY <3>2, <3>3
  <2> HIDE DEF Out, In
  <2>6. QED
    BY <2>5
<1>9. PICK f : /\ \A o \in Nat : f[o] = FromBody(s, f, o)
               /\ Streams(payload) = IF Len(payload) < 12 \/ Len(s) < 12 \/ B(s, 0) # 2 THEN <<>>
                                     ELSE f[12 + Word(s, 10, 4)]
  BY <1>2, StreamsFrom DEF s
<1>10. CASE Len(s) < 12
  <2>1. Streams(payload) = <<>>
    BY <1>9, <1>10
  <2>2. m = 0
    <3>1. SUFFICES ASSUME m # 0 PROVE FALSE
      OBVIOUS
    <3>2. 1 \in 1..n /\ 1 <= m /\ 1 \in 1..n + 1
      BY <1>5, <3>1
    <3>3. EntryAt(p, 1) + 5 <= Len(s) /\ EntryAt(p, 1) \in Nat /\ EntryAt(p, 1) >= 12
      BY <1>6, <1>7, <1>8, <3>2
    <3>4. QED
      BY <1>4, <1>10, <3>3
  <2>3. IsStreams(<<>>, p, 0)
    BY DEF IsStreams
  <2>4. QED
    BY <1>8, <2>1, <2>2, <2>3 DEF payload, n, q
<1>11. CASE ~(Len(s) < 12)
  <2>1. B(s, 0) = 2 /\ Word(s, 1, 4) = PmtSection(p) /\ Word(s, 10, 4) = p.info
    BY <1>1, <1>4, <1>11 DEF IsPmt
  <2>2. Streams(payload) = f[EntryAt(p, 1)]
    BY <1>4, <1>6, <1>9, <1>11, <2>1
  <2>3. SectionEnd(s) = EntryAt(p, n + 1) /\ EntryAt(p, n + 1) \in Nat
    <3>1. n + 1 \in 1..n + 1
      BY <1>5
    <3>2. EntryAt(p, n + 1) \in Nat
      BY <1>6, <3>1
    <3>3. SectionEnd(s) = 3 + PmtSection(p) - 4
      BY <2>1 DEF SectionEnd
    <3>4. PmtSection(p) \in Nat
      BY PmtWritten DEF IsTableHead
    <3>5. QED
      BY <1>6, <3>2, <3>3, <3>4
  <2> DEFINE T == [type: Nat, pid: Nat]
             r == [i \in 1..n |-> [type |-> q[i].type, pid |-> q[i].pid]]
             Read(i) == /\ f[EntryAt(p, i)] \in Seq(T) /\ Len(f[EntryAt(p, i)]) = m - i + 1
                        /\ \A k \in 1..m - i + 1 : f[EntryAt(p, i)][k] = r[i + k - 1]
  \* After the last of them, none is read, ...
  <2>4. Read(m + 1)
    <3>1. m + 1 \in 1..n + 1 /\ m - (m + 1) + 1 = 0 /\ m \in Nat
      BY <1>5
    <3>2. PICK o \in Nat : o = EntryAt(p, m + 1)
      BY <1>6, <3>1
    <3>3. o + 5 > SectionEnd(s) \/ o + 5 > Len(s)
      <4>1. CASE m = n
        BY <2>3, <3>2, <4>1
      <4>2. CASE m # n
        <5>1. m + 1 \in 1..n /\ ~(m + 1 <= m)
          BY <1>5, <4>2
        <5>2. ~(o + 5 <= Len(s))
          BY <1>7, <1>8, <3>2, <5>1
        <5>3. QED
          BY <1>4, <5>2
      <4>3. QED
        BY <4>1, <4>2
    <3>4. f[o] = <<>>
      BY <1>9, <3>3 DEF FromBody
    <3>5. QED
      BY <3>1, <3>2, <3>4
  \* ... and each comes before the rest.
  <2>5. ASSUME NEW i \in 1..m, Read(i + 1) PROVE Read(i)
    <3> DEFINE o == EntryAt(p, i)
               rest == f[EntryAt(p, i + 1)]
               l == m - i
    <3>1. i \in 1..n /\ i <= m /\ l \in Nat /\ m - (i + 1) + 1 = l /\ m - i + 1 = l + 1 /\ i \in 1..n + 1
      BY <1>5
    <3>2. /\ o \in Nat /\ o + 5 <= Len(s) /\ o + 5 <= SectionEnd(s)
      BY <1>6, <1>7, <1>8, <2>3, <3>1
    <3>3. B(s, o) = q[i].type /\ Word(s, o + 1, 5) = q[i].pid /\ Word(s, o + 3, 4) = q[i].es
      BY <1>1, <3>1, <3>2 DEF IsPmt, q, n
    <3>4. EntryAt(p, i + 1) = o + 5 + q[i].es
      BY <1>6, <3>1
    <3>5. f[o] = <<r[i]>> \o rest
      <4>1. f[o] = <<[type |-> B(s, o), pid |-> Word(s, o + 1, 5)]>> \o f[o + 5 + Word(s, o + 3, 4)]
        <5>1. ~(o + 5 > SectionEnd(s) \/ o + 5 > Len(s))
          BY <1>4, <2>3, <3>2
        <5>2. f[o] = FromBody(s, f, o)
          BY <1>9, <3>2
        <5> HIDE DEF o
        <5>3. QED
          BY <5>1, <5>2 DEF FromBody
      <4>2. r[i] = [type |-> B(s, o), pid |-> Word(s, o + 1, 5)]
        BY <3>1, <3>3
      <4> HIDE DEF o, r
      <4>3. QED
        BY <3>3, <3>4, <4>1, <4>2
    <3>6. /\ rest \in Seq(T) /\ Len(rest) = l
          /\ \A k \in 1..l : rest[k] = r[(i + 1) + k - 1]
      BY <2>5, <3>1
    <3>7. r[i] \in T
      BY <1>5, <3>1
    <3> DEFINE one == <<r[i]>>
    <3>8. one \in Seq(T) /\ Len(one) = 1 /\ one[1] = r[i]
      BY <3>7
    <3> HIDE DEF one, rest, r, T
    <3>9. /\ one \o rest \in Seq(T) /\ Len(one \o rest) = Len(one) + Len(rest)
          /\ \A k \in 1..Len(one) + Len(rest) :
               (one \o rest)[k] = IF k <= Len(one) THEN one[k] ELSE rest[k - Len(one)]
      BY <3>6, <3>8, ConcatProperties
    <3> DEFINE all == one \o rest
    <3> HIDE DEF all, l
    <3>10. /\ all \in Seq(T) /\ Len(all) = l + 1
           /\ \A k \in 1..l + 1 : all[k] = IF k <= 1 THEN one[k] ELSE rest[k - 1]
      BY <3>1, <3>6, <3>8, <3>9 DEF all
    <3>11. ASSUME NEW k \in 1..l + 1 PROVE all[k] = r[i + k - 1]
      <4>1. CASE k = 1
        <5>1. i + k - 1 = i /\ k <= 1
          BY <3>1, <4>1
        <5>2. QED
          BY <3>8, <3>10, <4>1, <5>1
      <4>2. CASE k # 1
        <5>1. PICK j \in 1..l : j = k - 1
          BY <3>1, <4>2
        <5>2. (i + 1) + j - 1 = i + k - 1 /\ ~(k <= 1)
          BY <3>1, <4>2, <5>1
        <5>3. all[k] = rest[j]
          BY <3>10, <5>1, <5>2
        <5>4. rest[j] = r[(i + 1) + j - 1]
          BY <3>6
        <5>5. QED
          BY <5>2, <5>3, <5>4
      <4>3. QED
        BY <4>1, <4>2
    <3>12. f[o] = all
      BY <3>5 DEF all, one
    <3>13. QED
      BY <3>1, <3>10, <3>11, <3>12
  <2> HIDE DEF Read
  <2> DEFINE Bad == {k \in Nat : k <= m /\ ~Read(m + 1 - k)}
  <2>6. Bad = {}
    <3>1. SUFFICES ASSUME Bad # {} PROVE FALSE
      OBVIOUS
    <3>2. Bad \subseteq Nat
      OBVIOUS
    <3>3. PICK k \in Bad : \A j \in Bad : k <= j
      BY <3>1, <3>2, LeastNat
    <3>4. k \in Nat /\ k <= m /\ ~Read(m + 1 - k) /\ m \in Nat
      BY <1>5, <3>3
    <3>5. k # 0
      BY <2>4, <3>4
    <3>6. k - 1 \in Nat /\ k - 1 <= m /\ ~(k <= k - 1)
      BY <3>4, <3>5
    <3>7. Read(m + 1 - (k - 1))
      BY <3>3, <3>6
    <3>8. PICK i \in 1..m : i = m + 1 - k /\ i + 1 = m + 1 - (k - 1)
      BY <3>4, <3>5
    <3>9. QED
      BY <2>5, <3>4, <3>7, <3>8
  <2>7. Read(1)
    <3>1. m \in Nat /\ m <= m /\ m + 1 - m = 1
      BY <1>5
    <3>2. m \notin Bad
      BY <2>6
    <3>3. QED
      BY <3>1, <3>2
  <2>8. IsStreams(f[EntryAt(p, 1)], p, m)
    <3> DEFINE R == f[EntryAt(p, 1)]
    <3>1. /\ R \in Seq(T) /\ Len(R) = m - 1 + 1
          /\ \A k \in 1..m - 1 + 1 : R[k] = r[1 + k - 1]
      BY <2>7 DEF Read
    <3>2. m - 1 + 1 = m /\ \A k \in 1..m : 1 + k - 1 = k /\ k \in 1..n
      BY <1>5
    <3> HIDE DEF R, T
    <3>3. DOMAIN R = 1..m /\ \A k \in 1..m : R[k] = r[k]
      <4>1. Len(R) = m
        BY <3>1, <3>2
      <4>2. DOMAIN R = 1..Len(R)
        BY <3>1
      <4>3. \A k \in 1..m : R[k] = r[k]
        <5> TAKE k \in 1..m
        <5>1. k \in 1..m - 1 + 1 /\ 1 + k - 1 = k
          BY <3>2
        <5>2. R[k] = r[1 + k - 1]
          BY <3>1, <5>1
        <5>3. QED
          BY <5>1, <5>2
      <4>4. QED
        BY <4>1, <4>2, <4>3
    <3>4. \A k \in 1..m : r[k].type = q[k].type /\ r[k].pid = q[k].pid
      BY <3>2
    <3>5. QED
      BY <3>3, <3>4 DEF IsStreams, R, q
  <2>9. QED
    BY <1>8, <2>2, <2>8 DEF payload, n, q
<1>12. QED
  BY <1>10, <1>11

\* The streams of some types of a PMT whose entries are in the packet; of them, the
\* PID of the first is found.
PmtIn(p, types) == {i \in DOMAIN p.streams :
                      /\ p.streams[i].type \in types
                      /\ 12 + p.info + Ends(PmtLengths(p))[i - 1] + 5 <= Room(p)}
LEMMA PmtFound ==
  ASSUME NEW p \in PMTs, NEW types
  PROVE  FirstPID(Streams(Rest(PmtBytes(p), 4)), types) =
           IF PmtIn(p, types) = {} THEN 0 ELSE p.streams[Min(PmtIn(p, types))].pid
<1> DEFINE q == p.streams
           n == Len(q)
           r == Streams(Rest(PmtBytes(p), 4))
           In == PmtIn(p, types)
           Those == {i \in DOMAIN r : r[i].type \in types /\ r[i].pid # 0}
<1>1. PICK m \in 0..n : /\ \A i \in 1..n : EntryAt(p, i) + 5 <= Room(p) <=> i <= m
                        /\ IsStreams(r, p, m)
  BY StreamsRead
<1>2. n \in Nat /\ DOMAIN q = 1..n /\ \A i \in 1..n : q[i].pid # 0
  <2>1. q \in Seq(StreamKinds)
    BY PmtWritten
  <2>2. n \in Nat /\ DOMAIN q = 1..n /\ \A i \in 1..n : q[i] \in StreamKinds
    BY <2>1
  <2>3. QED
    BY <2>2, FieldsBounded
<1>3. DOMAIN r = 1..m /\ \A i \in 1..m : r[i].type = q[i].type /\ r[i].pid = q[i].pid
  BY <1>1 DEF IsStreams
<1>4. In = {i \in 1..n : q[i].type \in types /\ EntryAt(p, i) + 5 <= Room(p)}
  BY <1>2 DEF PmtIn, EntryAt
<1> HIDE DEF q, n, r, In
<1>5. \A i : i \in 1..m <=> i \in 1..n /\ i <= m
  BY <1>2
<1>6. Those = In
  <2>1. \A i : i \in Those <=> i \in 1..n /\ i <= m /\ q[i].type \in types
    <3> TAKE i
    <3>1. i \in Those <=> i \in 1..m /\ r[i].type \in types /\ r[i].pid # 0
      BY <1>3
    <3>2. i \in 1..m => r[i].type = q[i].type /\ r[i].pid # 0
      BY <1>2, <1>3, <1>5
    <3> HIDE DEF Those
    <3>3. QED
      BY <1>5, <3>1, <3>2
  <2>2. \A i : i \in In <=> i \in 1..n /\ i <= m /\ q[i].type \in types
    BY <1>1, <1>4
  <2> HIDE DEF Those
  <2>3. QED
    BY <2>1, <2>2, Zenon
<1>7. FirstPID(r, types) = IF Those = {} THEN 0 ELSE r[Min(Those)].pid
  BY DEF FirstPID
<1>8. In # {} => r[Min(In)].pid = q[Min(In)].pid
  <2>1. SUFFICES ASSUME In # {} PROVE r[Min(In)].pid = q[Min(In)].pid
    OBVIOUS
  <2>2. In \subseteq Nat
    BY <1>2, <1>4
  <2>3. Min(In) \in In
    BY <2>1, <2>2, MinNat
  <2>4. Min(In) \in 1..m
    BY <1>1, <1>4, <1>5, <2>3
  <2>5. QED
    BY <1>3, <2>4
<1> HIDE DEF Those
<1>9. QED
  BY <1>6, <1>7, <1>8 DEF r, q, In

-----------------------------------------------------------------------------
\* What is written of the NAL units of a PES packet.
Unit(n) == Byte(0, n.code - 1) \o <<1, n.header>> \o Byte(136, n.body)
NalParts(p) == [i \in DOMAIN p.nals |-> Unit(p.nals[i])]
IsUnit(b, n) ==
  /\ b \in Seq(Nat) /\ Len(b) = n.code + 1 + n.body
  /\ \A j \in 1..n.code - 1 : b[j] = 0
  /\ b[n.code] = 1 /\ b[n.code + 1] = n.header
  /\ \A j \in n.code + 2..n.code + 1 + n.body : b[j] = 136
LEMMA UnitWritten ==
  ASSUME NEW n, n.code \in {3, 4}, n.header \in Nat, n.body \in Nat
  PROVE  IsUnit(Unit(n), n)
<1> DEFINE c == n.code - 1
           zeros == Byte(0, c)
           mid == <<1, n.header>>
           body == Byte(136, n.body)
           a == zeros \o mid
           b == a \o body
<1>1. c \in Nat /\ n.code = c + 1 /\ 0 \in Nat /\ 136 \in Nat
  OBVIOUS
<1>2. IsFilled(zeros, 0, c) /\ IsFilled(body, 136, n.body)
  BY <1>1, ByteFacts
<1>3. mid \in Seq(Nat) /\ Len(mid) = 2 /\ mid[1] = 1 /\ mid[2] = n.header
  OBVIOUS
<1>4. Unit(n) = b
  BY DEF Unit
<1> HIDE DEF c, zeros, mid, body
<1>5. /\ zeros \in Seq(Nat) /\ Len(zeros) = c /\ \A k \in 1..c : zeros[k] = 0
      /\ body \in Seq(Nat) /\ Len(body) = n.body /\ \A k \in 1..n.body : body[k] = 136
  BY <1>2 DEF IsFilled
<1>6. a \in Seq(Nat) /\ IsJoined(a, zeros, Len(zeros), mid, Len(mid))
  <2>1. zeros \in Seq(Nat) /\ mid \in Seq(Nat)
    BY <1>3, <1>5
  <2>2. QED
    BY <2>1, Joins
<1> HIDE DEF a
<1>7. b \in Seq(Nat) /\ IsJoined(b, a, Len(a), body, Len(body))
  BY <1>5, <1>6, Joins
<1> HIDE DEF b
<1>8. /\ Len(a) = c + 2 /\ \A k \in 1..c : a[k] = 0
      /\ a[c + 1] = 1 /\ a[c + 2] = n.header
  <2>1. /\ Len(a) = c + Len(mid) /\ \A k \in 1..c : a[k] = zeros[k]
        /\ \A k \in 1..Len(mid) : a[c + k] = mid[k]
    BY <1>5, <1>6 DEF IsJoined
  <2>2. 1 \in 1..Len(mid) /\ 2 \in 1..Len(mid)
    BY <1>3
  <2>3. a[c + 1] = mid[1] /\ a[c + 2] = mid[2]
    BY <2>1, <2>2
  <2>4. QED
    BY <1>3, <1>5, <2>1, <2>3
<1>9. PICK l \in Nat : l = Len(a) /\ l = c + 2
  BY <1>1, <1>8
<1>10. /\ Len(b) = l + n.body /\ \A k \in 1..l : b[k] = a[k]
       /\ \A k \in 1..n.body : b[l + k] = 136
  <2>1. /\ Len(b) = Len(a) + Len(body) /\ \A k \in 1..Len(a) : b[k] = a[k]
        /\ \A k \in 1..Len(body) : b[Len(a) + k] = body[k]
    BY <1>7 DEF IsJoined
  <2>2. Len(a) = l /\ Len(body) = n.body
    BY <1>5, <1>9
  <2>3. \A k \in 1..n.body : b[l + k] = body[k]
    BY <2>1, <2>2
  <2>4. \A k \in 1..n.body : b[l + k] = 136
    <3> TAKE k \in 1..n.body
    <3>1. b[l + k] = body[k] /\ body[k] = 136
      BY <1>5, <2>3
    <3>2. QED
      BY <3>1
  <2>5. QED
    BY <2>1, <2>2, <2>4
<1>11. \A j \in 1..n.code - 1 : b[j] = 0
  BY <1>1, <1>8, <1>9, <1>10
<1>12. b[n.code] = 1 /\ b[n.code + 1] = n.header
  <2>1. c + 1 \in 1..l /\ c + 2 \in 1..l /\ n.code + 1 = c + 2
    BY <1>1, <1>9
  <2>2. b[c + 1] = a[c + 1] /\ b[c + 2] = a[c + 2]
    BY <1>10, <2>1
  <2>3. QED
    BY <1>1, <1>8, <2>1, <2>2
<1>13. ASSUME NEW j \in n.code + 2..n.code + 1 + n.body PROVE b[j] = 136
  <2>1. PICK k \in 1..n.body : j = l + k
    <3>1. n.code + 2 = l + 1 /\ n.code + 1 + n.body = l + n.body
      BY <1>1, <1>9
    <3>2. j - l \in 1..n.body /\ j = l + (j - l)
      BY <1>9, <3>1
    <3>3. QED
      BY <3>2
  <2>2. QED
    BY <1>10, <2>1
<1>14. Len(b) = n.code + 1 + n.body
  BY <1>1, <1>9, <1>10
<1>15. QED
  BY <1>4, <1>7, <1>11, <1>12, <1>13, <1>14 DEF IsUnit

\* What a PES packet carries.
LEMMA PesFacts ==
  ASSUME NEW p \in PESs
  PROVE  /\ p.pid \in VideoPIDs /\ p.starts \in BOOLEAN /\ p.codec \in Codecs /\ p.hdr \in PesHeaders
         /\ p.kind = "pes" /\ p.nals \in Seq(Units(p.codec))
<1> DEFINE R(c) == [kind: {"pes"}, pid: VideoPIDs, starts: BOOLEAN, codec: {c}, hdr: PesHeaders,
                    nals: NalLists(c)]
<1>1. PICK c \in Codecs : p \in R(c)
  <2>1. PESs = UNION {R(c) : c \in Codecs}
    BY DEF PESs
  <2> HIDE DEF R
  <2>2. QED
    BY <2>1
<1>2. /\ p.pid \in VideoPIDs /\ p.starts \in BOOLEAN /\ p.codec = c /\ p.hdr \in PesHeaders
      /\ p.kind = "pes" /\ p.nals \in NalLists(c)
  BY <1>1
<1>3. PICK n \in FirstNals[c], rest \in SeqOf(Nals[c], MaxNals) : p.nals = <<n>> \o rest
  BY <1>2 DEF NalLists
<1>4. MaxNals \in Nat /\ FirstNals[c] \subseteq Units(c) /\ Nals[c] \subseteq Units(c)
  BY MultiplexerAssumption DEF MultiplexerAssumption
<1> DEFINE U == Units(c)
<1>5. rest \in Seq(U) /\ n \in U
  <2>1. rest \in Seq(Nals[c])
    BY <1>4, OfSeqOf
  <2>2. QED
    BY <1>4, <2>1
<1> HIDE DEF U
<1>6. <<n>> \in Seq(U)
  BY <1>5
<1>7. <<n>> \o rest \in Seq(U)
  BY <1>5, <1>6, ConcatProperties
<1>8. QED
  BY <1>2, <1>3, <1>7 DEF U

\* Whatever is in a list of entries is in one of them.
LEMMA Located ==
  ASSUME NEW lengths \in Seq(Nat), NEW k \in 1..All(lengths)
  PROVE  \E i \in 1..Len(lengths) : \E j \in 1..lengths[i] : k = Ends(lengths)[i - 1] + j
<1> DEFINE n == Len(lengths)
           e == Ends(lengths)
           T == {i \in Nat : i <= n /\ k <= e[i]}
<1>1. n \in Nat /\ \A i \in 1..n : lengths[i] \in Nat
  OBVIOUS
<1>2. /\ e \in [0..n -> Nat] /\ e[0] = 0
      /\ \A i \in 1..n : e[i] = e[i - 1] + lengths[i]
  BY EndsFacts
<1>3. All(lengths) = e[n]
  BY DEF All
<1> HIDE DEF n, e
<1>4. k \in Nat /\ k >= 1 /\ k <= e[n] /\ n \in T
  <2>1. n \in 0..n
    BY <1>1
  <2>2. e[n] \in Nat
    BY <1>2, <2>1
  <2>3. QED
    BY <1>1, <1>3, <2>2
<1>5. PICK i \in T : \A m \in T : i <= m
  BY <1>4, LeastNat
<1>6. i \in 0..n /\ i # 0
  <2>1. i \in Nat /\ i <= n /\ k <= e[i]
    BY <1>5
  <2>2. QED
    BY <1>1, <1>2, <1>4, <2>1
<1>7. i \in 1..n /\ i - 1 \in 0..n /\ i - 1 \in Nat /\ i - 1 <= n /\ ~(i <= i - 1)
  BY <1>1, <1>6
<1>8. ~(k <= e[i - 1]) /\ k <= e[i]
  BY <1>5, <1>7
<1>9. PICK a, b \in Nat : a = e[i - 1] /\ b = lengths[i]
  BY <1>1, <1>2, <1>7
<1>10. e[i] = a + b
  BY <1>2, <1>7, <1>9
<1>11. PICK j \in 1..b : k = a + j
  <2>1. ~(k <= a) /\ k <= a + b
    BY <1>8, <1>9, <1>10
  <2>2. k - a \in 1..b /\ k = a + (k - a)
    BY <1>4, <1>9, <2>1
  <2>3. QED
    BY <2>2
<1>12. QED
  BY <1>7, <1>9, <1>11 DEF n, e

\* The NAL units of a packet, one after the other.
LEMMA NalsWritten ==
  ASSUME NEW p \in PESs
  PROVE  /\ Len(p.nals) \in Nat /\ NalLengths(p) \in Seq(Nat) /\ Len(NalLengths(p)) = Len(p.nals)
         /\ IsList(FlattenSeq(NalParts(p)), NalParts(p), NalLengths(p))
         /\ \A i \in 1..Len(p.nals) :
              /\ p.nals[i].code \in {3, 4} /\ p.nals[i].body \in Nat \ {0}
              /\ p.nals[i].header \in Key[p.codec] \cup Mistaken[p.codec] \cup Other[p.codec]
              /\ NalLengths(p)[i] = p.nals[i].code + 1 + p.nals[i].body
              /\ IsUnit(NalParts(p)[i], p.nals[i])
<1> DEFINE q == p.nals
           n == Len(q)
           c == p.codec
           U == Units(c)
           parts == NalParts(p)
           lengths == NalLengths(p)
<1>1. q \in Seq(U) /\ c \in Codecs
  BY PesFacts
<1>2. n \in Nat /\ DOMAIN q = 1..n /\ \A i \in 1..n : q[i] \in U
  <2> HIDE DEF U
  <2>1. QED
    BY <1>1
<1>3. \A i \in 1..n : /\ q[i].code \in {3, 4} /\ q[i].body \in Nat \ {0}
                      /\ q[i].header \in Key[c] \cup Mistaken[c] \cup Other[c]
  BY <1>2 DEF Units
<1>4. \A h \in Key[c] \cup Mistaken[c] \cup Other[c] : h \in Nat
  <2>1. c = "h264" \/ c = "h265"
    BY <1>1 DEF Codecs
  <2>2. CASE c = "h264"
    BY <2>2 DEF Key, Mistaken, Other
  <2>3. CASE c = "h265"
    BY <2>3 DEF Key, Mistaken, Other
  <2>4. QED
    BY <2>1, <2>2, <2>3
<1>5. lengths = [i \in 1..n |-> q[i].code + 1 + q[i].body]
  BY <1>2 DEF NalLengths
<1>6. parts = [i \in 1..n |-> Unit(q[i])]
  BY <1>2 DEF NalParts
<1> HIDE DEF q, n, c, U, parts, lengths
<1>7. /\ lengths \in Seq(Nat) /\ Len(lengths) = n
      /\ \A i \in 1..n : lengths[i] = q[i].code + 1 + q[i].body
  <2>1. \A i \in 1..n : q[i].code + 1 + q[i].body \in Nat
    BY <1>3
  <2>2. lengths \in [1..n -> Nat] /\ \A i \in 1..n : lengths[i] = q[i].code + 1 + q[i].body
    BY <1>5, <2>1
  <2>3. QED
    BY <1>2, <2>2
<1>8. \A i \in 1..n : IsUnit(parts[i], q[i])
  <2> TAKE i \in 1..n
  <2>1. q[i].code \in {3, 4} /\ q[i].header \in Nat /\ q[i].body \in Nat
    BY <1>3, <1>4
  <2>2. IsUnit(Unit(q[i]), q[i])
    BY <2>1, UnitWritten
  <2>3. QED
    BY <1>6, <2>2
<1>9. parts \in Seq(Seq(Nat)) /\ Len(parts) = n
  <2> DEFINE T == Seq(Nat)
  <2>1. \A i \in 1..n : Unit(q[i]) \in T
    BY <1>6, <1>8 DEF IsUnit
  <2> HIDE DEF T
  <2>2. parts \in [1..n -> T]
    BY <1>6, <2>1
  <2>3. parts \in Seq(T) /\ Len(parts) = n
    BY <1>2, <2>2
  <2>4. QED
    BY <2>3 DEF T
<1>10. IsList(FlattenSeq(parts), parts, lengths)
  <2>1. Len(parts) = Len(lengths) /\ \A i \in 1..Len(lengths) : Len(parts[i]) = lengths[i]
    <3>1. \A i \in 1..n : Len(parts[i]) = q[i].code + 1 + q[i].body
      BY <1>8 DEF IsUnit
    <3>2. QED
      BY <1>7, <1>9, <3>1
  <2>2. QED
    BY <1>7, <1>9, <2>1, ListFacts
<1>11. QED
  BY <1>2, <1>3, <1>7, <1>8, <1>10 DEF q, n, c, parts, lengths

\* The header of a NAL unit reads as that of a keyframe or not.
LEMMA KeyRead ==
  ASSUME NEW c \in Codecs, NEW h \in Key[c] \cup Mistaken[c] \cup Other[c]
  PROVE  NalKey(h) <=> h \in Key[c] \cup Mistaken[c]
<1>1. CASE c = "h264"
  <2>1. CASE h \in Key[c] \cup Mistaken[c]
    BY <1>1, <2>1 DEF Key, Mistaken, NalKey, Bits
  <2>2. CASE h \in Other[c]
    BY <1>1, <2>2 DEF Key, Mistaken, Other, NalKey, Bits
  <2>3. QED
    BY <2>1, <2>2
<1>2. CASE c = "h265"
  <2>1. CASE h \in Key[c] \cup Mistaken[c]
    BY <1>2, <2>1 DEF Key, Mistaken, NalKey, Bits
  <2>2. CASE h \in Other[c]
    BY <1>2, <2>2 DEF Key, Mistaken, Other, NalKey, Bits
  <2>3. QED
    BY <2>1, <2>2
<1>3. QED
  BY <1>1, <1>2 DEF Codecs

\* The bytes of a unit in a stream that is cut after size bytes: those of its start
\* code, its header and its body, after the first a.
Zeros(x, size, a, code) == \A j \in 1..code - 1 : a + j <= size => x[a + j] = 0
Marker(x, size, a, code) == a + code <= size => x[a + code] = 1
Filler(x, size, a, code, body) ==
  \A j \in code + 2..code + 1 + body : a + j <= size => x[a + j] = 136
StartsAt(x, size, h) ==
  /\ x[h - 2] = 0 /\ x[h - 1] = 0 /\ x[h] = 1
  /\ h - 3 < size - 4 \/ (h > 3 /\ x[h - 3] = 0)

\* A start code is read where one is written: ...
LEMMA StartRead ==
  ASSUME NEW x, NEW size \in Nat, NEW a \in Nat, NEW code \in {3, 4},
         Zeros(x, size, a, code), Marker(x, size, a, code),
         NEW h \in Nat, h = a + code, h < size, code = 3 => h < size - 1
  PROVE  3 <= h /\ StartsAt(x, size, h)
<1>1. x[h] = 1
  BY DEF Marker
<1>2. \A j \in Nat : 1 <= j /\ j <= code - 1 => x[a + j] = 0
  BY DEF Zeros
<1>3. CASE code = 3
  <2>1. x[a + 1] = 0 /\ x[a + 2] = 0
    BY <1>2, <1>3
  <2>2. a + 1 = h - 2 /\ a + 2 = h - 1 /\ h - 3 < size - 4 /\ 3 <= h
    BY <1>3
  <2>3. QED
    BY <1>1, <2>1, <2>2 DEF StartsAt
<1>4. CASE code = 4
  <2>1. x[a + 1] = 0 /\ x[a + 2] = 0 /\ x[a + 3] = 0
    BY <1>2, <1>4
  <2>2. a + 1 = h - 3 /\ a + 2 = h - 2 /\ a + 3 = h - 1 /\ h > 3
    BY <1>4
  <2>3. QED
    BY <1>1, <2>1, <2>2 DEF StartsAt
<1>5. QED
  BY <1>3, <1>4

\* ... and nowhere else in a unit, ...
LEMMA StartIs ==
  ASSUME NEW x, NEW size \in Nat, NEW a \in Nat, NEW code \in {3, 4}, NEW body \in Nat,
         Zeros(x, size, a, code), Marker(x, size, a, code), Filler(x, size, a, code, body),
         NEW j \in 1..code + 1 + body, NEW h \in Nat, h = a + j, h < size, StartsAt(x, size, h)
  PROVE  j = code
<1>1. x[h] = 1 /\ x[h - 1] = 0
  BY DEF StartsAt
<1>2. ~(j < code)
  <2>1. SUFFICES ASSUME j < code PROVE FALSE
    OBVIOUS
  <2>2. j \in 1..code - 1 /\ a + j <= size
    BY <2>1
  <2>3. x[a + j] = 0
    BY <2>2 DEF Zeros
  <2>4. QED
    BY <1>1, <2>3
<1>3. j # code + 1
  <2>1. SUFFICES ASSUME j = code + 1 PROVE FALSE
    OBVIOUS
  <2>2. a + code <= size /\ a + code = h - 1
    BY <2>1
  <2>3. x[h - 1] = 1
    BY <2>2 DEF Marker
  <2>4. QED
    BY <1>1, <2>3
<1>4. ~(j > code + 1)
  <2>1. SUFFICES ASSUME j > code + 1 PROVE FALSE
    OBVIOUS
  <2>2. j \in code + 2..code + 1 + body /\ a + j <= size
    BY <2>1
  <2>3. x[a + j] = 136
    BY <2>2 DEF Filler
  <2>4. QED
    BY <1>1, <2>3
<1>5. QED
  BY <1>2, <1>3, <1>4

\* ... and a short one is not read at the very end: what is before it is the end of a
\* unit, whose last byte is no zero.
LEMMA ShortStartIs ==
  ASSUME NEW x, NEW size \in Nat, NEW a \in Nat, NEW h \in Nat, h = a + 3, h < size,
         StartsAt(x, size, h), a # 0 => x[a] = 136
  PROVE  h < size - 1
<1>1. SUFFICES ASSUME ~(h < size - 1) PROVE FALSE
  OBVIOUS
<1>2. ~(h - 3 < size - 4)
  BY <1>1
<1>3. h > 3 /\ x[h - 3] = 0
  BY <1>2 DEF StartsAt
<1>4. h - 3 = a /\ a # 0
  BY <1>3
<1>5. QED
  BY <1>3, <1>4

\* As much of the units of a packet as there is room for.
IsEs(x, p) ==
  /\ x \in Seq(Nat) /\ Len(x) <= All(NalLengths(p))
  /\ \A k \in 1..Len(x) : x[k] = FlattenSeq(NalParts(p))[k]
IsUnitAt(x, size, a, code, header, body) ==
  /\ Zeros(x, size, a, code) /\ Marker(x, size, a, code) /\ Filler(x, size, a, code, body)
  /\ a + code < size => x[a + code + 1] = header
LEMMA UnitAt ==
  ASSUME NEW p \in PESs, NEW x, IsEs(x, p), NEW i \in 1..Len(p.nals)
  PROVE  /\ Ends(NalLengths(p))[i - 1] \in Nat
         /\ IsUnitAt(x, Len(x), Ends(NalLengths(p))[i - 1],
                     p.nals[i].code, p.nals[i].header, p.nals[i].body)
<1> DEFINE q == p.nals
           n == Len(q)
           lengths == NalLengths(p)
           e == Ends(lengths)
           a == e[i - 1]
           code == q[i].code
           header == q[i].header
           body == q[i].body
           b == NalParts(p)[i]
           flat == FlattenSeq(NalParts(p))
           size == Len(x)
<1>1. /\ n \in Nat /\ lengths \in Seq(Nat) /\ Len(lengths) = n /\ IsList(flat, NalParts(p), lengths)
      /\ code \in {3, 4} /\ body \in Nat \ {0} /\ lengths[i] = code + 1 + body /\ IsUnit(b, q[i])
  BY NalsWritten
<1>2. e \in [0..n -> Nat] /\ e[i] = e[i - 1] + lengths[i] /\ e[i] <= e[n] /\ All(lengths) = e[n]
  <2>1. i \in 0..n /\ n \in 0..n /\ i <= n /\ i \in 1..n
    BY <1>1
  <2>2. Len(lengths) = n
    BY <1>1
  <2>3. e \in [0..n -> Nat] /\ \A k \in 1..n : e[k] = e[k - 1] + lengths[k]
    BY <1>1, EndsFacts
  <2>4. e[i] <= e[n]
    BY <1>1, <2>1, <2>2, EndsGrow
  <2>5. QED
    BY <2>1, <2>2, <2>3, <2>4 DEF All
<1>3. a \in Nat /\ e[i] \in Nat /\ e[n] \in Nat
  <2>1. i - 1 \in 0..n /\ i \in 0..n /\ n \in 0..n
    BY <1>1
  <2>2. QED
    BY <1>2, <2>1
<1>4. size \in Nat /\ size <= e[n] /\ \A k \in 1..size : x[k] = flat[k]
  BY <1>2 DEF IsEs
<1>5. \A j \in 1..lengths[i] : flat[a + j] = b[j]
  BY <1>1 DEF IsList
<1>6. /\ \A j \in 1..code - 1 : b[j] = 0
      /\ b[code] = 1 /\ b[code + 1] = header
      /\ \A j \in code + 2..code + 1 + body : b[j] = 136
  BY <1>1 DEF IsUnit
<1> HIDE DEF q, n, lengths, e, a, code, header, body, b, flat, size
<1>7. \A j \in Nat : 1 <= j /\ j <= code + 1 + body /\ a + j <= size => x[a + j] = b[j]
  <2> TAKE j \in Nat
  <2> HAVE 1 <= j /\ j <= code + 1 + body /\ a + j <= size
  <2>1. j \in 1..lengths[i]
    BY <1>1
  <2>2. PICK k \in Nat : k = a + j
    BY <1>3
  <2>3. k \in 1..size
    BY <1>3, <1>4, <2>2
  <2>4. x[k] = flat[k]
    BY <1>4, <2>3
  <2>5. flat[a + j] = b[j]
    BY <1>5, <2>1
  <2>6. QED
    BY <2>2, <2>4, <2>5
<1>8. Zeros(x, size, a, code)
  <2>1. ASSUME NEW j \in 1..code - 1, a + j <= size PROVE x[a + j] = 0
    <3>1. j \in Nat /\ 1 <= j /\ j <= code + 1 + body
      BY <1>1
    <3>2. QED
      BY <1>6, <1>7, <2>1, <3>1
  <2>2. QED
    BY <2>1 DEF Zeros
<1>9. Marker(x, size, a, code)
  <2>1. code \in Nat /\ 1 <= code /\ code <= code + 1 + body
    BY <1>1
  <2>2. QED
    BY <1>6, <1>7, <2>1 DEF Marker
<1>10. Filler(x, size, a, code, body)
  <2>1. ASSUME NEW j \in code + 2..code + 1 + body, a + j <= size PROVE x[a + j] = 136
    <3>1. j \in Nat /\ 1 <= j /\ j <= code + 1 + body
      BY <1>1
    <3>2. QED
      BY <1>6, <1>7, <2>1, <3>1
  <2>2. QED
    BY <2>1 DEF Filler
<1>11. ASSUME a + code < size PROVE x[a + code + 1] = header
  <2>1. PICK j \in Nat : j = code + 1
    BY <1>1
  <2>2. 1 <= j /\ j <= code + 1 + body /\ a + j <= size /\ a + j = a + code + 1
    BY <1>1, <1>3, <1>4, <1>11, <2>1
  <2>3. x[a + j] = b[j]
    BY <1>7, <2>2
  <2>4. QED
    BY <1>6, <2>1, <2>2, <2>3
<1>12. IsUnitAt(x, size, a, code, header, body)
  BY <1>8, <1>9, <1>10, <1>11 DEF IsUnitAt
<1>13. QED
  BY <1>3, <1>12 DEF q, e, lengths, a, code, header, body, size

\* The headers that are found in it.
HeaderAt(p, i) == Ends(NalLengths(p))[i - 1] + p.nals[i].code
IsRead(p, i, size) ==
  HeaderAt(p, i) < size /\ (p.nals[i].code = 3 => HeaderAt(p, i) < size - 1)
LEMMA HeaderFound ==
  ASSUME NEW p \in PESs, NEW x, IsEs(x, p), NEW i \in 1..Len(p.nals), IsRead(p, i, Len(x))
  PROVE  HeaderAt(p, i) \in NalStarts(x) /\ B(x, HeaderAt(p, i)) = p.nals[i].header
<1> DEFINE a == Ends(NalLengths(p))[i - 1]
           code == p.nals[i].code
           header == p.nals[i].header
           body == p.nals[i].body
           size == Len(x)
           h == HeaderAt(p, i)
<1>1. code \in {3, 4} /\ body \in Nat
  BY NalsWritten
<1>2. a \in Nat /\ IsUnitAt(x, size, a, code, header, body)
  BY UnitAt
<1>3. size \in Nat
  BY DEF IsEs
<1>4. h = a + code /\ h < size /\ (code = 3 => h < size - 1)
  BY DEF IsRead, HeaderAt
<1> HIDE DEF a, code, header, body, size, h
<1>5. h \in Nat
  BY <1>1, <1>2, <1>4
<1>6. 3 <= h /\ StartsAt(x, size, h)
  <2>1. Zeros(x, size, a, code) /\ Marker(x, size, a, code)
    BY <1>2 DEF IsUnitAt
  <2>2. QED
    BY <1>1, <1>2, <1>3, <1>4, <1>5, <2>1, StartRead
<1>7. h \in NalStarts(x)
  <2>1. h \in 3..size - 1
    BY <1>3, <1>4, <1>5, <1>6
  <2>2. /\ B(x, h - 3) = x[h - 2] /\ B(x, h - 2) = x[h - 1] /\ B(x, h - 1) = x[h]
        /\ B(x, h - 4) = x[h - 3]
    BY <1>5 DEF B
  <2>3. QED
    BY <1>6, <2>1, <2>2 DEF StartsAt, NalStarts, size
<1>8. B(x, h) = header
  <2>1. x[a + code + 1] = header
    BY <1>2, <1>4 DEF IsUnitAt
  <2>2. QED
    BY <1>4, <2>1 DEF B
<1>9. QED
  BY <1>7, <1>8 DEF h, header

\* No others are found ...
LEMMA FoundHeader ==
  ASSUME NEW p \in PESs, NEW x, IsEs(x, p), NEW h \in NalStarts(x)
  PROVE  \E i \in 1..Len(p.nals) : h = HeaderAt(p, i) /\ IsRead(p, i, Len(x))
<1> DEFINE lengths == NalLengths(p)
           n == Len(p.nals)
           e == Ends(lengths)
           size == Len(x)
<1>1. n \in Nat /\ lengths \in Seq(Nat) /\ Len(lengths) = n
  BY NalsWritten
<1>2. size \in Nat /\ size <= All(lengths) /\ All(lengths) \in Nat
  <2>1. All(lengths) \in Nat
    BY NalsWritten DEF IsList
  <2>2. QED
    BY <2>1 DEF IsEs
<1>3. h \in Nat /\ 3 <= h /\ h < size /\ StartsAt(x, size, h)
  <2>1. /\ h \in 3..size - 1
        /\ B(x, h - 3) = 0 /\ B(x, h - 2) = 0 /\ B(x, h - 1) = 1
        /\ h - 3 < size - 4 \/ (h > 3 /\ B(x, h - 4) = 0)
    BY DEF NalStarts
  <2>2. h \in Nat /\ 3 <= h /\ h < size
    BY <1>2, <2>1
  <2>3. /\ B(x, h - 3) = x[h - 2] /\ B(x, h - 2) = x[h - 1] /\ B(x, h - 1) = x[h]
        /\ B(x, h - 4) = x[h - 3]
    BY <2>2 DEF B
  <2>4. QED
    BY <2>1, <2>2, <2>3 DEF StartsAt
<1>4. PICK i \in 1..n : \E j \in 1..lengths[i] : h = e[i - 1] + j
  <2>1. h \in 1..All(lengths)
    BY <1>2, <1>3
  <2>2. \E i \in 1..Len(lengths) : \E j \in 1..lengths[i] : h = e[i - 1] + j
    BY <1>1, <2>1, Located
  <2>3. QED
    BY <1>1, <2>2
<1>5. PICK j \in 1..lengths[i] : h = e[i - 1] + j
  BY <1>4
<1> DEFINE a == e[i - 1]
           code == p.nals[i].code
           header == p.nals[i].header
           body == p.nals[i].body
<1>6. code \in {3, 4} /\ body \in Nat /\ lengths[i] = code + 1 + body
  BY NalsWritten
<1>7. a \in Nat /\ IsUnitAt(x, size, a, code, header, body)
  BY UnitAt
<1>8. \A k \in 1..n : IsUnitAt(x, size, e[k - 1], p.nals[k].code, p.nals[k].header, p.nals[k].body)
  BY UnitAt
<1>9. /\ e \in [0..n -> Nat] /\ e[0] = 0
      /\ \A k \in 1..n : e[k] = e[k - 1] + lengths[k]
  BY <1>1, EndsFacts
<1> HIDE DEF n, lengths, e, size
<1>10. j = code
  <2>1. j \in 1..code + 1 + body /\ h = a + j
    BY <1>5, <1>6
  <2>2. Zeros(x, size, a, code) /\ Marker(x, size, a, code) /\ Filler(x, size, a, code, body)
    BY <1>7 DEF IsUnitAt
  <2> HIDE DEF a, code, header, body
  <2>3. QED
    BY <1>2, <1>3, <1>6, <1>7, <2>1, <2>2, StartIs
<1>11. a # 0 => x[a] = 136
  <2>1. SUFFICES ASSUME a # 0 PROVE x[a] = 136
    OBVIOUS
  <2>2. PICK k \in 1..n : k = i - 1
    <3>1. i # 1
      <4>1. SUFFICES ASSUME i = 1 PROVE FALSE
        OBVIOUS
      <4>2. i - 1 = 0
        BY <4>1
      <4>3. QED
        BY <1>9, <2>1, <4>2
    <3>2. i - 1 \in 1..n
      BY <1>1, <3>1
    <3>3. QED
      BY <3>2
  <2> DEFINE a0 == e[k - 1]
             c0 == p.nals[k].code
             b0 == p.nals[k].body
  <2>3. c0 \in {3, 4} /\ b0 \in Nat \ {0} /\ lengths[k] = c0 + 1 + b0
    BY NalsWritten DEF lengths, n
  <2>4. a0 \in Nat /\ Filler(x, size, a0, c0, b0)
    <3>1. k - 1 \in 0..n
      BY <1>1
    <3>2. IsUnitAt(x, size, a0, c0, p.nals[k].header, b0)
      BY <1>8
    <3>3. QED
      BY <1>9, <3>1, <3>2 DEF IsUnitAt
  <2>5. a = a0 + lengths[k]
    BY <1>9, <2>2
  <2>6. a <= size
    <3>1. h = a + j /\ j \in Nat
      BY <1>5, <1>6, <1>10
    <3> HIDE DEF a
    <3>2. QED
      BY <1>2, <1>3, <1>7, <3>1
  <2> HIDE DEF a, a0, c0, b0
  <2>7. c0 + 1 + b0 \in c0 + 2..c0 + 1 + b0 /\ a0 + (c0 + 1 + b0) <= size /\ a = a0 + (c0 + 1 + b0)
    BY <2>3, <2>4, <2>5, <2>6
  <2>8. QED
    BY <2>4, <2>7 DEF Filler
<1>12. ASSUME code = 3 PROVE h < size - 1
  <2>1. h = a + 3
    BY <1>5, <1>10, <1>12
  <2> HIDE DEF a
  <2>2. QED
    BY <1>2, <1>3, <1>7, <1>11, <2>1, ShortStartIs
<1>13. h = HeaderAt(p, i)
  BY <1>5, <1>10 DEF HeaderAt, e, lengths
<1>14. IsRead(p, i, size)
  BY <1>3, <1>12, <1>13 DEF IsRead
<1>15. QED
  BY <1>13, <1>14 DEF n, size

\* ... and a keyframe is what has a header that reads as one.
LEMMA KeyframeRead ==
  ASSUME NEW p \in PESs, NEW x, IsEs(x, p)
  PROVE  IsKeyframe(x) <=> \E i \in 1..Len(p.nals) :
           p.nals[i].header \in Key[p.codec] \cup Mistaken[p.codec] /\ IsRead(p, i, Len(x))
<1> DEFINE n == Len(p.nals)
           size == Len(x)
           K == Key[p.codec] \cup Mistaken[p.codec]
<1>1. \A i \in 1..n : NalKey(p.nals[i].header) <=> p.nals[i].header \in K
  <2> TAKE i \in 1..n
  <2>1. p.nals[i].header \in Key[p.codec] \cup Mistaken[p.codec] \cup Other[p.codec] /\ p.codec \in Codecs
    BY NalsWritten, PesFacts
  <2>2. QED
    BY <2>1, KeyRead
<1> HIDE DEF n, size, K
<1>2. ASSUME IsKeyframe(x) PROVE \E i \in 1..n : p.nals[i].header \in K /\ IsRead(p, i, size)
  <2>1. PICK h \in NalStarts(x) : NalKey(B(x, h))
    BY <1>2 DEF IsKeyframe
  <2>2. PICK i \in 1..n : h = HeaderAt(p, i) /\ IsRead(p, i, size)
    BY FoundHeader DEF n, size
  <2>3. B(x, h) = p.nals[i].header
    BY <2>2, HeaderFound DEF n, size
  <2>4. QED
    BY <1>1, <2>1, <2>2, <2>3
<1>3. ASSUME NEW i \in 1..n, p.nals[i].header \in K, IsRead(p, i, size) PROVE IsKeyframe(x)
  <2>1. HeaderAt(p, i) \in NalStarts(x) /\ B(x, HeaderAt(p, i)) = p.nals[i].header
    BY <1>3, HeaderFound DEF n, size
  <2>2. NalKey(p.nals[i].header)
    BY <1>1, <1>3
  <2>3. QED
    BY <2>1, <2>2 DEF IsKeyframe
<1>4. QED
  BY <1>2, <1>3 DEF n, size, K

\* What a PES packet is made of.
PesPacket(pid, starts, payload) ==
  LET free == PacketLength - 4 - Len(payload)
      field == IF free > 0 THEN <<free - 1>> \o Byte(255, free - 1) ELSE <<>>
  IN Cut((Header(pid, starts, free > 0) \o field) \o payload, PacketLength)

\* The header, ...
LEMMA HeaderWritten ==
  ASSUME NEW pid \in Nat, NEW starts \in BOOLEAN, NEW adapted \in BOOLEAN
  PROVE  /\ Header(pid, starts, adapted) \in Seq(Nat) /\ Len(Header(pid, starts, adapted)) = 4
         /\ IsHeader(Header(pid, starts, adapted), pid, IF starts THEN 64 ELSE 0,
                     IF adapted THEN 48 ELSE 16)
<1>1. ASSUME NEW marks \in {0, 64}, NEW field \in {16, 48}
      PROVE  LET h == <<71>> \o Two(pid, marks) \o <<field>> IN
             h \in Seq(Nat) /\ Len(h) = 4 /\ IsHeader(h, pid, marks, field)
  BY DEF Two, IsHeader
<1> DEFINE marks == IF starts THEN 64 ELSE 0
           field == IF adapted THEN 48 ELSE 16
<1>2. marks \in {0, 64} /\ field \in {16, 48}
  OBVIOUS
<1>3. Header(pid, starts, adapted) = <<71>> \o Two(pid, marks) \o <<field>>
  BY DEF Header
<1> HIDE DEF marks, field
<1>4. LET h == <<71>> \o Two(pid, marks) \o <<field>> IN
        h \in Seq(Nat) /\ Len(h) = 4 /\ IsHeader(h, pid, marks, field)
  BY <1>1, <1>2
<1>5. QED
  BY <1>3, <1>4 DEF marks, field

\* ... the adaptation field, ...
Field(free) == IF free > 0 THEN <<free - 1>> \o Byte(255, free - 1) ELSE <<>>
IsField(f, n) == f \in Seq(Nat) /\ Len(f) = n /\ (n > 0 => f[1] = n - 1)
LEMMA FieldWritten ==
  ASSUME NEW free \in Int
  PROVE  /\ free > 0 => IsField(Field(free), free)
         /\ ~(free > 0) => IsField(Field(free), 0)
<1>1. ASSUME ~(free > 0) PROVE IsField(Field(free), 0)
  BY <1>1 DEF IsField, Field
<1>2. ASSUME free > 0 PROVE IsField(Field(free), free)
  <2> DEFINE m == free - 1
             one == <<m>>
             fill == Byte(255, m)
             f == one \o fill
  <2>1. m \in Nat /\ free = 1 + m /\ 255 \in Nat
    BY <1>2
  <2>2. one \in Seq(Nat) /\ Len(one) = 1 /\ one[1] = m
    BY <2>1
  <2>3. IsFilled(fill, 255, m)
    BY <2>1, ByteFacts
  <2>4. fill \in Seq(Nat) /\ Len(fill) = m
    BY <2>3 DEF IsFilled
  <2> HIDE DEF m, one, fill
  <2>5. f \in Seq(Nat) /\ IsJoined(f, one, Len(one), fill, Len(fill))
    <3>1. one \in Seq(Nat) /\ fill \in Seq(Nat)
      BY <2>2, <2>4
    <3>2. QED
      BY <3>1, Joins
  <2> HIDE DEF f
  <2>6. Len(f) = Len(one) + Len(fill) /\ \A k \in 1..Len(one) : f[k] = one[k]
    BY <2>5 DEF IsJoined
  <2>7. 1 \in 1..Len(one) /\ Len(one) + Len(fill) = free
    BY <2>1, <2>2, <2>4
  <2>8. f[1] = m
    BY <2>2, <2>6, <2>7
  <2>9. IsField(f, free)
    BY <2>1, <2>5, <2>6, <2>7, <2>8 DEF IsField
  <2>10. f = Field(free)
    BY <1>2 DEF f, one, fill, m, Field
  <2>11. QED
    BY <1>2, <2>9, <2>10
<1>3. QED
  BY <1>1, <1>2

\* ... and as much of the payload as there is room for.
IsPesPacket(p, pid, marks, payload) ==
  \E offset \in Nat : Says(p, pid, marks, offset) /\ IsCut(Rest(p, offset), payload, PacketLength - 4)
LEMMA PesPacketRead ==
  ASSUME NEW pid \in Nat, pid < 8192, NEW starts \in BOOLEAN, NEW payload \in Seq(Nat)
  PROVE  IsPesPacket(PesPacket(pid, starts, payload), pid, IF starts THEN 64 ELSE 0, payload)
<1> DEFINE size == PacketLength
           l == Len(payload)
           free == size - 4 - l
           n == IF free > 0 THEN free ELSE 0
           field == Field(free)
           adapted == free > 0
           marks == IF starts THEN 64 ELSE 0
           mode == IF adapted THEN 48 ELSE 16
           h == Header(pid, starts, adapted)
           front == h \o field
           all == front \o payload
           p == PesPacket(pid, starts, payload)
           lf == 4 + n
<1>1. size \in Nat /\ size >= 20 /\ l \in Nat
  BY PacketLengthNat
<1> HIDE DEF size
<1>2. /\ free \in Int /\ n \in Nat /\ adapted \in BOOLEAN
      /\ marks \in {0, 64} /\ mode \in {16, 48} /\ (mode = 48 <=> n > 0)
      /\ n = 0 => l >= size - 4
      /\ n > 0 => 4 + n + l = size
      /\ lf \in Nat /\ lf = 4 + n
  BY <1>1
<1>3. p = Cut(all, size)
  BY DEF PesPacket, Field, size
<1>4. h \in Seq(Nat) /\ Len(h) = 4 /\ IsHeader(h, pid, marks, mode)
  <2>1. starts \in BOOLEAN /\ adapted \in BOOLEAN
    BY <1>2
  <2> HIDE DEF adapted
  <2>2. QED
    BY <2>1, HeaderWritten
<1>5. field \in Seq(Nat) /\ Len(field) = n /\ (n > 0 => field[1] = n - 1)
  <2>1. free \in Int /\ n = IF free > 0 THEN free ELSE 0
    BY <1>2
  <2>2. (free > 0 => IsField(field, free)) /\ (~(free > 0) => IsField(field, 0))
    BY <2>1, FieldWritten
  <2> HIDE DEF free, n, field
  <2>3. IsField(field, n)
    <3>1. CASE free > 0
      BY <2>1, <2>2, <3>1
    <3>2. CASE ~(free > 0)
      BY <2>1, <2>2, <3>2
    <3>3. QED
      BY <3>1, <3>2
  <2>4. QED
    BY <2>3 DEF IsField
<1> HIDE DEF l, free, n, field, adapted, marks, mode, h, p, lf
<1>6. front \in Seq(Nat) /\ IsJoined(front, h, Len(h), field, Len(field))
  <2>1. h \in Seq(Nat) /\ field \in Seq(Nat)
    BY <1>4, <1>5
  <2>2. QED
    BY <2>1, Joins
<1> HIDE DEF front
<1>7. /\ Len(front) = lf /\ (n > 0 => front[5] = n - 1)
      /\ front[2] = h[2] /\ front[3] = h[3] /\ front[4] = h[4]
  <2>1. /\ Len(front) = Len(h) + Len(field) /\ \A k \in 1..Len(h) : front[k] = h[k]
        /\ \A k \in 1..Len(field) : front[Len(h) + k] = field[k]
    BY <1>6 DEF IsJoined
  <2>2. /\ 2 \in 1..Len(h) /\ 3 \in 1..Len(h) /\ 4 \in 1..Len(h)
        /\ Len(h) + 1 = 5 /\ Len(h) + Len(field) = lf /\ (n > 0 => 1 \in 1..Len(field))
    BY <1>2, <1>4, <1>5
  <2>3. ASSUME n > 0 PROVE front[5] = n - 1
    <3>1. front[Len(h) + 1] = field[1]
      BY <2>1, <2>2, <2>3
    <3>2. QED
      BY <1>5, <2>2, <2>3, <3>1
  <2>4. QED
    BY <2>1, <2>2, <2>3
<1>8. all \in Seq(Nat) /\ Len(all) = lf + l /\ IsJoined(all, front, lf, payload, l)
  <2>1. all \in Seq(Nat) /\ IsJoined(all, front, Len(front), payload, Len(payload))
    <3>1. front \in Seq(Nat) /\ payload \in Seq(Nat)
      BY <1>6
    <3>2. QED
      BY <3>1, Joins
  <2> HIDE DEF all
  <2>2. Len(front) = lf /\ Len(payload) = l
    BY <1>7 DEF l
  <2>3. IsJoined(all, front, lf, payload, l)
    BY <2>1, <2>2
  <2>4. QED
    BY <2>1, <2>3 DEF IsJoined
<1> HIDE DEF all
<1>9. IsCut(p, all, size)
  BY <1>1, <1>3, <1>8, CutFacts
<1>10. p \in Seq(Nat) /\ Len(p) = size /\ \A k \in 1..size : p[k] = all[k]
  <2>1. Len(p) = IF lf + l < size THEN lf + l ELSE size
    BY <1>8, <1>9 DEF IsCut
  <2>2. Len(p) = size
    BY <1>1, <1>2, <2>1
  <2>3. QED
    BY <1>9, <2>2 DEF IsCut
<1>11. lf <= size /\ size - lf = IF l < size - 4 THEN l ELSE size - 4
  <2>1. free = size - 4 - l /\ n = IF free > 0 THEN free ELSE 0
    BY DEF free, n
  <2>2. QED
    BY <1>1, <1>2, <2>1
<1>12. IsHeader(p, pid, marks, mode) /\ (n > 0 => p[5] = n - 1)
  <2>1. \A k \in Nat : 1 <= k /\ k <= lf /\ k <= size => p[k] = front[k]
    <3> TAKE k \in Nat
    <3> HAVE 1 <= k /\ k <= lf /\ k <= size
    <3>1. k \in 1..lf /\ k \in 1..size
      BY <1>1, <1>2
    <3>2. p[k] = all[k] /\ all[k] = front[k]
      BY <1>8, <1>10, <3>1 DEF IsJoined
    <3>3. QED
      BY <3>2
  <2>2. p[2] = h[2] /\ p[3] = h[3] /\ p[4] = h[4]
    <3>1. 2 <= lf /\ 3 <= lf /\ 4 <= lf /\ 2 <= size /\ 3 <= size /\ 4 <= size
      BY <1>1, <1>2
    <3>2. p[2] = front[2] /\ p[3] = front[3] /\ p[4] = front[4]
      BY <2>1, <3>1
    <3>3. QED
      BY <1>7, <3>2
  <2>3. ASSUME n > 0 PROVE p[5] = n - 1
    <3>1. 5 <= lf /\ 5 <= size
      BY <1>1, <1>2, <2>3
    <3>2. p[5] = front[5]
      BY <2>1, <3>1
    <3>3. QED
      BY <1>7, <2>3, <3>2
  <2>4. QED
    BY <1>4, <2>2, <2>3 DEF IsHeader
<1>13. Says(p, pid, marks, lf)
  <2>1. Says(p, pid, marks, 4 + IF mode = 48 THEN 1 + p[5] ELSE 0)
    BY <1>2, <1>12, HeaderRead
  <2>2. (4 + IF mode = 48 THEN 1 + p[5] ELSE 0) = lf
    BY <1>2, <1>12
  <2>3. QED
    BY <2>1, <2>2
<1> DEFINE r == Rest(p, lf)
<1>14. IsRest(r, p, lf)
  BY <1>2, <1>10, RestFacts
<1> HIDE DEF r
<1>15. r \in Seq(Nat) /\ Len(r) = size - lf
  BY <1>1, <1>2, <1>10, <1>11, <1>14 DEF IsRest
<1>16. ASSUME NEW k \in 1..Len(r) PROVE r[k] = payload[k]
  <2>1. PICK i \in Nat : i = lf + k
    BY <1>2, <1>15
  <2>2. i \in 1..size /\ k \in 1..l
    BY <1>1, <1>2, <1>11, <1>15, <2>1
  <2>3. r[k] = p[i]
    BY <1>14, <2>1 DEF IsRest
  <2>4. p[i] = all[i]
    BY <1>10, <2>2
  <2>5. all[i] = payload[k]
    BY <1>8, <2>1, <2>2 DEF IsJoined
  <2>6. QED
    BY <2>3, <2>4, <2>5
<1>17. IsCut(r, payload, size - 4)
  <2>1. Len(r) = IF Len(payload) < size - 4 THEN Len(payload) ELSE size - 4
    BY <1>11, <1>15 DEF l
  <2>2. QED
    BY <1>15, <1>16, <2>1 DEF IsCut
<1>18. IsPesPacket(p, pid, marks, payload)
  BY <1>2, <1>13, <1>17 DEF IsPesPacket, r, size
<1>19. QED
  BY <1>18 DEF p, marks

\* The header of a PES packet, ...
PesHead(hdr) == <<0, 0, 1, 224, 0, 0, 128, 128, hdr>> \o Byte(33, hdr)
IsPesHead(h, hdr) ==
  /\ h \in Seq(Nat) /\ Len(h) = 9 + hdr
  /\ h[1] = 0 /\ h[2] = 0 /\ h[3] = 1 /\ h[9] = hdr
LEMMA PesHeadWritten ==
  ASSUME NEW hdr \in Nat
  PROVE  IsPesHead(PesHead(hdr), hdr)
<1> DEFINE fixed == <<0, 0, 1, 224, 0, 0, 128, 128, hdr>>
           fill == Byte(33, hdr)
           h == fixed \o fill
<1>1. /\ fixed \in Seq(Nat) /\ Len(fixed) = 9
      /\ fixed[1] = 0 /\ fixed[2] = 0 /\ fixed[3] = 1 /\ fixed[9] = hdr
  OBVIOUS
<1>2. IsFilled(fill, 33, hdr)
  <2>1. 33 \in Nat
    OBVIOUS
  <2>2. QED
    BY <2>1, ByteFacts
<1>3. PesHead(hdr) = h
  BY DEF PesHead
<1> HIDE DEF fixed, fill
<1>4. fill \in Seq(Nat) /\ Len(fill) = hdr
  BY <1>2 DEF IsFilled
<1>5. h \in Seq(Nat) /\ IsJoined(h, fixed, Len(fixed), fill, Len(fill))
  <2>1. fixed \in Seq(Nat) /\ fill \in Seq(Nat)
    BY <1>1, <1>4
  <2>2. QED
    BY <2>1, Joins
<1> HIDE DEF h
<1>6. Len(h) = Len(fixed) + Len(fill) /\ \A k \in 1..Len(fixed) : h[k] = fixed[k]
  BY <1>5 DEF IsJoined
<1>7. 1 \in 1..Len(fixed) /\ 2 \in 1..Len(fixed) /\ 3 \in 1..Len(fixed) /\ 9 \in 1..Len(fixed)
  BY <1>1
<1>8. QED
  BY <1>1, <1>3, <1>4, <1>5, <1>6, <1>7 DEF IsPesHead

\* ... and what is found after it, where there is room for it.
IsExtracted(x, es, room) ==
  /\ x \in Seq(Nat)
  /\ Len(x) = IF Len(es) < room THEN Len(es) ELSE IF room > 0 THEN room ELSE 0
  /\ \A k \in 1..Len(x) : x[k] = es[k]
LEMMA Extracted ==
  ASSUME NEW hdr \in Nat, NEW h, IsPesHead(h, hdr), NEW es \in Seq(Nat),
         NEW p, NEW offset \in Nat, IsCut(Rest(p, offset), h \o es, PacketLength - 4)
  PROVE  IsExtracted(ExtractPESPayload(p, offset), es, PacketLength - 4 - 9 - hdr)
<1> DEFINE size == PacketLength - 4
           l == Len(es)
           m == 9 + hdr
           payload == h \o es
           pes == Rest(p, offset)
           x == ExtractPESPayload(p, offset)
           n == Len(pes)
           room == PacketLength - 4 - 9 - hdr
<1>1. size \in Nat /\ size >= 16 /\ l \in Nat /\ m \in Nat /\ m >= 9 /\ room = size - m
  BY PacketLengthNat
<1>2. /\ h \in Seq(Nat) /\ Len(h) = m
      /\ h[1] = 0 /\ h[2] = 0 /\ h[3] = 1 /\ h[9] = hdr
  BY DEF IsPesHead
<1>3. payload \in Seq(Nat) /\ IsJoined(payload, h, m, es, l)
  <2>1. payload \in Seq(Nat) /\ IsJoined(payload, h, Len(h), es, Len(es))
    BY <1>2, Joins
  <2> HIDE DEF payload
  <2>2. QED
    BY <1>2, <2>1
<1>4. IsCut(pes, payload, size)
  OBVIOUS
<1>5. x = IF \/ n < 9 \/ B(pes, 0) # 0 \/ B(pes, 1) # 0 \/ B(pes, 2) # 1
             \/ 9 + B(pes, 8) >= n
          THEN <<>> ELSE Rest(pes, 9 + B(pes, 8))
  BY DEF ExtractPESPayload
<1> HIDE DEF size, l, m, payload, pes, x, n, room
<1>6. /\ Len(payload) = m + l
      /\ \A k \in 1..m : payload[k] = h[k]
      /\ \A k \in 1..l : payload[m + k] = es[k]
  BY <1>3 DEF IsJoined
<1>7. /\ pes \in Seq(Nat) /\ n = IF m + l < size THEN m + l ELSE size
      /\ \A k \in 1..n : pes[k] = payload[k]
  BY <1>4, <1>6 DEF IsCut, n
<1>8. n \in Nat /\ n >= 9
  BY <1>1, <1>7
<1>9. B(pes, 0) = 0 /\ B(pes, 1) = 0 /\ B(pes, 2) = 1 /\ B(pes, 8) = hdr
  <2>1. /\ 1 \in 1..n /\ 2 \in 1..n /\ 3 \in 1..n /\ 9 \in 1..n
        /\ 1 \in 1..m /\ 2 \in 1..m /\ 3 \in 1..m /\ 9 \in 1..m
    BY <1>1, <1>8
  <2>2. pes[1] = h[1] /\ pes[2] = h[2] /\ pes[3] = h[3] /\ pes[9] = h[9]
    BY <1>6, <1>7, <2>1
  <2>3. B(pes, 0) = pes[1] /\ B(pes, 1) = pes[2] /\ B(pes, 2) = pes[3] /\ B(pes, 8) = pes[9]
    BY DEF B
  <2>4. QED
    BY <1>2, <2>2, <2>3
<1>10. x = IF m >= n THEN <<>> ELSE Rest(pes, m)
  BY <1>5, <1>8, <1>9 DEF m
<1>11. n - m = IF l < room THEN l ELSE room
  BY <1>1, <1>7
<1>12. CASE m >= n
  <2>1. x = <<>>
    BY <1>10, <1>12
  <2>2. (IF l < room THEN l ELSE IF room > 0 THEN room ELSE 0) = 0
    BY <1>1, <1>7, <1>11, <1>12
  <2>3. QED
    BY <2>1, <2>2 DEF IsExtracted, l, x, room
<1>13. CASE ~(m >= n)
  <2>1. x = Rest(pes, m)
    BY <1>10, <1>13
  <2>2. IsRest(x, pes, m)
    BY <1>1, <1>7, <2>1, RestFacts
  <2>3. x \in Seq(Nat) /\ Len(x) = n - m
    BY <1>1, <1>8, <1>13, <2>2 DEF IsRest, n
  <2>4. Len(x) = IF l < room THEN l ELSE IF room > 0 THEN room ELSE 0
    BY <1>1, <1>8, <1>11, <1>13, <2>3
  <2>5. ASSUME NEW k \in 1..Len(x) PROVE x[k] = es[k]
    <3>1. PICK i \in Nat : i = m + k
      BY <1>1, <1>8, <2>3
    <3>2. i \in 1..n /\ k \in 1..l
      BY <1>1, <1>7, <1>8, <1>13, <2>3, <3>1
    <3>3. x[k] = pes[i]
      BY <2>2, <3>1 DEF IsRest
    <3>4. pes[i] = payload[i]
      BY <1>7, <3>2
    <3>5. payload[i] = es[k]
      BY <1>6, <3>1, <3>2
    <3>6. QED
      BY <3>3, <3>4, <3>5
  <2>6. IsExtracted(x, es, room)
    BY <2>3, <2>4, <2>5 DEF IsExtracted, l
  <2>7. QED
    BY <2>6 DEF x, room
<1>14. QED
  BY <1>12, <1>13

\* A keyframe is found where one begins.
IsPes(b, p) ==
  \E offset \in Nat :
    /\ Says(b, p.pid, IF p.starts THEN 64 ELSE 0, offset)
    /\ p.starts => LET x == ExtractPESPayload(b, offset) IN
                     x # <<>> /\ IsKeyframe(x) <=> BeginsKeyframe(p)
LEMMA PesRead ==
  ASSUME NEW p \in PESs
  PROVE  IsPes(PesBytes(p), p)
<1> DEFINE lengths == NalLengths(p)
           es == FlattenSeq(NalParts(p))
           hdr == p.hdr
           starts == p.starts
           pid == p.pid
           h == PesHead(hdr)
           payload == IF starts THEN h \o es ELSE es
           b == PesBytes(p)
           room == PacketLength - 4 - 9 - hdr
           n == Len(p.nals)
           all == All(lengths)
           marks == IF starts THEN 64 ELSE 0
<1>1. /\ pid \in Nat /\ pid < 8192 /\ hdr \in Nat /\ starts \in BOOLEAN /\ p.kind = "pes"
  BY PesFacts, FieldsBounded
<1>2. es \in Seq(Nat) /\ Len(es) = all /\ all \in Nat
  BY NalsWritten DEF IsList
<1>3. b = PesPacket(pid, starts, payload)
  BY DEF PesBytes, PesPacket, NalParts, Unit, PesHead
<1>4. IsPesHead(h, hdr)
  BY <1>1, PesHeadWritten
<1>5. BeginsKeyframe(p) <=>
        starts /\ \E i \in 1..n :
          /\ p.nals[i].header \in Key[p.codec] \cup Mistaken[p.codec]
          /\ IsRead(p, i, IF all < room THEN all ELSE room)
  <2>1. DOMAIN p.nals = 1..n
    BY PesFacts
  <2>2. QED
    BY <2>1 DEF BeginsKeyframe, IsRead, HeaderAt
<1> HIDE DEF lengths, es, hdr, starts, pid, h, payload, b, room, n, all, marks
<1>6. payload \in Seq(Nat)
  <2>1. CASE starts
    <3>1. h \in Seq(Nat)
      BY <1>4 DEF IsPesHead
    <3>2. payload = h \o es
      BY <2>1 DEF payload
    <3>3. QED
      BY <1>2, <3>1, <3>2, Joins
  <2>2. CASE ~starts
    BY <1>2, <2>2 DEF payload
  <2>3. QED
    BY <2>1, <2>2
<1>7. IsPesPacket(b, pid, marks, payload)
  BY <1>1, <1>3, <1>6, PesPacketRead DEF marks
<1>8. PICK offset \in Nat : Says(b, pid, marks, offset) /\ IsCut(Rest(b, offset), payload, PacketLength - 4)
  BY <1>7 DEF IsPesPacket
<1> DEFINE x == ExtractPESPayload(b, offset)
<1> HIDE DEF x
<1>9. ASSUME starts PROVE x # <<>> /\ IsKeyframe(x) <=> BeginsKeyframe(p)
  <2>1. IsExtracted(x, es, room)
    <3>1. IsCut(Rest(b, offset), h \o es, PacketLength - 4)
      BY <1>8, <1>9 DEF payload
    <3>2. QED
      BY <1>1, <1>2, <1>4, <3>1, Extracted DEF x, room
  <2>2. /\ x \in Seq(Nat)
        /\ Len(x) = IF all < room THEN all ELSE IF room > 0 THEN room ELSE 0
        /\ \A k \in 1..Len(x) : x[k] = es[k]
    BY <1>2, <2>1 DEF IsExtracted
  <2>3. room \in Int
    BY <1>1, PacketLengthNat DEF room
  <2>4. Len(x) \in Nat /\ Len(x) <= all
    BY <1>2, <2>2, <2>3
  <2>5. IsEs(x, p)
    BY <2>2, <2>4 DEF IsEs, es, all, lengths
  <2>6. IsKeyframe(x) <=> \E i \in 1..n :
          p.nals[i].header \in Key[p.codec] \cup Mistaken[p.codec] /\ IsRead(p, i, Len(x))
    BY <2>5, KeyframeRead DEF n
  <2>7. ASSUME NEW i \in 1..n
        PROVE  IsRead(p, i, Len(x)) <=> IsRead(p, i, IF all < room THEN all ELSE room)
    <3>1. HeaderAt(p, i) \in Nat
      <4>1. Ends(NalLengths(p))[i - 1] \in Nat /\ p.nals[i].code \in {3, 4}
        BY <2>5, UnitAt, NalsWritten DEF n
      <4>2. QED
        BY <4>1 DEF HeaderAt
    <3>2. Len(x) = (IF all < room THEN all ELSE room) \/ (Len(x) = 0 /\ ~(all < room) /\ room <= 0)
      BY <1>2, <2>2, <2>3
    <3>3. QED
      BY <2>3, <3>1, <3>2 DEF IsRead
  <2>8. ASSUME NEW i \in 1..n, IsRead(p, i, Len(x)) PROVE x # <<>>
    <3>1. HeaderAt(p, i) \in Nat
      <4>1. Ends(NalLengths(p))[i - 1] \in Nat /\ p.nals[i].code \in {3, 4}
        BY <2>5, UnitAt, NalsWritten DEF n
      <4>2. QED
        BY <4>1 DEF HeaderAt
    <3>2. 0 < Len(x)
      BY <2>4, <2>8, <3>1 DEF IsRead
    <3>3. QED
      BY <3>2
  <2>9. QED
    BY <1>5, <1>9, <2>6, <2>7, <2>8
<1>10. QED
  BY <1>8, <1>9 DEF IsPes, pid, starts, marks, x, b

-----------------------------------------------------------------------------
\* What is learned of a packet, by what it says of itself.
PatOf(b, pid, marks, offset) ==
  IF pid = 0 /\ marks = 64 THEN ParsePAT(Rest(b, offset)) ELSE 0
PmtOf(b, pid, marks, offset) ==
  IF PatOf(b, pid, marks, offset) # 0 THEN PatOf(b, pid, marks, offset) ELSE pmtPID
PidsOf(b, pid, marks, offset) ==
  IF PmtOf(b, pid, marks, offset) # 0 /\ pid = PmtOf(b, pid, marks, offset) /\ marks = 64
    THEN ParsePMT(Rest(b, offset)) ELSE [video |-> 0, audio |-> 0]
LEMMA LearnedIs ==
  ASSUME NEW b, NEW pid, NEW marks, NEW offset, Says(b, pid, marks, offset)
  PROVE  Learned(b) =
           [pmt |-> PmtOf(b, pid, marks, offset),
            video |-> IF PidsOf(b, pid, marks, offset).video # 0
                        THEN PidsOf(b, pid, marks, offset).video ELSE videoPID,
            audio |-> IF PidsOf(b, pid, marks, offset).audio # 0
                        THEN PidsOf(b, pid, marks, offset).audio ELSE audioPID]
<1> DEFINE info == ParseTSPacket(b)
           payload == Rest(b, info.PayloadOffset)
           table == info.PUSI /\ info.HasPayload
           pat == IF info.PID = 0 /\ table THEN ParsePAT(payload) ELSE 0
           pmt == IF pat # 0 THEN pat ELSE pmtPID
           pids == IF pmt # 0 /\ info.PID = pmt /\ table THEN ParsePMT(payload)
                   ELSE [video |-> 0, audio |-> 0]
<1>1. info.PID = pid /\ (info.PUSI <=> marks = 64) /\ info.HasPayload /\ info.PayloadOffset = offset
  BY DEF Says
<1>2. Learned(b) =
        [pmt |-> pmt,
         video |-> IF pids.video # 0 THEN pids.video ELSE videoPID,
         audio |-> IF pids.audio # 0 THEN pids.audio ELSE audioPID]
  BY DEF Learned
<1> HIDE DEF info
<1>3. (table <=> marks = 64) /\ payload = Rest(b, offset)
  BY <1>1
<1> HIDE DEF payload, table
<1>4. pat = PatOf(b, pid, marks, offset)
  BY <1>1, <1>3 DEF PatOf
<1> HIDE DEF pat
<1>5. pmt = PmtOf(b, pid, marks, offset)
  BY <1>4 DEF PmtOf
<1> HIDE DEF pmt
<1>6. pids = PidsOf(b, pid, marks, offset)
  BY <1>1, <1>3, <1>5 DEF PidsOf
<1> HIDE DEF pids
<1>7. QED
  BY <1>2, <1>5, <1>6

\* A packet is taken for the beginning of a keyframe by what it says of itself.
LEMMA ContainsIs ==
  ASSUME NEW b, NEW pid, NEW marks, NEW offset, Says(b, pid, marks, offset), NEW video
  PROVE  /\ ContainsKeyframe(b, video) \in BOOLEAN
         /\ ContainsKeyframe(b, video) <=>
              /\ pid = video /\ video # 0 /\ marks = 64
              /\ ExtractPESPayload(b, offset) # <<>> /\ IsKeyframe(ExtractPESPayload(b, offset))
<1> DEFINE info == ParseTSPacket(b)
           pes == ExtractPESPayload(b, info.PayloadOffset)
<1>1. info.PID = pid /\ (info.PUSI <=> marks = 64) /\ info.HasPayload /\ info.PayloadOffset = offset
  BY DEF Says
<1>2. ContainsKeyframe(b, video) =
        (info.PID = video /\ video # 0 /\ info.PUSI /\ info.HasPayload /\ pes # <<>> /\ IsKeyframe(pes))
  BY DEF ContainsKeyframe
<1> HIDE DEF info
<1>3. pes = ExtractPESPayload(b, offset)
  BY <1>1
<1> HIDE DEF pes
<1>4. QED
  BY <1>1, <1>2, <1>3

-----------------------------------------------------------------------------
\* The PIDs that are announced are those of programs and streams, so that a packet of
\* one kind is never taken for one of another.
MInv ==
  /\ TablesFound
  /\ KeyframesFound
  /\ pmtPID # 0 => \E e \in Programs : pmtPID = e.pid
  /\ videoPID # 0 => \E k \in StreamKinds : videoPID = k.pid

\* At first nothing is announced.
LEMMA InitMInv == MuxInit => MInv
BY DEF MuxInit, ParserInit, MInv, TablesFound, KeyframesFound

\* The aligner knows nothing of the program.
LEMMA AlignsMInv == ASSUME MInv, Aligns PROVE MInv'
<1>1. UNCHANGED <<pmtPID, videoPID, audioPID, keyframe, told, expected>>
  BY DEF Aligns, parserVars
<1>2. QED
  BY <1>1 DEF MInv, TablesFound, KeyframesFound

\* The entry of a table that is found is one of its own.
LEMMA PatEntryFound ==
  ASSUME NEW p \in PATs, PatIn(p) # {}
  PROVE  p.programs[Min(PatIn(p))] \in Programs
<1>1. p.programs \in Seq(Programs)
  BY PatWritten
<1>2. PatIn(p) \subseteq DOMAIN p.programs /\ DOMAIN p.programs \subseteq Nat
  BY <1>1 DEF PatIn
<1>3. Min(PatIn(p)) \in DOMAIN p.programs
  BY <1>2, MinNat
<1>4. QED
  BY <1>1, <1>3

\* So is that of a PMT.
LEMMA PmtEntryFound ==
  ASSUME NEW p \in PMTs, NEW types, PmtIn(p, types) # {}
  PROVE  p.streams[Min(PmtIn(p, types))] \in StreamKinds
<1>1. p.streams \in Seq(StreamKinds)
  BY PmtWritten
<1>2. PmtIn(p, types) \subseteq DOMAIN p.streams /\ DOMAIN p.streams \subseteq Nat
  BY <1>1 DEF PmtIn
<1>3. Min(PmtIn(p, types)) \in DOMAIN p.streams
  BY <1>2, MinNat
<1>4. QED
  BY <1>1, <1>3

\* A PAT says which PMT is the program's, ...
LEMMA InspectPatMInv == ASSUME MInv, InspectPat PROVE MInv'
<1>1. PICK p \in PATs : /\ Inspect(BytesOf(p))
                        /\ told' = [told EXCEPT !.pmt = Announced(p)] /\ expected' = FALSE
  BY DEF InspectPat
<1> DEFINE b == PatBytes(p)
           found == ParsePAT(Rest(b, 4))
           first == p.programs[Min(PatIn(p))]
<1>2. BytesOf(p) = b
  <2>1. p.kind = "pat"
    BY DEF PATs
  <2>2. QED
    BY <2>1 DEF BytesOf
<1>3. Says(b, 0, 64, 4)
  BY PatFields DEF IsTable
<1>4. /\ pmtPID' = Learned(b).pmt /\ videoPID' = Learned(b).video /\ audioPID' = Learned(b).audio
      /\ keyframe' = ContainsKeyframe(b, videoPID')
  BY <1>1, <1>2 DEF Inspect
<1>5. found = IF PatIn(p) = {} THEN 0 ELSE first.pid
  BY PatFound
<1>6. PatIn(p) # {} => first \in Programs /\ first.pid # 0
  BY PatEntryFound, FieldsBounded
<1>7. Announced(p) = IF PatIn(p) = {} THEN told.pmt ELSE first.pid
  BY DEF Announced, PatIn
<1> HIDE DEF b, found, first
<1>8. /\ PatOf(b, 0, 64, 4) = found
      /\ PmtOf(b, 0, 64, 4) = IF found # 0 THEN found ELSE pmtPID
      /\ PidsOf(b, 0, 64, 4) = [video |-> 0, audio |-> 0]
  <2>1. PatOf(b, 0, 64, 4) = found
    BY DEF PatOf, found
  <2>2. PmtOf(b, 0, 64, 4) = IF found # 0 THEN found ELSE pmtPID
    BY <2>1 DEF PmtOf
  <2>3. PidsOf(b, 0, 64, 4) = [video |-> 0, audio |-> 0]
    BY DEF PidsOf
  <2>4. QED
    BY <2>1, <2>2, <2>3
<1>9. Learned(b) = [pmt |-> IF found # 0 THEN found ELSE pmtPID,
                    video |-> videoPID, audio |-> audioPID]
  BY <1>3, <1>8, LearnedIs
<1>10. pmtPID' = (IF PatIn(p) = {} THEN pmtPID ELSE first.pid) /\ videoPID' = videoPID /\ audioPID' = audioPID
  BY <1>4, <1>5, <1>6, <1>9
<1>11. keyframe' = FALSE
  BY <1>3, <1>4, ContainsIs
<1>12. told = [pmt |-> pmtPID, video |-> videoPID, audio |-> audioPID]
  BY DEF MInv, TablesFound
<1>13. told' = [pmt |-> pmtPID', video |-> videoPID', audio |-> audioPID']
  <2>1. told' = [pmt |-> Announced(p), video |-> videoPID, audio |-> audioPID]
    BY <1>1, <1>12
  <2>2. told.pmt = pmtPID
    BY <1>12
  <2>3. Announced(p) = pmtPID'
    BY <1>7, <1>10, <2>2
  <2>4. QED
    BY <1>10, <2>1, <2>3
<1>14. pmtPID' # 0 => \E e \in Programs : pmtPID' = e.pid
  BY <1>6, <1>10 DEF MInv
<1>15. videoPID' # 0 => \E k \in StreamKinds : videoPID' = k.pid
  BY <1>10 DEF MInv
<1>16. QED
  BY <1>1, <1>11, <1>13, <1>14, <1>15 DEF MInv, TablesFound, KeyframesFound

\* ... the program's PMT which streams are its video and audio, ...
LEMMA InspectPmtMInv == ASSUME MInv, InspectPmt PROVE MInv'
<1>1. PICK p \in PMTs :
        /\ Inspect(BytesOf(p))
        /\ told' = IF p.pid = told.pmt
                      THEN [told EXCEPT !.video = FirstOf(p, {36, 27}, @),
                                         !.audio = FirstOf(p, {15, 17, 3, 4}, @)]
                      ELSE told
        /\ expected' = FALSE
  BY DEF InspectPmt
<1> DEFINE b == PmtBytes(p)
           pid == p.pid
           Found(types) == FirstPID(Streams(Rest(b, 4)), types)
           video == FirstPID(Streams(Rest(b, 4)), VideoTypes)
           audio == FirstPID(Streams(Rest(b, 4)), AudioTypes)
           V == PmtIn(p, VideoTypes)
           A == PmtIn(p, AudioTypes)
           v == p.streams[Min(V)]
           a == p.streams[Min(A)]
           mine == pmtPID # 0 /\ pid = pmtPID
<1>2. BytesOf(p) = b /\ pid \in PmtPIDs /\ pid # 0
  <2>1. p.kind = "pmt" /\ pid \in PmtPIDs
    BY DEF PMTs
  <2>2. QED
    BY <2>1, FieldsBounded DEF BytesOf
<1>3. Says(b, pid, 64, 4)
  BY PmtFields DEF IsTable
<1>4. /\ pmtPID' = Learned(b).pmt /\ videoPID' = Learned(b).video /\ audioPID' = Learned(b).audio
      /\ keyframe' = ContainsKeyframe(b, videoPID')
  BY <1>1, <1>2 DEF Inspect
<1>5. /\ video = IF V = {} THEN 0 ELSE v.pid
      /\ audio = IF A = {} THEN 0 ELSE a.pid
  BY PmtFound
<1>6. /\ V # {} => v \in StreamKinds /\ v.pid # 0
      /\ A # {} => a \in StreamKinds /\ a.pid # 0
  BY PmtEntryFound, FieldsBounded
<1>7. \A else : /\ FirstOf(p, {36, 27}, else) = IF V = {} THEN else ELSE v.pid
                /\ FirstOf(p, {15, 17, 3, 4}, else) = IF A = {} THEN else ELSE a.pid
  BY DEF FirstOf, PmtIn, VideoTypes, AudioTypes
<1>8. ParsePMT(Rest(b, 4)) = [video |-> video, audio |-> audio]
  BY DEF ParsePMT
<1> HIDE DEF b, pid, video, audio, V, A, v, a
<1>9. /\ PmtOf(b, pid, 64, 4) = pmtPID
      /\ PidsOf(b, pid, 64, 4) = [video |-> IF mine THEN video ELSE 0,
                                  audio |-> IF mine THEN audio ELSE 0]
  <2>1. PatOf(b, pid, 64, 4) = 0
    BY <1>2 DEF PatOf
  <2>2. PmtOf(b, pid, 64, 4) = pmtPID
    BY <2>1 DEF PmtOf
  <2>3. PidsOf(b, pid, 64, 4) = IF mine THEN ParsePMT(Rest(b, 4)) ELSE [video |-> 0, audio |-> 0]
    BY <2>2 DEF PidsOf
  <2>4. QED
    BY <1>8, <2>2, <2>3
<1>10. Learned(b) = [pmt |-> pmtPID,
                     video |-> IF mine /\ video # 0 THEN video ELSE videoPID,
                     audio |-> IF mine /\ audio # 0 THEN audio ELSE audioPID]
  BY <1>3, <1>9, LearnedIs
<1>11. /\ pmtPID' = pmtPID
       /\ videoPID' = IF mine /\ V # {} THEN v.pid ELSE videoPID
       /\ audioPID' = IF mine /\ A # {} THEN a.pid ELSE audioPID
  BY <1>4, <1>5, <1>6, <1>10
<1>12. told = [pmt |-> pmtPID, video |-> videoPID, audio |-> audioPID]
  BY DEF MInv, TablesFound
<1>13. told' = [pmt |-> pmtPID', video |-> videoPID', audio |-> audioPID']
  <2>1. pid = told.pmt <=> mine
    BY <1>2, <1>12
  <2>2. CASE mine
    <3>1. told' = [told EXCEPT !.video = FirstOf(p, {36, 27}, told.video),
                                 !.audio = FirstOf(p, {15, 17, 3, 4}, told.audio)]
      BY <1>1, <2>1, <2>2 DEF pid
    <3>2. told' = [pmt |-> pmtPID, video |-> FirstOf(p, {36, 27}, videoPID),
                    audio |-> FirstOf(p, {15, 17, 3, 4}, audioPID)]
      BY <1>12, <3>1
    <3>3. QED
      BY <1>7, <1>11, <2>2, <3>2
  <2>3. CASE ~mine
    BY <1>1, <1>11, <1>12, <2>1, <2>3 DEF pid
  <2>4. QED
    BY <2>2, <2>3
<1>14. pmtPID' # 0 => \E e \in Programs : pmtPID' = e.pid
  BY <1>11 DEF MInv
<1>15. videoPID' # 0 => \E k \in StreamKinds : videoPID' = k.pid
  BY <1>6, <1>11 DEF MInv
<1>16. keyframe' = FALSE
  <2>1. ~(pid = videoPID' /\ videoPID' # 0)
    BY <1>2, <1>15, FieldsBounded
  <2>2. QED
    BY <1>3, <1>4, <2>1, ContainsIs
<1>17. QED
  BY <1>1, <1>13, <1>14, <1>15, <1>16 DEF MInv, TablesFound, KeyframesFound

\* ... and a packet of the video whether a keyframe begins.
LEMMA InspectPesMInv == ASSUME MInv, InspectPes PROVE MInv'
<1>1. PICK p \in PESs : /\ Inspect(BytesOf(p))
                        /\ expected' = (p.pid = told.video /\ BeginsKeyframe(p))
                        /\ UNCHANGED told
  BY DEF InspectPes
<1> DEFINE b == PesBytes(p)
           pid == p.pid
           marks == IF p.starts THEN 64 ELSE 0
<1>2. BytesOf(p) = b /\ pid \in VideoPIDs /\ pid # 0 /\ p.starts \in BOOLEAN
  <2>1. p.kind = "pes" /\ pid \in VideoPIDs /\ p.starts \in BOOLEAN
    BY PesFacts
  <2>2. QED
    BY <2>1, FieldsBounded DEF BytesOf
<1>3. PICK offset \in Nat :
        /\ Says(b, pid, marks, offset)
        /\ p.starts => (ExtractPESPayload(b, offset) # <<>> /\ IsKeyframe(ExtractPESPayload(b, offset))
                          <=> BeginsKeyframe(p))
  BY PesRead DEF IsPes
<1>4. /\ pmtPID' = Learned(b).pmt /\ videoPID' = Learned(b).video /\ audioPID' = Learned(b).audio
      /\ keyframe' = ContainsKeyframe(b, videoPID')
  BY <1>1, <1>2 DEF Inspect
<1>5. marks = 64 <=> p.starts
  BY <1>2
<1>6. BeginsKeyframe(p) => p.starts
  BY DEF BeginsKeyframe
<1> HIDE DEF b, pid, marks
<1>7. pmtPID # 0 => pid # pmtPID
  BY <1>2, FieldsBounded DEF MInv
<1>8. PmtOf(b, pid, marks, offset) = pmtPID /\ PidsOf(b, pid, marks, offset) = [video |-> 0, audio |-> 0]
  <2>1. PatOf(b, pid, marks, offset) = 0
    BY <1>2 DEF PatOf
  <2>2. PmtOf(b, pid, marks, offset) = pmtPID
    BY <2>1 DEF PmtOf
  <2>3. QED
    BY <1>7, <2>2 DEF PidsOf
<1>9. Learned(b) = [pmt |-> pmtPID, video |-> videoPID, audio |-> audioPID]
  BY <1>3, <1>8, LearnedIs
<1>10. UNCHANGED <<pmtPID, videoPID, audioPID, told>>
  BY <1>1, <1>4, <1>9
<1>11. told.video = videoPID
  BY DEF MInv, TablesFound
<1>12. keyframe' <=> pid = videoPID /\ BeginsKeyframe(p)
  <2>1. ContainsKeyframe(b, videoPID) <=>
          /\ pid = videoPID /\ videoPID # 0 /\ marks = 64
          /\ ExtractPESPayload(b, offset) # <<>> /\ IsKeyframe(ExtractPESPayload(b, offset))
    BY <1>3, ContainsIs
  <2>2. keyframe' <=> ContainsKeyframe(b, videoPID)
    BY <1>4, <1>10
  <2>3. QED
    BY <1>2, <1>3, <1>5, <1>6, <2>1, <2>2
<1>13. keyframe' \in BOOLEAN
  BY <1>3, <1>4, ContainsIs
<1>14. expected' = (pid = videoPID /\ BeginsKeyframe(p))
  BY <1>1, <1>11 DEF pid
<1>15. keyframe' = expected'
  BY <1>12, <1>13, <1>14
<1>16. QED
  BY <1>10, <1>15 DEF MInv, TablesFound, KeyframesFound

\* Nothing else changes what is announced.
LEMMA NextMInv == MInv /\ [MuxNext]_muxVars => MInv'
<1> SUFFICES ASSUME MInv, [MuxNext]_muxVars PROVE MInv'
  OBVIOUS
<1>1. CASE UNCHANGED muxVars
  BY <1>1 DEF muxVars, parserVars, MInv, TablesFound, KeyframesFound
<1>2. QED
  BY <1>1, AlignsMInv, InspectPatMInv, InspectPmtMInv, InspectPesMInv DEF MuxNext

\* The switcher knows the PIDs that the tables announce, whatever the tables hold.
THEOREM TablesLearned == MuxSpec => []TablesFound
<1>1. MInv => TablesFound
  BY DEF MInv
<1>2. QED
  BY <1>1, InitMInv, NextMInv, PTL DEF MuxSpec

\* Every keyframe of the program's video is recognised, and nothing else.
THEOREM KeyframesRecognised == MuxSpec => []KeyframesFound
<1>1. MInv => KeyframesFound
  BY DEF MInv
<1>2. QED
  BY <1>1, InitMInv, NextMInv, PTL DEF MuxSpec
=============================================================================
