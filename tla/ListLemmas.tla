----------------------------- MODULE ListLemmas -----------------------------
(***************************************************************************)
(* Lists whose entries have ids of their own, as the scenes, the rules and *)
(* the schedules are kept: what adding and removing an entry does to them; *)
(* and the least of a set of naturals, functions that are iterated, and    *)
(* lists of lists.  Checked by TLAPS.                                      *)
(***************************************************************************)
EXTENDS Integers, Sequences, SequencesExt, SequenceTheorems, WellFoundedInduction, TLAPS

\* RemoveAt closes the gap.
LEMMA RemoveAtFacts ==
  ASSUME NEW S, NEW s \in Seq(S), NEW i \in DOMAIN s
  PROVE  /\ RemoveAt(s, i) \in Seq(S)
         /\ DOMAIN RemoveAt(s, i) = 1..Len(s) - 1
         /\ \A j \in 1..Len(s) - 1 : RemoveAt(s, i)[j] = IF j < i THEN s[j] ELSE s[j + 1]
<1> DEFINE a == SubSeq(s, 1, i - 1)
           b == SubSeq(s, i + 1, Len(s))
<1>1. i \in 1..Len(s) /\ Len(s) \in Nat /\ \A j \in 1..Len(s) : s[j] \in S
  OBVIOUS
<1>2. /\ a \in Seq(S) /\ Len(a) = i - 1
      /\ \A j \in 1..i - 1 : a[j] = s[j]
  BY <1>1, SubSeqProperties
<1>3. /\ b \in Seq(S) /\ Len(b) = Len(s) - i
      /\ \A j \in 1..Len(s) - i : b[j] = s[j + i]
  <2>1. \A j \in i + 1..Len(s) : s[j] \in S
    BY <1>1
  <2>2. /\ b \in Seq(S) /\ Len(b) = IF i + 1 <= Len(s) THEN Len(s) - (i + 1) + 1 ELSE 0
        /\ \A j \in 1..Len(s) - (i + 1) + 1 : b[j] = s[(i + 1) + j - 1]
    BY <1>1, <2>1, SubSeqProperties
  <2>3. QED
    BY <1>1, <2>2
<1> HIDE DEF a, b
<1>4. /\ a \o b \in Seq(S) /\ Len(a \o b) = Len(s) - 1
      /\ \A j \in 1..Len(s) - 1 : (a \o b)[j] = IF j <= i - 1 THEN a[j] ELSE b[j - (i - 1)]
  <2>1. Len(a) + Len(b) = Len(s) - 1
    BY <1>1, <1>2, <1>3
  <2>2. /\ a \o b \in Seq(S) /\ Len(a \o b) = Len(a) + Len(b)
        /\ \A j \in 1..Len(a) + Len(b) :
              (a \o b)[j] = IF j <= Len(a) THEN a[j] ELSE b[j - Len(a)]
    BY <1>2, <1>3, ConcatProperties
  <2>3. QED
    BY <1>2, <2>1, <2>2
<1>5. ASSUME NEW j \in 1..Len(s) - 1 PROVE (a \o b)[j] = IF j < i THEN s[j] ELSE s[j + 1]
  <2>1. CASE j < i
    BY <1>1, <1>2, <1>4, <2>1
  <2>2. CASE j >= i
    <3>1. j - (i - 1) \in 1..Len(s) - i /\ (j - (i - 1)) + i = j + 1
      BY <1>1, <2>2
    <3>2. b[j - (i - 1)] = s[j + 1]
      BY <1>3, <3>1
    <3>3. (a \o b)[j] = b[j - (i - 1)]
      BY <1>1, <1>4, <2>2
    <3>4. QED
      BY <1>1, <2>2, <3>2, <3>3
  <2>3. i \in Int /\ j \in Int
    BY <1>1
  <2>4. j < i \/ j >= i
    BY <2>3
  <2>5. QED
    BY <2>1, <2>2, <2>4
<1>6. DOMAIN (a \o b) = 1..Len(s) - 1
  BY <1>4
<1>7. RemoveAt(s, i) = a \o b
  BY DEF RemoveAt, a, b
<1>8. QED
  BY <1>4, <1>5, <1>6, <1>7

\* A list without two entries of one id keeps them apart, and keeps the others,
\* when an entry is removed, ...
Unique(s) == \A i, j \in DOMAIN s : s[i].id = s[j].id => i = j
Holds(s, x) == \E i \in DOMAIN s : s[i] = x

\* ... for it keeps all but the one, ...
LEMMA RemoveAtUnique ==
  ASSUME NEW S, NEW s \in Seq(S), Unique(s), NEW i \in DOMAIN s
  PROVE  /\ Unique(RemoveAt(s, i))
         /\ \A x : Holds(s, x) /\ x.id # s[i].id => Holds(RemoveAt(s, i), x)
<1> DEFINE r == RemoveAt(s, i)
<1>1. /\ DOMAIN r = 1..Len(s) - 1
      /\ \A j \in 1..Len(s) - 1 : r[j] = IF j < i THEN s[j] ELSE s[j + 1]
  BY RemoveAtFacts
<1>2. i \in 1..Len(s) /\ Len(s) \in Nat /\ DOMAIN s = 1..Len(s)
  OBVIOUS
<1> HIDE DEF r
<1>3. Unique(r)
  <2> SUFFICES ASSUME NEW j \in 1..Len(s) - 1, NEW k \in 1..Len(s) - 1, r[j].id = r[k].id
               PROVE  j = k
    BY <1>1 DEF Unique
  <2> DEFINE Old(n) == IF n < i THEN n ELSE n + 1
  <2>1. r[j] = s[Old(j)] /\ r[k] = s[Old(k)]
    BY <1>1
  <2>2. Old(j) \in DOMAIN s /\ Old(k) \in DOMAIN s
    BY <1>2
  <2>3. Old(j) = Old(k)
    <3> HIDE DEF Old
    <3>1. QED
      BY <2>1, <2>2 DEF Unique
  <2>4. QED
    BY <1>2, <2>3
<1>4. ASSUME NEW x, NEW j \in DOMAIN s, s[j] = x, x.id # s[i].id PROVE Holds(r, x)
  <2>1. CASE j < i
    BY <1>1, <1>2, <1>4, <2>1 DEF Holds
  <2>2. CASE j > i
    <3>1. j - 1 \in DOMAIN r /\ r[j - 1] = s[j]
      BY <1>1, <1>2, <2>2
    <3>2. QED
      BY <3>1, <1>4 DEF Holds
  <2>3. QED
    BY <1>2, <1>4, <2>1, <2>2
<1>5. QED
  BY <1>3, <1>4 DEF Holds, r

\* ... and when one is added whose id is not in the list.
LEMMA AppendUnique ==
  ASSUME NEW S, NEW s \in Seq(S), Unique(s), NEW x \in S,
         ~\E i \in DOMAIN s : s[i].id = x.id
  PROVE  /\ Append(s, x) \in Seq(S) /\ Unique(Append(s, x))
         /\ \A y : Holds(s, y) => Holds(Append(s, x), y)
<1>1. /\ Len(s) \in Nat /\ DOMAIN s = 1..Len(s) /\ DOMAIN Append(s, x) = 1..Len(s) + 1
      /\ \A i \in 1..Len(s) : Append(s, x)[i] = s[i]
      /\ Append(s, x)[Len(s) + 1] = x
  OBVIOUS
<1>2. QED
  BY <1>1 DEF Unique, Holds

\* The same where entries may share the ids of a set, which an entry can join
\* that is added.
UniqueBut(s, X) == \A i, j \in DOMAIN s : s[i].id = s[j].id => i = j \/ s[i].id \in X

LEMMA RemoveAtUniqueBut ==
  ASSUME NEW S, NEW s \in Seq(S), NEW X, UniqueBut(s, X), NEW i \in DOMAIN s
  PROVE  /\ UniqueBut(RemoveAt(s, i), X)
         /\ \A x : Holds(RemoveAt(s, i), x) => Holds(s, x)
         /\ \A x : Holds(s, x) /\ x.id # s[i].id => Holds(RemoveAt(s, i), x)
<1> DEFINE r == RemoveAt(s, i)
           Old(n) == IF n < i THEN n ELSE n + 1
<1>1. /\ DOMAIN r = 1..Len(s) - 1
      /\ \A j \in 1..Len(s) - 1 : r[j] = IF j < i THEN s[j] ELSE s[j + 1]
  BY RemoveAtFacts
<1>2. i \in 1..Len(s) /\ Len(s) \in Nat /\ DOMAIN s = 1..Len(s)
  OBVIOUS
<1> HIDE DEF r
<1>3. \A j \in DOMAIN r : Old(j) \in DOMAIN s /\ r[j] = s[Old(j)]
  BY <1>1, <1>2
<1>4. ASSUME NEW j \in DOMAIN r, NEW k \in DOMAIN r, Old(j) = Old(k) PROVE j = k
  BY <1>1, <1>2, <1>4
<1>5. UniqueBut(r, X)
  <2> SUFFICES ASSUME NEW j \in DOMAIN r, NEW k \in DOMAIN r, r[j].id = r[k].id, r[j].id \notin X
               PROVE  j = k
    BY DEF UniqueBut
  <2> HIDE DEF Old
  <2>1. Old(j) = Old(k)
    BY <1>3 DEF UniqueBut
  <2>2. QED
    BY <1>4, <2>1
<1>6. ASSUME NEW j \in DOMAIN s, j # i PROVE \E k \in DOMAIN r : r[k] = s[j]
  <2>1. CASE j < i
    BY <1>1, <1>2, <1>6, <2>1
  <2>2. CASE j > i
    <3>1. j - 1 \in DOMAIN r /\ r[j - 1] = s[j]
      BY <1>1, <1>2, <2>2
    <3>2. QED
      BY <3>1
  <2>3. QED
    BY <1>2, <1>6, <2>1, <2>2
<1>7. ASSUME NEW x, Holds(r, x) PROVE Holds(s, x)
  <2> HIDE DEF Old
  <2>1. QED
    BY <1>3, <1>7 DEF Holds
<1>8. ASSUME NEW x, Holds(s, x), x.id # s[i].id PROVE Holds(r, x)
  BY <1>6, <1>8 DEF Holds
<1>9. QED
  BY <1>5, <1>7, <1>8 DEF r

LEMMA AppendUniqueBut ==
  ASSUME NEW S, NEW s \in Seq(S), NEW X, UniqueBut(s, X), NEW x \in S, NEW Y, X \subseteq Y,
         x.id \notin Y => ~\E i \in DOMAIN s : s[i].id = x.id
  PROVE  /\ Append(s, x) \in Seq(S) /\ UniqueBut(Append(s, x), Y)
         /\ \A y : Holds(s, y) => Holds(Append(s, x), y)
         /\ \A y : Holds(Append(s, x), y) => y = x \/ Holds(s, y)
<1>1. /\ Len(s) \in Nat /\ DOMAIN s = 1..Len(s) /\ DOMAIN Append(s, x) = 1..Len(s) + 1
      /\ \A i \in 1..Len(s) : Append(s, x)[i] = s[i]
      /\ Append(s, x)[Len(s) + 1] = x
  OBVIOUS
<1>2. UniqueBut(Append(s, x), Y)
  <2> SUFFICES ASSUME NEW j \in 1..Len(s) + 1, NEW k \in 1..Len(s) + 1,
                      Append(s, x)[j].id = Append(s, x)[k].id, Append(s, x)[j].id \notin Y
               PROVE  j = k
    BY <1>1 DEF UniqueBut
  <2>1. CASE j \in DOMAIN s /\ k \in DOMAIN s
    BY <1>1, <2>1 DEF UniqueBut
  <2>2. CASE j = Len(s) + 1
    BY <1>1, <2>2
  <2>3. CASE k = Len(s) + 1
    BY <1>1, <2>3
  <2>4. QED
    BY <1>1, <2>1, <2>2, <2>3
<1>3. QED
  BY <1>1, <1>2 DEF Holds

-----------------------------------------------------------------------------
\* The same of the set of the entries: it has them and no others, ...
LEMMA EntriesOfList ==
  ASSUME NEW S, NEW s \in Seq(S)
  PROVE  ToSet(s) \subseteq S /\ (s = <<>> => ToSet(s) = {})
<1>1. \A i \in DOMAIN s : s[i] \in S
  OBVIOUS
<1>2. QED
  BY <1>1 DEF ToSet

\* ... a list that is not empty has a first, ...
LEMMA FirstOfList ==
  ASSUME NEW S, NEW s \in Seq(S), s # <<>>
  PROVE  1 \in DOMAIN s /\ s[1] \in ToSet(s) /\ ToSet(s) # {}
<1>1. 1 \in DOMAIN s
  OBVIOUS
<1>2. QED
  BY <1>1 DEF ToSet

\* ... adding one adds it, ...
LEMMA AppendSet ==
  ASSUME NEW S, NEW s \in Seq(S), NEW x \in S
  PROVE  Append(s, x) \in Seq(S) /\ ToSet(Append(s, x)) = ToSet(s) \cup {x}
<1>1. /\ Len(s) \in Nat /\ DOMAIN s = 1..Len(s) /\ DOMAIN Append(s, x) = 1..Len(s) + 1
      /\ \A i \in 1..Len(s) : Append(s, x)[i] = s[i]
      /\ Append(s, x)[Len(s) + 1] = x /\ Append(s, x) \in Seq(S)
  OBVIOUS
<1> DEFINE r == Append(s, x)
<1> HIDE DEF r
<1>2. ASSUME NEW j \in DOMAIN r PROVE r[j] \in ToSet(s) \cup {x}
  BY <1>1 DEF ToSet, r
<1>3. ASSUME NEW j \in DOMAIN s PROVE \E k \in DOMAIN r : r[k] = s[j]
  BY <1>1 DEF r
<1>4. \E k \in DOMAIN r : r[k] = x
  BY <1>1 DEF r
<1>5. QED
  BY <1>1, <1>2, <1>3, <1>4 DEF ToSet, r

\* ... and removing one from a list of unique ids removes it.
LEMMA RemoveAtSet ==
  ASSUME NEW S, NEW s \in Seq(S), Unique(s), NEW i \in DOMAIN s
  PROVE  ToSet(RemoveAt(s, i)) = ToSet(s) \ {s[i]}
<1> DEFINE r == RemoveAt(s, i)
<1>1. /\ DOMAIN r = 1..Len(s) - 1
      /\ \A j \in 1..Len(s) - 1 : r[j] = IF j < i THEN s[j] ELSE s[j + 1]
  BY RemoveAtFacts
<1>2. i \in 1..Len(s) /\ Len(s) \in Nat /\ DOMAIN s = 1..Len(s)
  OBVIOUS
<1> HIDE DEF r
<1>3. ASSUME NEW j \in DOMAIN r PROVE r[j] \in ToSet(s) \ {s[i]}
  <2>1. PICK k \in DOMAIN s : r[j] = s[k] /\ k # i
    <3>1. j \in DOMAIN s /\ j + 1 \in DOMAIN s
      BY <1>1, <1>2
    <3>2. CASE j < i
      BY <1>1, <1>2, <3>1, <3>2
    <3>3. CASE ~(j < i)
      <4>1. r[j] = s[j + 1] /\ j + 1 # i
        BY <1>1, <1>2, <3>3
      <4>2. QED
        BY <3>1, <4>1
    <3>4. QED
      BY <3>2, <3>3
  <2>2. s[k] # s[i]
    BY <2>1 DEF Unique
  <2>3. QED
    BY <2>1, <2>2 DEF ToSet
<1>4. ASSUME NEW x \in ToSet(s) \ {s[i]} PROVE x \in ToSet(r)
  <2>1. PICK k \in DOMAIN s : x = s[k] /\ s[k].id # s[i].id
    BY DEF ToSet, Unique
  <2>2. Holds(s, x) /\ x.id # s[i].id
    BY <2>1 DEF Holds
  <2>3. Holds(r, x)
    BY <2>2, RemoveAtUnique DEF r
  <2>4. QED
    BY <2>3 DEF Holds, ToSet
<1>5. QED
  BY <1>3, <1>4 DEF ToSet, r

-----------------------------------------------------------------------------
\* A set of naturals that is not empty has a least one.
LEMMA LeastNat ==
  ASSUME NEW T, T \subseteq Nat, T # {}
  PROVE  \E m \in T : \A k \in T : m <= k
<1> DEFINE R == OpToRel(<, Nat)
<1>1. IsWellFoundedOn(R, Nat)
  BY NatLessThanWellFounded
<1> HIDE DEF R
<1>2. PICK m \in T : \A k \in T : <<k, m>> \notin R
  BY <1>1, WFMin
<1>3. \A k \in T : k < m => <<k, m>> \in R
  BY DEF R, OpToRel
<1>4. ASSUME NEW k \in T PROVE m <= k
  <2>1. ~(k < m)
    BY <1>2, <1>3
  <2>2. k \in Int /\ m \in Int
    OBVIOUS
  <2>3. QED
    BY <2>1, <2>2
<1>5. QED
  BY <1>4

\* Min is that one.
LEMMA MinNat ==
  ASSUME NEW T, T \subseteq Nat, T # {}
  PROVE  Min(T) \in T /\ \A k \in T : Min(T) <= k
<1>1. \E m \in T : \A k \in T : m <= k
  BY LeastNat
<1>2. QED
  BY <1>1 DEF Min

\* Only the least is the least.
LEMMA MinIs ==
  ASSUME NEW T, T \subseteq Nat, NEW m \in T, \A k \in T : m <= k
  PROVE  Min(T) = m
<1>1. Min(T) \in T /\ \A k \in T : Min(T) <= k
  BY MinNat
<1>2. Min(T) \in Nat /\ m \in Nat /\ Min(T) <= m /\ m <= Min(T)
  BY <1>1
<1>3. QED
  BY <1>2

\* A list that is bounded is a list.
LEMMA OfSeqOf ==
  ASSUME NEW S, NEW n \in Nat, NEW q \in SeqOf(S, n)
  PROVE  q \in Seq(S)
BY DEF SeqOf

\* Functions are iterated from a first value on.
Iterated(n, T, base, step) ==
  \E f \in [0..n -> T] : f[0] = base /\ \A i \in 1..n : f[i] = step[i][f[i - 1]]
LEMMA Iterates ==
  ASSUME NEW n \in Nat, NEW T, NEW base \in T, NEW step \in [1..n -> [T -> T]]
  PROVE  Iterated(n, T, base, step)
<1> DEFINE Upto(f, m) == f \in [0..n -> T] /\ f[0] = base
                         /\ \A i \in 1..n : i <= m => f[i] = step[i][f[i - 1]]
           Bad == {m \in Nat : m <= n /\ ~\E f : Upto(f, m)}
<1>1. Bad = {}
  <2>1. SUFFICES ASSUME Bad # {} PROVE FALSE
    OBVIOUS
  <2>2. Bad \subseteq Nat
    OBVIOUS
  <2>3. PICK m \in Bad : \A k \in Bad : m <= k
    BY <2>1, <2>2, LeastNat
  <2>4. m \in Nat /\ m <= n /\ ~\E f : Upto(f, m)
    BY <2>3
  <2>5. CASE m = 0
    <3>1. [i \in 0..n |-> base] \in [0..n -> T] /\ 0 \in 0..n
      OBVIOUS
    <3>2. Upto([i \in 0..n |-> base], 0)
      BY <3>1
    <3>3. QED
      BY <2>4, <2>5, <3>2
  <2>6. CASE m # 0
    <3>1. m - 1 \in Nat /\ ~(m <= m - 1) /\ m - 1 <= n /\ m \in 1..n /\ m \in 0..n /\ m - 1 \in 0..n
      BY <2>4, <2>6
    <3>2. m - 1 \notin Bad
      BY <2>3, <3>1
    <3>3. PICK f : Upto(f, m - 1)
      BY <3>1, <3>2
    <3> DEFINE g == [f EXCEPT ![m] = step[m][f[m - 1]]]
    <3>4. f \in [0..n -> T] /\ f[0] = base
      BY <3>3
    <3>5. step[m][f[m - 1]] \in T
      BY <3>1, <3>4
    <3>6. g \in [0..n -> T] /\ g[m] = step[m][f[m - 1]] /\ \A i \in 0..n : i # m => g[i] = f[i]
      BY <3>1, <3>4, <3>5
    <3> HIDE DEF g
    <3>7. g[0] = base
      BY <3>1, <3>4, <3>6
    <3>8. ASSUME NEW i \in 1..n, i <= m PROVE g[i] = step[i][g[i - 1]]
      <4>1. i - 1 \in 0..n /\ i - 1 # m /\ i \in 0..n
        BY <3>1, <3>8
      <4>2. g[i - 1] = f[i - 1]
        BY <3>6, <4>1
      <4>3. CASE i = m
        BY <3>6, <4>2, <4>3
      <4>4. CASE i # m
        <5>1. i <= m - 1
          BY <3>1, <3>8, <4>4
        <5>2. f[i] = step[i][f[i - 1]]
          BY <3>3, <5>1
        <5>3. QED
          BY <3>6, <4>1, <4>2, <4>4, <5>2
      <4>5. QED
        BY <4>3, <4>4
    <3>9. Upto(g, m)
      BY <3>6, <3>7, <3>8
    <3>10. QED
      BY <2>4, <3>9
  <2>7. QED
    BY <2>5, <2>6
<1>2. n \notin Bad
  BY <1>1
<1>3. PICK f : Upto(f, n)
  <2> HIDE DEF Upto
  <2>1. QED
    BY <1>2
<1>4. \A i \in 1..n : i <= n
  OBVIOUS
<1>5. QED
  BY <1>3, <1>4 DEF Iterated

\* A list of lists, put together.
LEMMA Flattened ==
  ASSUME NEW S, NEW parts \in Seq(Seq(S)), NEW ends \in [0..Len(parts) -> Nat], ends[0] = 0,
         \A i \in 1..Len(parts) : ends[i] = ends[i - 1] + Len(parts[i])
  PROVE  /\ FlattenSeq(parts) \in Seq(S) /\ Len(FlattenSeq(parts)) = ends[Len(parts)]
         /\ \A i \in 1..Len(parts) : \A j \in 1..Len(parts[i]) :
              FlattenSeq(parts)[ends[i - 1] + j] = parts[i][j]
<1> DEFINE n == Len(parts)
           T == Seq(S)
           step == [i \in 1..n |-> [x \in T |-> x \o parts[i]]]
           F == CHOOSE g : g = [i \in 1..n |-> IF i = 1 THEN parts[i] ELSE g[i - 1] \o parts[i]]
<1>1. n \in Nat /\ parts \in [1..n -> T] /\ <<>> \in T /\ \A i \in 1..n : parts[i] \in T
  OBVIOUS
<1>2. step \in [1..n -> [T -> T]]
  <2>1. \A i \in 1..n : \A x \in T : x \o parts[i] \in T
    BY <1>1, ConcatProperties
  <2>2. QED
    BY <2>1
<1>3. \A i \in 1..n : \A x \in T : step[i][x] = x \o parts[i]
  OBVIOUS
<1> HIDE DEF n, step
<1>4. PICK f \in [0..n -> T] : f[0] = <<>> /\ \A i \in 1..n : f[i] = step[i][f[i - 1]]
  <2>1. n \in Nat /\ <<>> \in T
    BY <1>1
  <2> HIDE DEF T, F
  <2>2. Iterated(n, T, <<>>, step)
    BY <2>1, <1>2, Iterates
  <2>3. QED
    BY <2>2 DEF Iterated
<1>5. \A i \in 1..n : f[i] = f[i - 1] \o parts[i] /\ i - 1 \in 0..n
  <2> TAKE i \in 1..n
  <2>1. i - 1 \in 0..n
    BY <1>1
  <2> HIDE DEF T
  <2>2. QED
    BY <1>3, <1>4, <2>1
<1> DEFINE Good(i) ==
             /\ Len(f[i]) = ends[i]
             /\ \A k \in 1..i : \A j \in 1..Len(parts[k]) :
                  ends[k - 1] + j \in 1..ends[i] /\ f[i][ends[k - 1] + j] = parts[k][j]
           Bad == {i \in Nat : i <= n /\ ~Good(i)}
<1>6. Bad = {}
  <2>1. SUFFICES ASSUME Bad # {} PROVE FALSE
    OBVIOUS
  <2>2. Bad \subseteq Nat
    OBVIOUS
  <2>3. PICK m \in Bad : \A k \in Bad : m <= k
    BY <2>1, <2>2, LeastNat
  <2>4. m \in 0..n /\ ~Good(m) /\ m \in Nat
    BY <1>1, <2>3
  <2>5. m # 0
    <3>1. Good(0)
      BY <1>4
    <3>2. QED
      BY <2>4, <3>1
  <2>6. m - 1 \in Nat /\ m - 1 <= n /\ ~(m <= m - 1) /\ m \in 1..n /\ m - 1 \in 0..n
    BY <1>1, <2>4, <2>5
  <2>7. Good(m - 1)
    BY <2>3, <2>6
  <2> DEFINE x == f[m - 1]
             y == parts[m]
  <2>8. x \in T /\ y \in T
    <3> HIDE DEF T
    <3>1. QED
      BY <1>1, <1>4, <2>6
  <2>9. x \in Seq(S) /\ y \in Seq(S) /\ Len(y) \in Nat
    BY <2>8
  <2>10. f[m] = x \o y
    BY <1>5, <2>6
  <2>11. Len(x) = ends[m - 1]
    BY <2>7
  <2>12. ends[m] = ends[m - 1] + Len(y) /\ ends[m - 1] \in Nat
    BY <2>6 DEF n
  <2> HIDE DEF x, y
  <2>13. x \in Seq(S) /\ y \in Seq(S) /\ f[m] = x \o y /\ Len(x) = ends[m - 1]
         /\ ends[m] = ends[m - 1] + Len(y) /\ Len(y) \in Nat /\ ends[m - 1] \in Nat
    BY <2>9, <2>10, <2>11, <2>12
  <2>14. /\ Len(f[m]) = ends[m]
         /\ \A i \in 1..Len(x) : f[m][i] = x[i]
         /\ \A i \in 1..Len(y) : f[m][Len(x) + i] = y[i]
    <3>1. /\ Len(x \o y) = Len(x) + Len(y)
          /\ \A i \in 1..Len(x) : (x \o y)[i] = x[i]
          /\ \A i \in 1..Len(y) : (x \o y)[Len(x) + i] = y[i]
      BY <2>9, ConcatProperties
    <3>2. QED
      BY <3>1, <2>13
  <2>15. ASSUME NEW k \in 1..m, NEW j \in 1..Len(parts[k])
         PROVE  ends[k - 1] + j \in 1..ends[m] /\ f[m][ends[k - 1] + j] = parts[k][j]
    <3>1. CASE k = m
      <4>1. j \in 1..Len(y)
        BY <2>15, <3>1 DEF y
      <4>2. ends[k - 1] + j = Len(x) + j /\ Len(x) + j \in 1..ends[m]
        <5> DEFINE lx == Len(x)
                   ly == Len(y)
        <5>1. lx \in Nat /\ ly \in Nat /\ j \in 1..ly /\ ends[m] = lx + ly /\ ends[k - 1] = lx
          BY <2>13, <3>1, <4>1
        <5> HIDE DEF lx, ly
        <5>2. QED
          BY <5>1 DEF lx
      <4>3. QED
        BY <2>14, <3>1, <4>1, <4>2 DEF y
    <3>2. CASE k # m
      <4>1. k \in 1..m - 1
        BY <2>4, <3>2
      <4>2. ends[k - 1] + j \in 1..ends[m - 1] /\ x[ends[k - 1] + j] = parts[k][j]
        BY <2>7, <4>1 DEF x
      <4>3. ends[k - 1] + j \in 1..Len(x) /\ ends[k - 1] + j \in 1..ends[m]
        <5> DEFINE lx == Len(x)
                   ly == Len(y)
                   o == ends[k - 1] + j
        <5>1. lx \in Nat /\ ly \in Nat /\ ends[m] = lx + ly /\ o \in 1..lx
          BY <2>13, <4>2
        <5> HIDE DEF lx, ly, o
        <5>2. o \in 1..lx /\ o \in 1..ends[m]
          BY <5>1
        <5>3. QED
          BY <5>2 DEF lx, o
      <4>4. QED
        BY <2>14, <4>2, <4>3
    <3>3. QED
      BY <3>1, <3>2
  <2>16. Good(m)
    BY <2>14, <2>15
  <2>17. QED
    BY <2>4, <2>16
<1>7. Good(n)
  <2>1. n \in Nat /\ n <= n
    BY <1>1
  <2> HIDE DEF Good
  <2>2. n \notin Bad
    BY <1>6
  <2>3. QED
    BY <2>1, <2>2
<1>8. FlattenSeq(parts) = f[n]
  <2>1. CASE n = 0
    <3>1. parts = <<>>
      BY <1>1, <2>1
    <3>2. QED
      BY <1>4, <2>1, <3>1 DEF FlattenSeq, n
  <2>2. CASE n # 0
    <3> DEFINE h == [i \in 1..n |-> f[i]]
    <3>1. \A i \in 1..n : i # 1 => i - 1 \in 1..n
      BY <1>1
    <3>2. 1 \in 1..n /\ f[1] = parts[1]
      <4>1. 1 \in 1..n
        BY <1>1, <2>2
      <4>2. f[1] = f[0] \o parts[1]
        <5>1. 1 - 1 = 0
          OBVIOUS
        <5>2. QED
          BY <1>5, <4>1, <5>1
      <4>3. <<>> \o parts[1] = parts[1]
        BY <1>1, <4>1, ConcatEmptySeq
      <4>4. QED
        BY <1>4, <4>1, <4>2, <4>3
    <3>3. h = [i \in 1..n |-> IF i = 1 THEN parts[i] ELSE h[i - 1] \o parts[i]]
      <4>1. \A i \in 1..n : f[i] = IF i = 1 THEN parts[i] ELSE h[i - 1] \o parts[i]
        BY <1>5, <3>1, <3>2
      <4>2. QED
        BY <4>1
    <3> HIDE DEF h
    <3>4. F = [i \in 1..n |-> IF i = 1 THEN parts[i] ELSE F[i - 1] \o parts[i]]
      BY <3>3
    <3>5. FlattenSeq(parts) = F[n]
      BY <2>2 DEF FlattenSeq, n
    <3> HIDE DEF F
    <3> DEFINE Off == {i \in Nat : i >= 1 /\ i <= n /\ F[i] # f[i]}
    <3>6. Off = {}
      <4>1. SUFFICES ASSUME Off # {} PROVE FALSE
        OBVIOUS
      <4>2. Off \subseteq Nat
        OBVIOUS
      <4>3. PICK m \in Off : \A k \in Off : m <= k
        BY <4>1, <4>2, LeastNat
      <4>4. m \in 1..n /\ F[m] # f[m] /\ m \in Nat
        BY <1>1, <4>3
      <4>5. m # 1
        BY <3>2, <3>4, <4>4
      <4>6. m - 1 \in Nat /\ m - 1 >= 1 /\ m - 1 <= n /\ ~(m <= m - 1)
        BY <1>1, <4>4, <4>5
      <4>7. F[m - 1] = f[m - 1]
        BY <4>3, <4>6
      <4>8. QED
        BY <1>5, <3>4, <4>4, <4>5, <4>7
    <3>7. n \in Nat /\ n >= 1 /\ n <= n
      BY <1>1, <2>2
    <3>8. F[n] = f[n]
      BY <3>6, <3>7
    <3>9. QED
      BY <3>5, <3>8
  <2>3. QED
    BY <2>1, <2>2
<1>9. n \in 0..n
  BY <1>1
<1>10. QED
  BY <1>4, <1>7, <1>8, <1>9 DEF n
=============================================================================
