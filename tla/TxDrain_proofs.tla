-------------------------- MODULE TxDrain_proofs --------------------------
(***************************************************************************)
(* Lemmas about the loops that empty a ring into a slot and about the      *)
(* rings, for the proofs about the server and the client: the time on air  *)
(* of packets, and what adding to a ring and putting back into it keep.    *)
(***************************************************************************)
EXTENDS TxDrain, Integers, TLAPS, WellFoundedInduction
-----------------------------------------------------------------------------
(* Induction over numbers, for a set instead of a formula.                 *)
LEMMA LeastNumber ==
  ASSUME NEW S, S \subseteq Nat, S # {}
  PROVE  \E n \in S : \A m \in S : n <= m
  <1>1. PICK n \in S : \A m \in S : ~ (<<m, n>> \in OpToRel(<, Nat))
    BY NatLessThanWellFounded, WFMin, Zenon
  <1>2. \A m \in S : ~ (m < n)
    BY <1>1 DEF OpToRel
  <1> QED BY <1>2

LEMMA NatInductionSet ==
  ASSUME NEW S, 0 \in S, \A n \in Nat : n \in S => n + 1 \in S
  PROVE  \A n \in Nat : n \in S
  <1> SUFFICES ASSUME Nat \ S # {} PROVE FALSE
    OBVIOUS
  <1>1. PICK n \in Nat \ S : \A m \in Nat \ S : n <= m
    BY LeastNumber
  <1>2. n # 0 /\ n - 1 \in Nat /\ n - 1 \in S
    BY <1>1
  <1> QED BY <1>2

LEMMA SumExists ==
  ASSUME NEW cost, NEW n \in Nat
  PROVE  \E f : f = [k \in 0 .. n |-> IF k = 0 THEN 0 ELSE f[k - 1] + cost[k]]
  <1> DEFINE IsSum(f, m) ==
        f = [k \in 0 .. m |-> IF k = 0 THEN 0 ELSE f[k - 1] + cost[k]]
             Has == {m \in Nat : \E f : IsSum(f, m)}
  <1>1. 0 \in Has
    <2>1. IsSum([k \in 0 .. 0 |-> 0], 0)
      OBVIOUS
    <2> QED BY <2>1
  <1>2. ASSUME NEW m \in Nat, m \in Has PROVE m + 1 \in Has
    <2>1. PICK f : IsSum(f, m)
      BY <1>2
    <2> DEFINE g == [k \in 0 .. m + 1 |-> IF k = m + 1 THEN f[m] + cost[m + 1] ELSE f[k]]
    <2>2. ASSUME NEW k \in 0 .. m + 1
          PROVE  g[k] = IF k = 0 THEN 0 ELSE g[k - 1] + cost[k]
      <3>1. CASE k = m + 1
        <4>1. m \in 0 .. m + 1 /\ m # m + 1 /\ k - 1 = m /\ k # 0
          BY <3>1
        <4> QED BY <3>1, <4>1
      <3>2. CASE k = 0
        BY <2>1, <3>2
      <3>3. CASE k # 0 /\ k # m + 1
        <4>1. k - 1 \in 0 .. m /\ k \in 0 .. m /\ k - 1 \in 0 .. m + 1 /\ k - 1 # m + 1
          BY <3>3
        <4>2. f[k] = f[k - 1] + cost[k]
          BY <2>1, <3>3, <4>1
        <4> QED BY <3>3, <4>1, <4>2
      <3> QED BY <3>1, <3>2, <3>3
    <2>3. IsSum(g, m + 1)
      BY <2>2
    <2>4. m + 1 \in Nat
      OBVIOUS
    <2> HIDE DEF g, IsSum
    <2> QED BY <2>3, <2>4
  <1> HIDE DEF Has
  <1>3. n \in Has
    BY <1>1, <1>2, NatInductionSet
  <1> QED BY <1>3 DEF Has

LEMMA SumUnique ==
  ASSUME NEW cost, NEW n \in Nat, NEW f, NEW g,
         f[0] = 0, \A k \in 1 .. n : f[k] = f[k - 1] + cost[k],
         g[0] = 0, \A k \in 1 .. n : g[k] = g[k - 1] + cost[k]
  PROVE  f[n] = g[n]
  <1> DEFINE Same == {m \in Nat : m <= n => f[m] = g[m]}
  <1>1. 0 \in Same
    OBVIOUS
  <1>2. ASSUME NEW m \in Nat, m \in Same PROVE m + 1 \in Same
    <2> SUFFICES ASSUME m + 1 <= n PROVE f[m + 1] = g[m + 1]
      OBVIOUS
    <2>1. f[m] = g[m]
      BY <1>2
    <2>2. m + 1 \in 1 .. n /\ (m + 1) - 1 = m
      OBVIOUS
    <2> QED BY <2>1, <2>2
  <1> HIDE DEF Same
  <1>3. n \in Same
    BY <1>1, <1>2, NatInductionSet
  <1> QED BY <1>3 DEF Same

\* The recursive function in AirTime is what its equations say.
LEMMA AirTimeSum ==
  ASSUME NEW len, NEW n \in Nat
  PROVE  \E f : /\ AirTime(len, n) = f[n]
                /\ f[0] = 0
                /\ \A k \in 1 .. n : f[k] = f[k - 1] + TxTime(len[k])
  <1> DEFINE Eq(f) ==
        f = [k \in 0 .. n |-> IF k = 0 THEN 0 ELSE f[k - 1] + TxTime(len[k])]
             f == CHOOSE time : Eq(time)
             cost == [k \in 1 .. n |-> TxTime(len[k])]
  <1>1. AirTime(len, n) = f[n]
    BY DEF AirTime
  <1>2. Eq(f)
    <2>1. PICK g : g = [k \in 0 .. n |-> IF k = 0 THEN 0 ELSE g[k - 1] + cost[k]]
      <3> HIDE DEF cost
      <3> QED BY SumExists
    <2>2. \A k \in 0 .. n : k # 0 => cost[k] = TxTime(len[k])
      OBVIOUS
    <2> HIDE DEF cost
    <2>3. Eq(g)
      BY <2>1, <2>2
    <2> QED BY <2>3
  <1> HIDE DEF f
  <1>3. \A k \in 0 .. n : f[k] = IF k = 0 THEN 0 ELSE f[k - 1] + TxTime(len[k])
    BY <1>2
  <1>4. f[0] = 0 /\ \A k \in 1 .. n : f[k] = f[k - 1] + TxTime(len[k])
    BY <1>3
  <1> QED BY <1>1, <1>4

LEMMA AirTimeStep ==
  ASSUME NEW len, NEW n \in Nat
  PROVE  /\ AirTime(len, 0) = 0
         /\ AirTime(len, n + 1) = AirTime(len, n) + TxTime(len[n + 1])
  <1> DEFINE cost == [k \in 1 .. n + 1 |-> TxTime(len[k])]
  <1>1. PICK f : /\ AirTime(len, n) = f[n]
                 /\ f[0] = 0
                 /\ \A k \in 1 .. n : f[k] = f[k - 1] + TxTime(len[k])
    BY AirTimeSum
  <1>2. PICK g : /\ AirTime(len, n + 1) = g[n + 1]
                 /\ g[0] = 0
                 /\ \A k \in 1 .. n + 1 : g[k] = g[k - 1] + TxTime(len[k])
    <2> HIDE DEF cost
    <2>1. n + 1 \in Nat
      OBVIOUS
    <2> QED BY <2>1, AirTimeSum
  <1>3. \A k \in 1 .. n : /\ f[k] = f[k - 1] + cost[k]
                          /\ g[k] = g[k - 1] + cost[k]
    BY <1>1, <1>2
  <1> HIDE DEF cost
  <1>4. f[n] = g[n]
    BY <1>1, <1>2, <1>3, SumUnique
  <1>5. g[n + 1] = g[n] + TxTime(len[n + 1])
    BY <1>2
  <1>6. AirTime(len, 0) = 0
    <2>1. PICK h : AirTime(len, 0) = h[0] /\ h[0] = 0
      BY AirTimeSum
    <2> QED BY <2>1
  <1> QED BY <1>1, <1>2, <1>4, <1>5, <1>6

\* The time of some packets does not depend on the others.
LEMMA AirTimeSame ==
  ASSUME NEW len, NEW other, NEW n \in Nat,
         \A k \in 1 .. n : len[k] = other[k]
  PROVE  AirTime(len, n) = AirTime(other, n)
  <1> DEFINE Same == {m \in Nat : m <= n => AirTime(len, m) = AirTime(other, m)}
  <1>1. 0 \in Same
    BY AirTimeStep
  <1>2. ASSUME NEW m \in Nat, m \in Same PROVE m + 1 \in Same
    <2> SUFFICES ASSUME m + 1 <= n
                 PROVE  AirTime(len, m + 1) = AirTime(other, m + 1)
      OBVIOUS
    <2>1. AirTime(len, m) = AirTime(other, m) /\ len[m + 1] = other[m + 1]
      BY <1>2
    <2> QED BY <2>1, AirTimeStep
  <1> HIDE DEF Same
  <1>3. n \in Same
    BY <1>1, <1>2, NatInductionSet
  <1> QED BY <1>3 DEF Same

LEMMA TxTimeNat ==
  ASSUME NEW bytes \in Nat
  PROVE  TxTime(bytes) \in Nat /\ TxTime(bytes) > 0
  BY ByteUsAssumption DEF ByteUsAssumption, TxTime, RADIO_TX_RAMP_UP_TIME

LEMMA AirTimeNat ==
  ASSUME NEW len, NEW n \in Nat, \A k \in 1 .. n : len[k] \in Nat
  PROVE  AirTime(len, n) \in Nat
  <1> DEFINE Typed == {m \in Nat : m <= n => AirTime(len, m) \in Nat}
  <1>1. 0 \in Typed
    BY AirTimeStep
  <1>2. ASSUME NEW m \in Nat, m \in Typed PROVE m + 1 \in Typed
    <2> SUFFICES ASSUME m + 1 <= n PROVE AirTime(len, m + 1) \in Nat
      OBVIOUS
    <2>1. AirTime(len, m) \in Nat /\ len[m + 1] \in Nat
      BY <1>2
    <2>2. TxTime(len[m + 1]) \in Nat
      BY <2>1, TxTimeNat
    <2> QED BY <2>1, <2>2, AirTimeStep
  <1> HIDE DEF Typed
  <1>3. n \in Typed
    BY <1>1, <1>2, NatInductionSet
  <1> QED BY <1>3 DEF Typed

\* Packets of one length, and packets of no more than a length.
LEMMA AirTimeEqual ==
  ASSUME NEW len, NEW n \in Nat, NEW b \in Nat, \A k \in 1 .. n : len[k] = b
  PROVE  AirTime(len, n) = n * TxTime(b)
  <1> DEFINE Equal == {m \in Nat : m <= n => AirTime(len, m) = m * TxTime(b)}
  <1>0. TxTime(b) \in Nat
    BY TxTimeNat
  <1>1. 0 \in Equal
    BY <1>0, AirTimeStep
  <1>2. ASSUME NEW m \in Nat, m \in Equal PROVE m + 1 \in Equal
    <2> SUFFICES ASSUME m + 1 <= n PROVE AirTime(len, m + 1) = (m + 1) * TxTime(b)
      OBVIOUS
    <2>1. AirTime(len, m) = m * TxTime(b) /\ len[m + 1] = b
      BY <1>2
    <2>2. (m + 1) * TxTime(b) = m * TxTime(b) + TxTime(b)
      BY <1>0
    <2> QED BY <2>1, <2>2, AirTimeStep
  <1> HIDE DEF Equal
  <1>3. n \in Equal
    BY <1>1, <1>2, NatInductionSet
  <1> QED BY <1>3 DEF Equal

LEMMA AirTimeBound ==
  ASSUME NEW len, NEW n \in Nat, NEW b \in Nat, \A k \in 1 .. n : len[k] \in 0 .. b
  PROVE  AirTime(len, n) \in Nat /\ AirTime(len, n) <= n * TxTime(b)
  <1> DEFINE Below == {m \in Nat : m <= n =>
                         AirTime(len, m) \in Nat /\ AirTime(len, m) <= m * TxTime(b)}
  <1>0. TxTime(b) \in Nat
    BY TxTimeNat
  <1>1. 0 \in Below
    BY <1>0, AirTimeStep
  <1>2. ASSUME NEW m \in Nat, m \in Below PROVE m + 1 \in Below
    <2> SUFFICES ASSUME m + 1 <= n
                 PROVE  /\ AirTime(len, m + 1) \in Nat
                        /\ AirTime(len, m + 1) <= (m + 1) * TxTime(b)
      OBVIOUS
    <2>1. /\ AirTime(len, m) \in Nat /\ AirTime(len, m) <= m * TxTime(b)
          /\ len[m + 1] \in 0 .. b
      BY <1>2
    <2>2. (m + 1) * TxTime(b) = m * TxTime(b) + TxTime(b) /\ m * TxTime(b) \in Nat
      BY <1>0
    <2>3. TxTime(len[m + 1]) \in Nat /\ TxTime(len[m + 1]) <= TxTime(b)
      <3>1. PICK x \in 0 .. b : x = len[m + 1]
        BY <2>1
      <3> QED BY <3>1, ByteUsAssumption
              DEF ByteUsAssumption, TxTime, RADIO_TX_RAMP_UP_TIME
    <2>4. AirTime(len, m + 1) = AirTime(len, m) + TxTime(len[m + 1])
      BY AirTimeStep
    <2> QED BY <1>0, <2>1, <2>2, <2>3, <2>4
  <1> HIDE DEF Below
  <1>3. n \in Below
    BY <1>1, <1>2, NatInductionSet
  <1> QED BY <1>3 DEF Below

\* The lengths b of n packets that follow i others.
Lengths(len, i) == \A k \in 1 .. i : len[k] \in Nat
Follow(len, i, b, n) == \A k \in 1 .. n : len[i + k] = b[k] /\ b[k] \in Nat

LEMMA AirTimeAfter ==
  ASSUME NEW len, NEW b, NEW i \in Nat, NEW n \in Nat,
         Lengths(len, i), Follow(len, i, b, n)
  PROVE  AirTime(len, i + n) = AirTime(len, i) + AirTime(b, n)
  <1> DEFINE After == {m \in Nat : m <= n =>
                         AirTime(len, i + m) = AirTime(len, i) + AirTime(b, m)}
  <1>0. AirTime(len, i) \in Nat
    BY AirTimeNat DEF Lengths
  <1>1. 0 \in After
    BY <1>0, AirTimeStep
  <1>2. ASSUME NEW m \in Nat, m \in After PROVE m + 1 \in After
    <2> SUFFICES ASSUME m + 1 <= n
                 PROVE  AirTime(len, i + (m + 1)) = AirTime(len, i) + AirTime(b, m + 1)
      OBVIOUS
    <2>1. AirTime(len, i + m) = AirTime(len, i) + AirTime(b, m)
      BY <1>2
    <2>2. len[(i + m) + 1] = b[m + 1] /\ b[m + 1] \in Nat
      BY DEF Follow
    <2>7. \A k \in 1 .. m : b[k] \in Nat
      BY DEF Follow
    <2>3. AirTime(b, m) \in Nat /\ TxTime(b[m + 1]) \in Nat
      BY <2>2, <2>7, AirTimeNat, TxTimeNat
    <2>4. AirTime(len, (i + m) + 1) = AirTime(len, i + m) + TxTime(len[(i + m) + 1])
      <3>1. i + m \in Nat
        OBVIOUS
      <3> QED BY <3>1, AirTimeStep
    <2>5. AirTime(b, m + 1) = AirTime(b, m) + TxTime(b[m + 1])
      BY AirTimeStep
    <2>6. (i + m) + 1 = i + (m + 1)
      OBVIOUS
    <2> QED BY <1>0, <2>1, <2>2, <2>3, <2>4, <2>5, <2>6
  <1> HIDE DEF After
  <1>3. n \in After
    BY <1>1, <1>2, NatInductionSet
  <1> QED BY <1>3 DEF After

\* More packets take longer.
LEMMA AirTimeGrows ==
  ASSUME NEW len, NEW i \in Nat, NEW n \in Nat, \A k \in 1 .. i + n : len[k] \in Nat
  PROVE  /\ AirTime(len, i) \in Nat /\ AirTime(len, i + n) \in Nat
         /\ AirTime(len, i) <= AirTime(len, i + n)
  <1> DEFINE b == [k \in 1 .. n |-> len[i + k]]
  <1>1. \A k \in 1 .. n : len[i + k] = b[k] /\ b[k] \in Nat
    OBVIOUS
  <1> HIDE DEF b
  <1>2. AirTime(len, i) \in Nat /\ AirTime(b, n) \in Nat
    <2>1. \A k \in 1 .. i : len[k] \in Nat
      OBVIOUS
    <2> QED BY <1>1, <2>1, AirTimeNat
  <1>3. AirTime(len, i + n) = AirTime(len, i) + AirTime(b, n)
    <2>1. Lengths(len, i) /\ Follow(len, i, b, n)
      BY <1>1 DEF Lengths, Follow
    <2> QED BY <2>1, AirTimeAfter
  <1> QED BY <1>2, <1>3

-----------------------------------------------------------------------------
(* The rings. *)

LEMMA PutIntoType ==
  ASSUME NEW S, NEW q \in Seq(S), NEW x \in S,
         NEW size \in Nat \ {0}, Len(q) <= size
  PROVE  /\ PutInto(q, x, size) \in Seq(S)
         /\ Len(PutInto(q, x, size)) <= size
         /\ Waiting(PutInto(q, x, size)) \subseteq Waiting(q) \cup {x}
  <1>1. CASE Len(q) < size
    <2>1. PutInto(q, x, size) = Append(q, x)
      BY <1>1 DEF PutInto
    <2> QED BY <1>1, <2>1 DEF Waiting
  <1>2. CASE Len(q) = size
    <2>1. PutInto(q, x, size) = Append(Tail(q), x)
      BY <1>2 DEF PutInto
    <2>2. q # <<>>
      BY <1>2
    <2>3. Tail(q) \in Seq(S) /\ Len(Tail(q)) = Len(q) - 1
      BY <2>2
    <2>4. \A k \in 1 .. Len(q) - 1 : Tail(q)[k] = q[k + 1]
      BY <2>2
    <2> QED BY <1>2, <2>1, <2>3, <2>4 DEF Waiting
  <1> QED BY <1>1, <1>2

LEMMA PutBackType ==
  ASSUME NEW S, NEW q \in Seq(S), NEW n \in 0 .. Len(q)
  PROVE  /\ PutBack(q, n) \in Seq(S)
         /\ Len(PutBack(q, n)) <= Len(q)
         /\ Waiting(PutBack(q, n)) \subseteq Waiting(q)
  <1>1. CASE n = Len(q)
    BY <1>1 DEF PutBack, Waiting
  <1>2. CASE n # Len(q)
    <2> DEFINE rest == SubSeq(q, n + 2, Len(q))
    <2>1. PutBack(q, n) = Append(rest, q[n + 1])
      BY <1>2 DEF PutBack
    <2>2. /\ rest \in Seq(S)
          /\ Len(rest) = Len(q) - n - 1
          /\ \A k \in 1 .. Len(rest) : rest[k] = q[k + n + 1]
      BY <1>2
    <2>3. n + 1 \in 1 .. Len(q) /\ q[n + 1] \in S
      BY <1>2
    <2> HIDE DEF rest
    <2> DEFINE left == Append(rest, q[n + 1])
    <2>4. left \in Seq(S) /\ Len(left) = Len(q) - n
      BY <2>2, <2>3
    <2>5. ASSUME NEW k \in 1 .. Len(left)
          PROVE  \E j \in 1 .. Len(q) : left[k] = q[j]
      <3>1. CASE k = Len(left)
        <4>1. left[k] = q[n + 1]
          BY <3>1, <2>2, <2>3
        <4> QED BY <4>1, <2>3
      <3>2. CASE k # Len(left)
        <4>1. k \in 1 .. Len(rest)
          BY <3>2, <2>2, <2>4
        <4>2. left[k] = rest[k]
          BY <4>1, <2>2, <2>3
        <4>3. k + n + 1 \in 1 .. Len(q)
          BY <4>1, <2>2
        <4> QED BY <4>1, <4>2, <4>3, <2>2
      <3> QED BY <3>1, <3>2
    <2> HIDE DEF left
    <2>6. PutBack(q, n) = left
      BY <2>1 DEF left
    <2> QED BY <2>4, <2>5, <2>6 DEF Waiting
  <1> QED BY <1>1, <1>2

\* No element is in the ring twice.
NoRepeats(q) == \A i, j \in 1 .. Len(q) : q[i] = q[j] => i = j

\* Adding an element that is not there, to a ring that has room.
LEMMA AppendNew ==
  ASSUME NEW S, NEW q \in Seq(S), NEW x \in S, NoRepeats(q), x \notin Waiting(q)
  PROVE  /\ NoRepeats(Append(q, x))
         /\ Waiting(q) \subseteq Waiting(Append(q, x))
  <1>1. \A k \in 1 .. Len(q) : q[k] # x
    BY DEF Waiting
  <1>2. /\ Len(Append(q, x)) = Len(q) + 1
        /\ Append(q, x)[Len(q) + 1] = x
        /\ \A k \in 1 .. Len(q) : Append(q, x)[k] = q[k]
    OBVIOUS
  <1>3. \A k \in 1 .. Len(q) + 1 : k = Len(q) + 1 \/ k \in 1 .. Len(q)
    OBVIOUS
  <1>4. Len(q) \in Nat
    OBVIOUS
  <1>5. Waiting(q) \subseteq Waiting(Append(q, x))
    BY <1>2, <1>4 DEF Waiting
  <1> DEFINE after == Append(q, x)
  <1> HIDE DEF after
  <1>6. NoRepeats(after)
    BY <1>1, <1>2, <1>3, <1>4 DEF NoRepeats, after
  <1> QED BY <1>5, <1>6 DEF after

\* Cell by cell: where the elements that were not sent go.
LEMMA PutBackCells ==
  ASSUME NEW S, NEW q \in Seq(S), NEW n \in 0 .. Len(q)
  PROVE  /\ Len(PutBack(q, n)) = Len(q) - n
         /\ \A k \in 1 .. Len(q) - n :
              PutBack(q, n)[k] = IF k = Len(q) - n THEN q[n + 1] ELSE q[k + n + 1]
  <1>1. CASE n = Len(q)
    BY <1>1 DEF PutBack
  <1>2. CASE n # Len(q)
    <2> DEFINE rest == SubSeq(q, n + 2, Len(q))
    <2>1. PutBack(q, n) = Append(rest, q[n + 1])
      BY <1>2 DEF PutBack
    <2>2. /\ rest \in Seq(S)
          /\ Len(rest) = Len(q) - n - 1
          /\ \A k \in 1 .. Len(rest) : rest[k] = q[k + n + 1]
      BY <1>2
    <2>3. q[n + 1] \in S /\ Len(q) \in Nat
      BY <1>2
    <2> HIDE DEF rest
    <2> DEFINE left == Append(rest, q[n + 1])
    <2>4. /\ Len(left) = Len(rest) + 1
          /\ left[Len(rest) + 1] = q[n + 1]
          /\ \A k \in 1 .. Len(rest) : left[k] = rest[k]
      BY <2>2, <2>3
    <2> HIDE DEF left
    <2>5. ASSUME NEW k \in 1 .. Len(q) - n
          PROVE  left[k] = IF k = Len(q) - n THEN q[n + 1] ELSE q[k + n + 1]
      <3>1. CASE k = Len(q) - n
        BY <2>2, <2>3, <2>4, <3>1
      <3>2. CASE k # Len(q) - n
        <4>1. k \in 1 .. Len(rest)
          BY <2>2, <2>3, <3>2
        <4> QED BY <2>2, <2>4, <3>2, <4>1
      <3> QED BY <3>1, <3>2
    <2>6. Len(left) = Len(q) - n
      BY <2>2, <2>3, <2>4
    <2> QED BY <2>1, <2>5, <2>6 DEF left
  <1> QED BY <1>1, <1>2

LEMMA PutBackKeeps ==
  ASSUME NEW S, NEW q \in Seq(S), NEW n \in 0 .. Len(q), NoRepeats(q)
  PROVE  /\ NoRepeats(PutBack(q, n))
         /\ \A k \in n + 1 .. Len(q) : q[k] \in Waiting(PutBack(q, n))
  <1> DEFINE left == PutBack(q, n)
  <1>1. /\ Len(left) = Len(q) - n
        /\ \A k \in 1 .. Len(q) - n :
             left[k] = IF k = Len(q) - n THEN q[n + 1] ELSE q[k + n + 1]
    BY PutBackCells
  <1> HIDE DEF left
  <1>2. ASSUME NEW i \in 1 .. Len(left), NEW j \in 1 .. Len(left),
               left[i] = left[j]
        PROVE  i = j
    <2> DEFINE from(k) == IF k = Len(q) - n THEN n + 1 ELSE k + n + 1
    <2>0. ASSUME NEW k \in 1 .. Len(left)
          PROVE  from(k) \in 1 .. Len(q) /\ left[k] = q[from(k)]
      <3>1. k \in 1 .. Len(q) - n
        BY <1>1
      <3>2. left[k] = q[from(k)]
        BY <1>1, <3>1
      <3>3. from(k) \in 1 .. Len(q)
        BY <3>1
      <3> QED BY <3>2, <3>3
    <2>1. /\ from(i) \in 1 .. Len(q) /\ left[i] = q[from(i)]
          /\ from(j) \in 1 .. Len(q) /\ left[j] = q[from(j)]
      BY <2>0, Zenon
    <2>2. from(i) = from(j)
      BY <1>2, <2>1 DEF NoRepeats
    <2> QED BY <1>1, <2>2
  <1>3. ASSUME NEW k \in n + 1 .. Len(q)
        PROVE  q[k] \in Waiting(left)
    <2>1. CASE k = n + 1
      <3>1. Len(q) - n \in 1 .. Len(left) /\ left[Len(q) - n] = q[k]
        BY <1>1, <2>1
      <3> QED BY <3>1 DEF Waiting
    <2>2. CASE k # n + 1
      <3>1. k - n - 1 \in 1 .. Len(left) /\ left[k - n - 1] = q[k]
        BY <1>1, <2>2
      <3> QED BY <3>1 DEF Waiting
    <2> QED BY <2>1, <2>2
  <1> QED BY <1>2, <1>3 DEF left, NoRepeats

LEMMA ConcatCells ==
  ASSUME NEW S, NEW a \in Seq(S), NEW b \in Seq(S), NEW q, q = a \o b
  PROVE  /\ q \in Seq(S)
         /\ Len(q) = Len(a) + Len(b)
         /\ \A k \in 1 .. Len(a) : q[k] = a[k]
         /\ \A k \in 1 .. Len(b) : q[Len(a) + k] = b[k]
  <1>1. a \o b \in Seq(S) /\ Len(a \o b) = Len(a) + Len(b)
    OBVIOUS
  <1>2. \A k \in 1 .. Len(a) : (a \o b)[k] = a[k]
    OBVIOUS
  <1>3. \A k \in 1 .. Len(b) : (a \o b)[Len(a) + k] = b[k]
    OBVIOUS
  <1> QED BY <1>1, <1>2, <1>3, Zenon

\* Three sequences joined: where the cells of each are.
Joined(a, b, c) == a \o b \o c
JoinedAt(q, a, b, c) ==
  /\ Len(q) = Len(a) + Len(b) + Len(c)
  /\ \A k \in 1 .. Len(a) : q[k] = a[k]
  /\ \A k \in 1 .. Len(b) : q[Len(a) + k] = b[k]
  /\ \A k \in 1 .. Len(c) : q[Len(a) + Len(b) + k] = c[k]

LEMMA JoinedCells ==
  ASSUME NEW S, NEW a \in Seq(S), NEW b \in Seq(S), NEW c \in Seq(S),
         NEW q, q = Joined(a, b, c)
  PROVE  q \in Seq(S) /\ JoinedAt(q, a, b, c)
  <1>1. PICK ab : ab = a \o b
    OBVIOUS
  <1>2. /\ ab \in Seq(S) /\ Len(ab) = Len(a) + Len(b)
        /\ \A k \in 1 .. Len(a) : ab[k] = a[k]
        /\ \A k \in 1 .. Len(b) : ab[Len(a) + k] = b[k]
    BY <1>1, ConcatCells
  <1>3. q = ab \o c
    BY <1>1 DEF Joined
  <1>10. ab \in Seq(S)
    BY <1>2
  <1>4. /\ q \in Seq(S) /\ Len(q) = Len(ab) + Len(c)
        /\ \A k \in 1 .. Len(ab) : q[k] = ab[k]
        /\ \A k \in 1 .. Len(c) : q[Len(ab) + k] = c[k]
    BY <1>3, <1>10, ConcatCells
  <1>5. /\ Len(a) \in Nat /\ Len(b) \in Nat /\ Len(c) \in Nat
    OBVIOUS
  <1>6. \A k \in 1 .. Len(a) : k \in 1 .. Len(ab)
    BY <1>2, <1>5
  <1>7. \A k \in 1 .. Len(b) : Len(a) + k \in 1 .. Len(ab)
    BY <1>2, <1>5
  <1>8. \A k \in 1 .. Len(a) : q[k] = a[k]
    BY <1>2, <1>4, <1>6
  <1>9. \A k \in 1 .. Len(b) : q[Len(a) + k] = b[k]
    BY <1>2, <1>4, <1>7
  <1> QED BY <1>2, <1>4, <1>8, <1>9 DEF JoinedAt

=============================================================================
