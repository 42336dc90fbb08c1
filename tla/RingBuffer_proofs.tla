-------------------------- MODULE RingBuffer_proofs --------------------------
(***************************************************************************)
(* The ring buffer is, for every size, the overwriting queue of Fifo.      *)
(* Everything rests on one fact about indices: a sum of two indices, taken *)
(* modulo Size, is the sum or the sum minus Size.                          *)
(***************************************************************************)
EXTENDS RingBuffer, SequenceTheorems, TLAPS

LEMMA ModLemma ==
  ASSUME NEW a \in Nat, a < 2 * Size
  PROVE  /\ a % Size = IF a < Size THEN a ELSE a - Size
         /\ a % Size \in Cells
  <1>1. CASE a < Size
    BY <1>1, SizeAssumption DEF Cells
  <1>2. CASE a >= Size
    BY <1>2, SizeAssumption DEF Cells
  <1> QED BY <1>1, <1>2, SizeAssumption

LEMMA AdvanceLemma ==
  ASSUME NEW i \in Cells
  PROVE  /\ Advance(i) \in Cells
         /\ Advance(i) = IF i + 1 < Size THEN i + 1 ELSE 0
  <1>1. i + 1 \in Nat /\ i + 1 < 2 * Size /\ i + 1 <= Size
    BY SizeAssumption DEF Cells
  <1> QED BY <1>1, ModLemma, SizeAssumption DEF Advance, Cells

LEMMA SumLemma ==
  ASSUME NEW i \in Cells, NEW k \in 0 .. Size
  PROVE  /\ (i + k) % Size \in Cells
         /\ (i + k) % Size = IF i + k < Size THEN i + k ELSE i + k - Size
  <1>1. PICK a \in Nat : a = i + k
    BY SizeAssumption DEF Cells
  <1>2. a < 2 * Size
    BY <1>1, SizeAssumption DEF Cells
  <1>3. a % Size \in Cells /\ a % Size = IF a < Size THEN a ELSE a - Size
    BY <1>2, ModLemma
  <1> QED BY <1>1, <1>3, SizeAssumption DEF Cells

(* Cell k of a ring read one cell further on is cell k + 1. *)
LEMMA ShiftLemma ==
  ASSUME NEW i \in Cells, NEW k \in 0 .. Size - 1
  PROVE  (Advance(i) + k) % Size = (i + (k + 1)) % Size
  <1>1. k \in 0 .. Size /\ k + 1 \in 0 .. Size /\ i \in Nat /\ i < Size
    BY SizeAssumption DEF Cells
  <1>2. (i + (k + 1)) % Size =
          IF i + (k + 1) < Size THEN i + (k + 1) ELSE i + (k + 1) - Size
    BY <1>1, SumLemma
  <1>3. CASE i + 1 < Size
    <2>1. Advance(i) = i + 1
      BY <1>3, AdvanceLemma
    <2>2. (i + 1) + k = i + (k + 1)
      BY <1>1
    <2> QED BY <2>1, <2>2
  <1>4. CASE i + 1 = Size
    <2>1. Advance(i) = 0
      BY <1>4, <1>1, AdvanceLemma, SizeAssumption
    <2>2. 0 \in Cells
      BY SizeAssumption DEF Cells
    <2>3. (0 + k) % Size = k
      BY <1>1, <2>2, SumLemma, SizeAssumption
    <2>4. (i + (k + 1)) % Size = k
      BY <1>1, <1>2, <1>4, SizeAssumption
    <2> QED BY <2>1, <2>3, <2>4
  <1> QED BY <1>1, <1>3, <1>4, SizeAssumption

(* Two cells less than a whole turn apart are two cells. *)
LEMMA DistinctLemma ==
  ASSUME NEW i \in Cells, NEW a \in 0 .. Size, NEW b \in 0 .. Size,
         a < b, b - a < Size
  PROVE  (i + a) % Size # (i + b) % Size
  <1>1. PICK u \in Cells :
          /\ u = (i + a) % Size
          /\ u = IF i + a < Size THEN i + a ELSE i + a - Size
    BY SumLemma
  <1>2. PICK v \in Cells :
          /\ v = (i + b) % Size
          /\ v = IF i + b < Size THEN i + b ELSE i + b - Size
    BY SumLemma
  <1>3. u # v
    BY <1>1, <1>2, SizeAssumption DEF Cells
  <1> QED BY <1>1, <1>2, <1>3

-----------------------------------------------------------------------------
(* The fields keep their ranges. *)

LEMMA EmptyRingType == EmptyRing \in Ring
  BY SizeAssumption DEF EmptyRing, Ring, Cells

LEMMA AddType ==
  ASSUME NEW r \in Ring, NEW x \in Data
  PROVE  RbAdd(r, x) \in Ring
  <1>1. Advance(r.write_index) \in Cells /\ Advance(r.read_index) \in Cells
    BY AdvanceLemma DEF Ring
  <1>2. r.count < Size => r.count + 1 \in 0 .. Size
    BY SizeAssumption DEF Ring
  <1> QED BY <1>1, <1>2 DEF RbAdd, Ring

LEMMA DropType ==
  ASSUME NEW r \in Ring, r.count # 0
  PROVE  RbDrop(r) \in Ring
  <1>1. Advance(r.read_index) \in Cells
    BY AdvanceLemma DEF Ring
  <1>2. r.count - 1 \in 0 .. Size
    BY SizeAssumption DEF Ring
  <1> QED BY <1>1, <1>2 DEF RbDrop, Ring

LEMMA ResetType == ASSUME NEW r \in Ring PROVE RbReset(r) \in Ring
  BY SizeAssumption DEF RbReset, Ring, Cells

(* The state variables of the ring keep their types whatever is called.    *)
THEOREM Typing == Spec => []TypeOK
  <1>1. Init => TypeOK
    BY EmptyRingType DEF Init, TypeOK
  <1>2. TypeOK /\ [Next]_vars => TypeOK'
    <2> SUFFICES ASSUME TypeOK, [Next]_vars PROVE TypeOK'
      OBVIOUS
    <2>1. ASSUME NEW x \in Data, Add(x) PROVE TypeOK'
      BY <2>1, AddType DEF TypeOK, Add
    <2>2. CASE Get
      <3>1. rb.count # 0 => RbDrop(rb) \in Ring
        BY DropType DEF TypeOK
      <3>2. RbOldest(rb) \in Data \cup {NoData}
        BY DEF TypeOK, Ring, RbOldest
      <3> QED BY <2>2, <3>1, <3>2 DEF Get, TypeOK
    <2>3. CASE Reset
      BY <2>3, ResetType DEF TypeOK, Reset
    <2>4. CASE UNCHANGED vars
      BY <2>4 DEF TypeOK, vars
    <2> QED BY <2>1, <2>2, <2>3, <2>4 DEF Next
  <1> QED BY <1>1, <1>2, PTL DEF Spec

-----------------------------------------------------------------------------
(* The indices and the count tell the same story. *)

IndexInvOf(r) ==
  /\ r.write_index = (r.read_index + r.count) % Size
  /\ \A k \in 0 .. r.count - 1 :
        r.buffer[(r.read_index + k) % Size] \in Data

(* The write index moves with the count, or with the read index of a full  *)
(* ring.                                                                   *)
LEMMA WriteMoves ==
  ASSUME NEW n \in Nat \ {0}, NEW i \in 0 .. n - 1, NEW c \in 0 .. n,
         NEW w, NEW w2, NEW i2,
         w = IF i + c < n THEN i + c ELSE i + c - n,
         w2 = IF w + 1 < n THEN w + 1 ELSE 0,
         i2 = IF i + 1 < n THEN i + 1 ELSE 0
  PROVE  /\ c < n => w2 = IF i + (c + 1) < n THEN i + (c + 1) ELSE i + (c + 1) - n
         /\ c = n => w2 = IF i2 + n < n THEN i2 + n ELSE i2 + n - n
  OBVIOUS

\* In a full ring the cell that is written is the only one whose place moves to
\* the end: any other place of the new ring was a place of the old one.
LEMMA FullPlaces ==
  ASSUME NEW n \in Nat \ {0}, NEW i \in 0 .. n - 1, NEW k \in 0 .. n - 1,
         NEW w, NEW i2, NEW place,
         w = IF i + n < n THEN i + n ELSE i + n - n,
         i2 = IF i + 1 < n THEN i + 1 ELSE 0,
         place = IF i2 + k < n THEN i2 + k ELSE i2 + k - n,
         place # w
  PROVE  k + 1 \in 0 .. n - 1
  OBVIOUS

LEMMA AddIndex ==
  ASSUME NEW r \in Ring, NEW x \in Data, IndexInvOf(r)
  PROVE  IndexInvOf(RbAdd(r, x))
  <1> DEFINE s == RbAdd(r, x)
  <1>t. /\ r.read_index \in Cells /\ r.write_index \in Cells
        /\ r.count \in 0 .. Size
        /\ r.buffer \in [Cells -> Data \cup {NoData}]
    BY DEF Ring
  <1>i. Size \in Nat \ {0} /\ r.read_index \in 0 .. Size - 1 /\ r.count \in 0 .. Size
    BY <1>t, SizeAssumption DEF Cells
  <1>s. s.read_index \in Cells /\ s.count \in 0 .. Size
    BY AddType DEF Ring
  <1>w. r.write_index = IF r.read_index + r.count < Size
              THEN r.read_index + r.count ELSE r.read_index + r.count - Size
    BY <1>t, SumLemma DEF IndexInvOf
  <1>a. /\ Advance(r.write_index)
             = IF r.write_index + 1 < Size THEN r.write_index + 1 ELSE 0
        /\ Advance(r.read_index)
             = IF r.read_index + 1 < Size THEN r.read_index + 1 ELSE 0
    BY <1>t, AdvanceLemma
  <1>1. CASE r.count < Size
    <2>1. /\ s.read_index = r.read_index /\ s.count = r.count + 1
          /\ s.write_index = Advance(r.write_index)
          /\ s.buffer = [r.buffer EXCEPT ![r.write_index] = x]
      BY <1>1 DEF RbAdd
    <2>2. s.write_index = (s.read_index + s.count) % Size
      <3>2. (s.read_index + s.count) % Size =
              IF s.read_index + s.count < Size
              THEN s.read_index + s.count ELSE s.read_index + s.count - Size
        BY <1>s, SumLemma
      <3>3. Advance(r.write_index) =
              IF r.read_index + (r.count + 1) < Size
              THEN r.read_index + (r.count + 1) ELSE r.read_index + (r.count + 1) - Size
        BY <1>w, <1>a, <1>i, <1>1, WriteMoves
      <3> QED BY <2>1, <3>2, <3>3
    <2>3. ASSUME NEW k \in 0 .. s.count - 1
          PROVE  s.buffer[(s.read_index + k) % Size] \in Data
      <3>1. k \in 0 .. Size /\ (k < r.count \/ k = r.count)
        BY <2>1, <1>t, <1>1, SizeAssumption
      <3>2. (r.read_index + k) % Size \in Cells
        BY <3>1, <1>t, SumLemma
      <3>3. CASE k = r.count
        BY <2>1, <3>2, <3>3, <1>t DEF IndexInvOf
      <3>4. CASE k < r.count
        <4>1. k \in 0 .. r.count - 1
          BY <3>1, <3>4, <1>t
        <4>2. r.buffer[(r.read_index + k) % Size] \in Data
          BY <4>1 DEF IndexInvOf
        <4> QED BY <2>1, <3>2, <4>2, <1>t
      <3> QED BY <3>1, <3>3, <3>4
    <2> QED BY <2>2, <2>3 DEF IndexInvOf
  <1>2. CASE r.count = Size
    <2>1. /\ s.read_index = Advance(r.read_index) /\ s.count = Size
          /\ s.write_index = Advance(r.write_index)
          /\ s.buffer = [r.buffer EXCEPT ![r.write_index] = x]
      BY <1>2, SizeAssumption DEF RbAdd
    <2>2. s.write_index = (s.read_index + s.count) % Size
      <3>2. (s.read_index + s.count) % Size =
              IF s.read_index + s.count < Size
              THEN s.read_index + s.count ELSE s.read_index + s.count - Size
        BY <1>s, SumLemma
      <3>3. Advance(r.write_index) =
              IF Advance(r.read_index) + Size < Size
              THEN Advance(r.read_index) + Size ELSE Advance(r.read_index) + Size - Size
        BY <1>w, <1>a, <1>i, <1>2, WriteMoves
      <3> QED BY <2>1, <3>2, <3>3
    <2>3. ASSUME NEW k \in 0 .. s.count - 1
          PROVE  s.buffer[(s.read_index + k) % Size] \in Data
      <3>1. k \in 0 .. Size
        BY <2>1, SizeAssumption
      <3>2. /\ (s.read_index + k) % Size \in Cells
            /\ (s.read_index + k) % Size = IF s.read_index + k < Size
                 THEN s.read_index + k ELSE s.read_index + k - Size
        BY <1>s, <3>1, SumLemma
      <3>3. CASE (s.read_index + k) % Size = r.write_index
        BY <2>1, <3>2, <3>3, <1>t
      <3>4. CASE (s.read_index + k) % Size # r.write_index
        <4>1. k + 1 \in 0 .. r.count - 1
          <5>1. k \in 0 .. Size - 1
            BY <2>1, <1>i
          <5>2. r.write_index = IF r.read_index + Size < Size
                  THEN r.read_index + Size ELSE r.read_index + Size - Size
            BY <1>w, <1>2
          <5>3. s.read_index = IF r.read_index + 1 < Size
                  THEN r.read_index + 1 ELSE 0
            BY <1>a, <2>1
          <5>4. k + 1 \in 0 .. Size - 1
            BY <1>i, <5>1, <5>2, <5>3, <3>2, <3>4, FullPlaces
          <5> QED BY <5>4, <1>2
        <4>2. (r.read_index + (k + 1)) % Size = (s.read_index + k) % Size
          <5>1. k \in 0 .. Size - 1
            BY <2>1, SizeAssumption
          <5> QED BY <5>1, <2>1, <1>t, ShiftLemma
        <4>3. r.buffer[(r.read_index + (k + 1)) % Size] \in Data
          BY <4>1 DEF IndexInvOf
        <4> QED BY <2>1, <3>2, <3>4, <4>2, <4>3, <1>t
      <3> QED BY <3>3, <3>4
    <2> QED BY <2>2, <2>3 DEF IndexInvOf
  <1> QED BY <1>1, <1>2, <1>t, SizeAssumption


LEMMA DropIndex ==
  ASSUME NEW r \in Ring, IndexInvOf(r), r.count # 0
  PROVE  IndexInvOf(RbDrop(r))
  <1> DEFINE s == RbDrop(r)
  <1>t. /\ r.read_index \in Cells /\ r.count \in 1 .. Size
        /\ s \in Ring
    BY DropType, SizeAssumption DEF Ring
  <1>1. /\ s.buffer = r.buffer /\ s.write_index = r.write_index
        /\ s.read_index = Advance(r.read_index) /\ s.count = r.count - 1
    BY DEF RbDrop
  <1>2. ASSUME NEW k \in 0 .. r.count - 1
        PROVE  (s.read_index + k) % Size = (r.read_index + (k + 1)) % Size
    <2>1. k \in 0 .. Size - 1
      BY <1>t, SizeAssumption
    <2> QED BY <2>1, <1>1, <1>t, ShiftLemma
  <1>3. s.write_index = (s.read_index + s.count) % Size
    <2>1. r.count - 1 \in 0 .. r.count - 1 /\ (r.count - 1) + 1 = r.count
      BY <1>t
    <2> QED BY <1>1, <1>2, <2>1 DEF IndexInvOf
  <1>4. ASSUME NEW k \in 0 .. s.count - 1
        PROVE  s.buffer[(s.read_index + k) % Size] \in Data
    <2>1. k \in 0 .. r.count - 1 /\ k + 1 \in 0 .. r.count - 1
      BY <1>1, <1>t
    <2> QED BY <1>1, <1>2, <2>1 DEF IndexInvOf
  <1> QED BY <1>3, <1>4 DEF IndexInvOf

LEMMA EmptyIndex ==
  ASSUME NEW r \in Ring, r.count = 0, r.read_index = 0, r.write_index = 0
  PROVE  IndexInvOf(r)
  <1>1. (0 + 0) % Size = 0
    BY SizeAssumption
  <1> QED BY <1>1 DEF IndexInvOf

(* The write index stays count cells ahead of the read index, and the      *)
(* cells between hold data: add, get and init never let the three fields   *)
(* of the ring disagree.                                                   *)
THEOREM IndexInvariant == Spec => []IndexInv
  <1>1. Init => IndexInv
    <2> SUFFICES ASSUME Init PROVE IndexInvOf(rb)
      BY DEF IndexInv, IndexInvOf
    <2> QED BY EmptyRingType, EmptyIndex DEF Init, EmptyRing
  <1>2. TypeOK /\ IndexInv /\ [Next]_vars => IndexInv'
    <2> SUFFICES ASSUME TypeOK, IndexInvOf(rb), [Next]_vars PROVE IndexInvOf(rb')
      BY DEF IndexInv, IndexInvOf
    <2>1. ASSUME NEW x \in Data, Add(x) PROVE IndexInvOf(rb')
      BY <2>1, AddIndex DEF TypeOK, Add
    <2>2. CASE Get
      BY <2>2, DropIndex DEF Get, TypeOK
    <2>3. CASE Reset
      <3>1. RbReset(rb) \in Ring
        BY ResetType DEF TypeOK
      <3> QED BY <2>3, <3>1, EmptyIndex DEF Reset, RbReset
    <2>4. CASE UNCHANGED vars
      BY <2>4 DEF vars
    <2> QED BY <2>1, <2>2, <2>3, <2>4 DEF Next
  <1> QED BY <1>1, <1>2, Typing, PTL DEF Spec

-----------------------------------------------------------------------------
(* What add, get and init do to the contents. *)

LEMMA ContentsLemma ==
  ASSUME NEW r \in Ring, IndexInvOf(r)
  PROVE  /\ Contents(r) \in Seq(Data)
         /\ Len(Contents(r)) = r.count
         /\ DOMAIN Contents(r) = 1 .. r.count
         /\ \A k \in 1 .. r.count :
              Contents(r)[k] = r.buffer[(r.read_index + (k - 1)) % Size]
  <1>1. r.count \in Nat /\ r.read_index \in Nat
    BY SizeAssumption DEF Ring, Cells
  <1>2. ASSUME NEW k \in 1 .. r.count
        PROVE  /\ r.read_index + k - 1 = r.read_index + (k - 1)
               /\ k - 1 \in 0 .. r.count - 1
    BY <1>1
  <1>3. ASSUME NEW k \in 1 .. r.count
        PROVE  r.buffer[(r.read_index + k - 1) % Size] \in Data
    BY <1>2 DEF IndexInvOf
  <1>4. Contents(r) \in [1 .. r.count -> Data]
    BY <1>3 DEF Contents
  <1>5. Contents(r) \in Seq(Data) /\ Len(Contents(r)) = r.count
    BY <1>1, <1>4
  <1> QED BY <1>2, <1>5 DEF Contents

LEMMA AddContents ==
  ASSUME NEW r \in Ring, NEW x \in Data, IndexInvOf(r)
  PROVE  Contents(RbAdd(r, x)) = Abstract!PutInto(Contents(r), x)
  <1> DEFINE s == RbAdd(r, x)
             q == Contents(r)
             p == Contents(s)
  <1>t. /\ r.read_index \in Cells /\ r.write_index \in Cells
        /\ r.count \in 0 .. Size
        /\ r.buffer \in [Cells -> Data \cup {NoData}]
    BY DEF Ring
  <1>s. s \in Ring /\ IndexInvOf(s)
    BY AddType, AddIndex
  <1>q. /\ q \in Seq(Data) /\ Len(q) = r.count
        /\ \A k \in 1 .. r.count :
             q[k] = r.buffer[(r.read_index + (k - 1)) % Size]
    BY ContentsLemma
  <1>p. /\ p \in Seq(Data) /\ Len(p) = s.count
        /\ \A k \in 1 .. s.count :
             p[k] = s.buffer[(s.read_index + (k - 1)) % Size]
    BY <1>s, ContentsLemma
  <1>b. /\ s.buffer = [r.buffer EXCEPT ![r.write_index] = x]
        /\ r.write_index = (r.read_index + r.count) % Size
    BY DEF RbAdd, IndexInvOf
  <1>d. ASSUME NEW i \in 0 .. Size, NEW j \in 0 .. Size, i < j, j - i < Size
        PROVE  (r.read_index + i) % Size # (r.read_index + j) % Size
    BY <1>d, <1>t, DistinctLemma
  <1> HIDE DEF s, q, p
  <1>1. CASE r.count < Size
    <2>1. s.count = r.count + 1 /\ s.read_index = r.read_index
      BY <1>1 DEF RbAdd, s
    <2>2. ASSUME NEW k \in 1 .. r.count
          PROVE  p[k] = q[k]
      <3>1. PICK j \in 0 .. Size : j = k - 1 /\ j < r.count
        BY <1>t, SizeAssumption
      <3>2. (r.read_index + j) % Size # r.write_index
        BY <3>1, <1>d, <1>b, <1>1, <1>t, SizeAssumption
      <3>3. (r.read_index + j) % Size \in Cells
        BY <3>1, <1>t, SumLemma
      <3>4. k \in 1 .. s.count
        BY <2>1, <1>t
      <3>5. p[k] = s.buffer[(r.read_index + j) % Size]
        BY <3>1, <3>4, <2>1, <1>p
      <3>6. q[k] = r.buffer[(r.read_index + j) % Size]
        BY <3>1, <1>q
      <3> QED BY <3>2, <3>3, <3>5, <3>6, <1>b, <1>t
    <2>3. p[r.count + 1] = x
      <3>1. (r.count + 1) - 1 = r.count /\ r.count + 1 \in 1 .. s.count
        BY <2>1, <1>t
      <3> QED BY <3>1, <2>1, <1>b, <1>p, <1>t
    <2>4. p = Append(q, x)
      BY <2>1, <2>2, <2>3, <1>p, <1>q, <1>t
    <2> QED BY <2>4, <1>1, <1>q DEF Abstract!PutInto, p, q, s
  <1>2. CASE r.count = Size
    <2>1. s.count = Size /\ s.read_index = Advance(r.read_index)
      BY <1>2, SizeAssumption DEF RbAdd, s
    <2>2. ASSUME NEW k \in 1 .. Size - 1
          PROVE  p[k] = q[k + 1]
      <3>1. /\ k - 1 \in 0 .. Size - 1 /\ (k - 1) + 1 = k /\ k \in 0 .. Size
            /\ k + 1 \in 1 .. r.count /\ (k + 1) - 1 = k /\ k \in 1 .. s.count
            /\ k < Size /\ Size - k < Size
        BY <1>2, <2>1, SizeAssumption
      <3>2. (s.read_index + (k - 1)) % Size = (r.read_index + k) % Size
        BY <3>1, <2>1, <1>t, ShiftLemma
      <3>3. (r.read_index + k) % Size # r.write_index
        BY <3>1, <1>d, <1>b, <1>2, <1>t, SizeAssumption
      <3>4. (r.read_index + k) % Size \in Cells
        BY <3>1, <1>t, SumLemma
      <3>5. p[k] = s.buffer[(r.read_index + k) % Size]
        BY <3>1, <3>2, <1>p
      <3>6. q[k + 1] = r.buffer[(r.read_index + k) % Size]
        BY <3>1, <1>q
      <3> QED BY <3>3, <3>4, <3>5, <3>6, <1>b, <1>t
    <2>3. p[Size] = x
      <3>1. Size - 1 \in 0 .. Size - 1 /\ (Size - 1) + 1 = Size /\ Size \in 1 .. s.count
        BY <2>1, SizeAssumption
      <3>2. (s.read_index + (Size - 1)) % Size = r.write_index
        BY <3>1, <2>1, <1>b, <1>2, <1>t, ShiftLemma
      <3> QED BY <3>1, <3>2, <1>b, <1>p, <1>t
    <2>4. p = Append(Tail(q), x)
      <3>1. /\ Tail(q) \in Seq(Data) /\ Len(Tail(q)) = Size - 1
            /\ \A k \in 1 .. Size - 1 : Tail(q)[k] = q[k + 1]
        BY <1>q, <1>2, SizeAssumption
      <3> QED BY <3>1, <2>1, <2>2, <2>3, <1>p, <1>q, <1>2, SizeAssumption
    <2> QED BY <2>4, <1>2, <1>q DEF Abstract!PutInto, p, q, s
  <1> QED BY <1>1, <1>2, <1>t, SizeAssumption

LEMMA DropContents ==
  ASSUME NEW r \in Ring, IndexInvOf(r), r.count # 0
  PROVE  /\ Contents(r) # <<>>
         /\ RbOldest(r) = Head(Contents(r))
         /\ Contents(RbDrop(r)) = Tail(Contents(r))
  <1> DEFINE s == RbDrop(r)
             q == Contents(r)
             p == Contents(s)
  <1>t. r.read_index \in Cells /\ r.count \in 1 .. Size
    BY SizeAssumption DEF Ring
  <1>q. /\ q \in Seq(Data) /\ Len(q) = r.count
        /\ \A k \in 1 .. r.count :
             q[k] = r.buffer[(r.read_index + (k - 1)) % Size]
    BY ContentsLemma
  <1>p. /\ p \in Seq(Data) /\ Len(p) = s.count
        /\ \A k \in 1 .. s.count :
             p[k] = s.buffer[(s.read_index + (k - 1)) % Size]
    BY DropType, DropIndex, ContentsLemma
  <1>s. /\ s.count = r.count - 1 /\ s.read_index = Advance(r.read_index)
        /\ s.buffer = r.buffer
    BY DEF RbDrop
  <1> HIDE DEF s, q, p
  <1>1. ASSUME NEW k \in 1 .. r.count - 1
        PROVE  p[k] = q[k + 1]
    <2>1. /\ k - 1 \in 0 .. Size - 1 /\ (k - 1) + 1 = k /\ k \in 1 .. s.count
          /\ k + 1 \in 1 .. r.count /\ (k + 1) - 1 = k
      BY <1>s, <1>t, SizeAssumption
    <2>2. (s.read_index + (k - 1)) % Size = (r.read_index + k) % Size
      BY <2>1, <1>s, <1>t, ShiftLemma
    <2>3. p[k] = s.buffer[(s.read_index + (k - 1)) % Size]
      BY <2>1, <1>p
    <2>4. q[k + 1] = r.buffer[(r.read_index + k) % Size]
      BY <2>1, <1>q
    <2> QED BY <2>2, <2>3, <2>4, <1>s
  <1>2. p = Tail(q)
    <2>1. /\ Tail(q) \in Seq(Data) /\ Len(Tail(q)) = r.count - 1
          /\ \A k \in 1 .. r.count - 1 : Tail(q)[k] = q[k + 1]
      BY <1>q, <1>t
    <2> QED BY <2>1, <1>1, <1>p, <1>s, <1>t
  <1>3. q # <<>> /\ RbOldest(r) = q[1]
    <2>1. (r.read_index + 0) % Size = r.read_index
      BY <1>t, ModLemma, SizeAssumption DEF Cells
    <2>2. 1 \in 1 .. r.count /\ 1 - 1 = 0
      BY <1>t
    <2> QED BY <2>1, <2>2, <1>q, <1>t DEF RbOldest
  <1> QED BY <1>2, <1>3, <1>q DEF p, q, s

LEMMA EmptyContents ==
  ASSUME NEW r \in Ring, r.count = 0
  PROVE  Contents(r) = <<>>
  BY DEF Contents

(* The ring implements the overwriting queue: whatever the size, and from  *)
(* whatever positions of the two indices, add, get and init do to the      *)
(* contents what Put, Take and Clear do to a queue.                        *)
THEOREM RingRefinesFifo == Spec => RefinesFifo
  <1>1. Init => Abstract!Init
    BY EmptyRingType, EmptyContents DEF Init, Abstract!Init, EmptyRing
  <1>2. TypeOK /\ IndexInv /\ [Next]_vars => [Abstract!Next]_(Abstract!vars)
    <2> SUFFICES ASSUME TypeOK, IndexInvOf(rb), [Next]_vars
                 PROVE  [Abstract!Next]_(Abstract!vars)
      BY DEF IndexInv, IndexInvOf
    <2>t. rb \in Ring
      BY DEF TypeOK
    <2>1. ASSUME NEW x \in Data, Add(x) PROVE Abstract!Put(x)
      BY <2>1, <2>t, AddContents DEF Add, Abstract!Put
    <2>2. ASSUME Get, rb.count # 0 PROVE Abstract!Take
      BY <2>2, <2>t, DropContents DEF Get, Abstract!Take
    <2>3. ASSUME Get, rb.count = 0 PROVE Abstract!TakeNothing
      BY <2>3, <2>t, EmptyContents DEF Get, Abstract!TakeNothing
    <2>4. ASSUME Reset PROVE Abstract!Clear
      <3>1. RbReset(rb) \in Ring /\ RbReset(rb).count = 0
        BY <2>t, ResetType DEF RbReset
      <3>2. Contents(rb') = <<>>
        BY <2>4, <3>1, EmptyContents DEF Reset
      <3> QED BY <2>4, <3>2 DEF Reset, Abstract!Clear
    <2>5. CASE UNCHANGED vars
      BY <2>5 DEF vars, Abstract!vars, Contents
    <2> QED BY <2>1, <2>2, <2>3, <2>4, <2>5 DEF Next, Abstract!Next
  <1> QED BY <1>1, <1>2, Typing, IndexInvariant, PTL
          DEF Spec, RefinesFifo, Abstract!Spec

-----------------------------------------------------------------------------
(* The search of _client_rb_id_exists. *)

(* It visits the waiting cells, except that a full ring, whose two indices *)
(* coincide, looks empty to it.                                            *)
LEMMA ScanLemma ==
  ASSUME NEW r \in Ring, IndexInvOf(r)
  PROVE  ScanLength(r) = IF r.count < Size THEN r.count ELSE 0
  <1>1. /\ r.read_index \in Cells /\ r.write_index \in Cells
        /\ r.count \in 0 .. Size
    BY DEF Ring
  <1>2. r.write_index = IF r.read_index + r.count < Size
          THEN r.read_index + r.count ELSE r.read_index + r.count - Size
    BY <1>1, SumLemma DEF IndexInvOf
  <1>3. CASE r.count < Size
    BY <1>1, <1>2, <1>3, SizeAssumption DEF ScanLength, Cells
  <1>4. CASE r.count = Size
    BY <1>1, <1>2, <1>4, SizeAssumption DEF ScanLength, Cells
  <1> QED BY <1>1, <1>3, <1>4, SizeAssumption

(* The search never reports an id that is not waiting, and never misses    *)
(* one in a ring that is not full.                                         *)
THEOREM SearchSafety == Spec => []SearchSeesUnlessFull
  <1>1. TypeOK /\ IndexInv => SearchSeesUnlessFull
    <2> SUFFICES ASSUME TypeOK, IndexInvOf(rb), NEW x \in Data
                 PROVE  LET waiting == \E k \in DOMAIN Contents(rb) : Contents(rb)[k] = x
                        IN  RbIdExists(rb, x) <=> waiting /\ rb.count < Size
      BY DEF SearchSeesUnlessFull, IndexInv, IndexInvOf
    <2>1. rb \in Ring /\ rb.count \in Nat
      BY DEF TypeOK, Ring
    <2>2. ScanLength(rb) = IF rb.count < Size THEN rb.count ELSE 0
      BY <2>1, ScanLemma
    <2>3. /\ DOMAIN Contents(rb) = 1 .. rb.count
          /\ \A k \in 1 .. rb.count :
               Contents(rb)[k] = rb.buffer[(rb.read_index + (k - 1)) % Size]
      BY <2>1, ContentsLemma
    <2>4. ASSUME RbIdExists(rb, x)
          PROVE  /\ \E k \in DOMAIN Contents(rb) : Contents(rb)[k] = x
                 /\ rb.count < Size
      <3>1. PICK j \in 0 .. ScanLength(rb) - 1 :
              rb.buffer[(rb.read_index + j) % Size] = x
        BY <2>4 DEF RbIdExists
      <3>2. j \in 0 .. rb.count - 1
        BY <2>1, <2>2, <3>1
      <3>3. PICK k \in 1 .. rb.count : k - 1 = j
        BY <3>2, <2>1
      <3>4. rb.count < Size
        BY <2>1, <2>2, <3>1, SizeAssumption
      <3> QED BY <3>1, <3>3, <3>4, <2>3
    <2>5. ASSUME NEW k \in DOMAIN Contents(rb), Contents(rb)[k] = x,
                 rb.count < Size
          PROVE  RbIdExists(rb, x)
      <3>1. PICK j \in 0 .. ScanLength(rb) - 1 : j = k - 1
        BY <2>1, <2>2, <2>3, <2>5
      <3>2. rb.buffer[(rb.read_index + j) % Size] = x
        BY <2>3, <2>5, <3>1
      <3> QED BY <3>1, <3>2, <2>1, <2>3, <2>5 DEF RbIdExists
    <2> QED BY <2>4, <2>5
  <1> QED BY <1>1, Typing, IndexInvariant, PTL

=============================================================================
