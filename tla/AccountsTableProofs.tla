------------------------- MODULE AccountsTableProofs -------------------------
(***************************************************************************)
(* Proofs about AccountsTable: for every capacity, load limit, set of keys *)
(* and hash, the table is in robin-hood order between calls, and it        *)
(* implements the map TableMap.                                            *)
(***************************************************************************)
EXTENDS AccountsTable, FiniteSetTheorems, TLAPS

-----------------------------------------------------------------------------
(* The ring of slots, without remainders.                                  *)

(* The slot d after x, the slot d before it, and how far y is after x. *)
Ahead(x, d) == IF x + d < Capacity THEN x + d ELSE x + d - Capacity

Back(x, d) == IF d <= x THEN x - d ELSE x + Capacity - d

Gap(x, y) == IF x <= y THEN y - x ELSE y + Capacity - x

(* How far from its home the record in slot i of table s is. *)
Away(h, s, i) == Gap(h[s[i].key], i)

(* The m slots before i are taken, each by a record too far from its home  *)
(* to give way to one that would be m from its home in i.                  *)
Backed(h, s, i, m) ==
  \A k \in 1..m : s[Back(i, k)] # Absent /\ Away(h, s, Back(i, k)) >= m - k

(* Robin-hood order, as a lookup needs it: of all the slots between a       *)
(* record and its home.                                                    *)
Ordered(h, s) == \A i \in Slot : s[i] # Absent => Backed(h, s, i, Away(h, s, i))

Taken(s) == {i \in Slot : s[i] # Absent}

(* The table with slot p written. *)
Written(s, p, r) == [s EXCEPT ![p] = r]

-----------------------------------------------------------------------------
(* The inductive invariant.                                                *)

LookupCall ==
  [kind : {"get", "set", "remove"}, key : Key, val : Value \cup {Absent},
   force : BOOLEAN, dist : 0..Capacity]

InsertCall == [kind : {"insert"}, carry : Record, dist : Slot]

ShiftCall == [kind : {"shift"}, hole : Slot]

TypeOK ==
  /\ home \in [Key -> Slot]
  /\ slots \in [Slot -> Record \cup {Absent}]
  /\ count \in 0..Limit
  /\ call \in {Idle} \cup LookupCall \cup InsertCall \cup ShiftCall
  /\ call.kind = "set" => call.val \in Value

(* The counter in the header counts the slots that are taken; the slot a    *)
(* removal is about to overwrite is still one of them.                     *)
Counted == count = Cardinality(Taken(slots))

(* No key has two records. *)
Distinct == \A i, j \in Settled : slots[i].key = slots[j].key => i = j

(* The slots a lookup has passed do not hold its key. *)
Searched ==
  Looking => \A k \in 0..(call.dist - 1) :
    LET i == Ahead(home[call.key], k) IN slots[i] = Absent \/ slots[i].key # call.key

(* The record in hand would be in order where it is held, and is new. *)
Carrying ==
  call.kind = "insert" =>
    /\ count < Limit
    /\ Backed(home, slots, Ahead(home[call.carry.key], call.dist), call.dist)
    /\ \A i \in Taken(slots) : slots[i].key # call.carry.key

(* The hole holds a record that has moved, or is to go. *)
Shifting == call.kind = "shift" => slots[call.hole] # Absent

IInv ==
  TypeOK /\ Ordered(home, slots) /\ Counted /\ Distinct /\ Searched /\ Carrying /\ Shifting
-----------------------------------------------------------------------------
(* Facts about the ring.                                                   *)

(* A slot is reached by adding and wrapping once, which is what the         *)
(* remainders of drive.ts compute.                                         *)
LEMMA Remainders ==
  ASSUME NEW x \in Slot, NEW y \in Slot, NEW d \in 0..Capacity
  PROVE  /\ (x + d) % Capacity = Ahead(x, d)
         /\ (y + Capacity - x) % Capacity = Gap(x, y)
         /\ (x + 1) % Capacity = Ahead(x, 1)
         /\ (x + Capacity - 1) % Capacity = Back(x, 1)
<1>1. Capacity \in Nat \ {0}  BY TableAssumption
<1>2. \A a \in 0..(Capacity - 1) : a % Capacity = a  BY <1>1
<1>3. \A a \in Capacity..(2 * Capacity - 1) : a % Capacity = a - Capacity  BY <1>1
<1>4. ASSUME NEW z \in Slot, NEW e \in 0..Capacity  PROVE (z + e) % Capacity = Ahead(z, e)
  <2>1. CASE z + e < Capacity
    <3>1. z + e \in 0..(Capacity - 1)  BY <1>1, <2>1 DEF Slot
    <3> QED  BY <3>1, <2>1, <1>2 DEF Ahead
  <2>2. CASE ~(z + e < Capacity)
    <3>1. z + e \in Capacity..(2 * Capacity - 1)  BY <1>1, <2>2 DEF Slot
    <3>2. Ahead(z, e) = z + e - Capacity  BY <2>2 DEF Ahead
    <3>3. z + e \in Int  BY <3>1, <1>1 DEF Slot
    <3> QED  BY <3>1, <3>2, <3>3, <1>1, <1>3 DEF Slot
  <2> QED  BY <2>1, <2>2
<1>5. (y + Capacity - x) % Capacity = Gap(x, y)
  <2>1. Capacity - x \in 0..Capacity /\ y + (Capacity - x) = y + Capacity - x  BY <1>1 DEF Slot
  <2>2. (y + Capacity - x) % Capacity = Ahead(y, Capacity - x)  BY <2>1, <1>4
  <2>3. Ahead(y, Capacity - x) = Gap(x, y)  BY <1>1 DEF Ahead, Gap, Slot
  <2> QED  BY <2>2, <2>3
<1>6. (x + Capacity - 1) % Capacity = Back(x, 1)
  <2>1. Capacity - 1 \in 0..Capacity /\ x + (Capacity - 1) = x + Capacity - 1  BY <1>1 DEF Slot
  <2>2. (x + Capacity - 1) % Capacity = Ahead(x, Capacity - 1)  BY <2>1, <1>4
  <2>3. Ahead(x, Capacity - 1) = Back(x, 1)  BY <1>1 DEF Ahead, Back, Slot
  <2> QED  BY <2>2, <2>3
<1>7. (x + 1) % Capacity = Ahead(x, 1)
  <2>1. 1 \in 0..Capacity  BY <1>1
  <2> QED  BY <2>1, <1>4
<1> QED  BY <1>4, <1>5, <1>6, <1>7

LEMMA AheadFacts ==
  ASSUME NEW x \in Slot, NEW d \in 0..Capacity
  PROVE  /\ Ahead(x, d) \in Slot
         /\ d < Capacity => Gap(x, Ahead(x, d)) = d /\ Ahead(Ahead(x, d), 1) = Ahead(x, d + 1)
         /\ Ahead(x, 0) = x
BY TableAssumption DEF Slot, Ahead, Gap

LEMMA GapFacts ==
  ASSUME NEW x \in Slot, NEW y \in Slot
  PROVE  /\ Gap(x, y) \in Slot
         /\ Ahead(x, Gap(x, y)) = y
         /\ Gap(x, y) = 0 <=> x = y
BY TableAssumption DEF Slot, Ahead, Gap

LEMMA BackFacts ==
  ASSUME NEW x \in Slot, NEW d \in 0..Capacity
  PROVE  /\ Back(x, d) \in Slot
         /\ Back(x, 0) = x
         /\ d \in 1..(Capacity - 1) => Back(x, d) # x
         /\ d < Capacity => Back(Ahead(x, 1), d + 1) = Back(x, d)
         /\ d >= 1 => Back(Ahead(x, 1), d) = Back(x, d - 1)
         /\ Capacity > 1 => Ahead(x, 1) # x
BY TableAssumption DEF Slot, Ahead, Back

(* Every other slot is some way back. *)
LEMMA BackToAny ==
  ASSUME NEW x \in Slot, NEW y \in Slot
  PROVE  \E d \in 1..Capacity : Back(x, d) = y
<1>1. Gap(y, x) \in 0..(Capacity - 1) /\ Back(x, Gap(y, x)) = y
  BY TableAssumption DEF Slot, Gap, Back
<1>2. CASE Gap(y, x) = 0
  <2>1. Capacity \in 1..Capacity /\ Back(x, Capacity) = y
    BY <1>1, <1>2, TableAssumption DEF Slot, Back
  <2> QED  BY <2>1
<1>3. CASE Gap(y, x) # 0
  <2>1. Gap(y, x) \in 1..Capacity  BY <1>1, <1>3, TableAssumption
  <2> QED  BY <2>1, <1>1
<1> QED  BY <1>2, <1>3

(* A slot between a home and a record is ahead of the home and back from    *)
(* the record.                                                             *)
LEMMA Between ==
  ASSUME NEW x \in Slot, NEW m \in Slot, NEW d \in 0..m
  PROVE  Back(Ahead(x, m), m - d) = Ahead(x, d) /\ m - d \in 0..m
BY TableAssumption DEF Slot, Ahead, Back
(* The slot after one that is k back is k - 1 back, and a record that moves *)
(* back one slot is one nearer its home.                                   *)
LEMMA StepBack ==
  ASSUME NEW x \in Slot, NEW k \in 1..Capacity
  PROVE  Ahead(Back(x, k), 1) = Back(x, k - 1)
BY TableAssumption DEF Slot, Ahead, Back

LEMMA GapBack ==
  ASSUME NEW x \in Slot, NEW p \in Slot, Gap(x, Ahead(p, 1)) > 0
  PROVE  Gap(x, p) = Gap(x, Ahead(p, 1)) - 1
BY TableAssumption DEF Slot, Ahead, Gap

-----------------------------------------------------------------------------
(* What each write of the table does to the order.                         *)

Table(h, s) == h \in [Key -> Slot] /\ s \in [Slot -> Record \cup {Absent}]

LEMMA AwayType ==
  ASSUME NEW h, NEW s, Table(h, s), NEW i \in Slot, s[i] # Absent
  PROVE  /\ s[i] \in Record /\ s[i].key \in Key /\ h[s[i].key] \in Slot
         /\ Away(h, s, i) \in Slot /\ Ahead(h[s[i].key], Away(h, s, i)) = i
<1>1. s[i] \in Record  BY DEF Table
<1>2. s[i].key \in Key  BY <1>1 DEF Record
<1>3. h[s[i].key] \in Slot  BY <1>2 DEF Table
<1> QED  BY <1>1, <1>2, <1>3, GapFacts DEF Away

(* A lookup meets the record of its key before it meets an empty slot or a  *)
(* record nearer its home: the early ends of #lookup miss nothing.         *)
LEMMA LookupFinds ==
  ASSUME NEW h, NEW s, Table(h, s), Ordered(h, s), NEW i \in Slot, s[i] # Absent,
         NEW d \in 0..Capacity,
         \A k \in 0..(d - 1) : LET j == Ahead(h[s[i].key], k)
                               IN s[j] = Absent \/ s[j].key # s[i].key
  PROVE  LET at == Ahead(h[s[i].key], d)
         IN d < Capacity /\ s[at] # Absent /\ Away(h, s, at) >= d
<1> DEFINE x == h[s[i].key]  m == Away(h, s, i)
<1>1. x \in Slot /\ m \in Slot /\ Ahead(x, m) = i  BY AwayType
<1>2. Backed(h, s, i, m)  BY DEF Ordered
<1>3. m \notin 0..(d - 1)  BY <1>1
<1> HIDE DEF x, m
<1>4. d \in 0..m /\ d < Capacity  BY <1>1, <1>3, TableAssumption DEF Slot
<1>5. CASE m = d  BY <1>1, <1>4, <1>5 DEF x, m
<1>6. CASE m # d
  <2>1. Back(i, m - d) = Ahead(x, d)  BY <1>1, <1>4, Between
  <2>2. m - d \in 1..m /\ m - (m - d) = d  BY <1>1, <1>4, <1>6 DEF Slot
  <2>3. s[Ahead(x, d)] # Absent /\ Away(h, s, Ahead(x, d)) >= m - (m - d)
    BY <2>1, <2>2, <1>2 DEF Backed
  <2> QED  BY <2>2, <2>3, <1>4 DEF x
<1> QED  BY <1>5, <1>6

(* A write that changes no key and empties no slot leaves the order. *)
LEMMA SameKeys ==
  ASSUME NEW h, NEW s, NEW t, Table(h, s), Ordered(h, s),
         \A i \in Slot : /\ t[i] = Absent <=> s[i] = Absent
                         /\ s[i] # Absent => t[i].key = s[i].key
  PROVE  Ordered(h, t)
<1>1. SUFFICES ASSUME NEW i \in Slot, t[i] # Absent, NEW k \in 1..Away(h, t, i)
               PROVE  t[Back(i, k)] # Absent /\ Away(h, t, Back(i, k)) >= Away(h, t, i) - k
  BY DEF Ordered, Backed
<1>2. s[i] # Absent /\ Away(h, t, i) = Away(h, s, i)  BY <1>1 DEF Away
<1>3. Away(h, s, i) \in Slot  BY <1>2, AwayType
<1>4. k \in 1..Capacity  BY <1>1, <1>2, <1>3, TableAssumption DEF Slot
<1>5. Back(i, k) \in Slot  BY <1>4, BackFacts, TableAssumption
<1>6. s[Back(i, k)] # Absent /\ Away(h, s, Back(i, k)) >= Away(h, s, i) - k
  BY <1>1, <1>2 DEF Ordered, Backed
<1> QED  BY <1>2, <1>5, <1>6 DEF Away

(* #insert: the record in hand takes a slot that is empty, or whose record  *)
(* is no farther from its home.                                            *)
LEMMA PutKeepsOrder ==
  ASSUME NEW h, NEW s, Table(h, s), Ordered(h, s),
         NEW r \in Record, NEW d \in Slot, NEW p, p = Ahead(h[r.key], d),
         Backed(h, s, p, d), s[p] = Absent \/ Away(h, s, p) <= d
  PROVE  Ordered(h, Written(s, p, r)) /\ Away(h, Written(s, p, r), p) = d
<1> DEFINE t == Written(s, p, r)
<1>0. t = [s EXCEPT ![p] = r]  BY DEF Written
<1> HIDE DEF t
<1>1. r.key \in Key  BY DEF Record
<1>2. h[r.key] \in Slot  BY <1>1 DEF Table
<1>3. d \in 0..Capacity /\ d < Capacity  BY TableAssumption DEF Slot
<1>4. p \in Slot /\ Gap(h[r.key], p) = d  BY <1>2, <1>3, AheadFacts
<1>5. t[p] = r  BY <1>0, <1>4 DEF Table
<1>6. Away(h, t, p) = d  BY <1>4, <1>5 DEF Away
<1>7. \A i \in Slot \ {p} : t[i] = s[i] /\ Away(h, t, i) = Away(h, s, i)
  <2> SUFFICES ASSUME NEW i \in Slot, i # p  PROVE t[i] = s[i] /\ Away(h, t, i) = Away(h, s, i)
    OBVIOUS
  <2> QED  BY <1>0, <1>4 DEF Table, Away
<1>8. ASSUME NEW i \in Slot, t[i] # Absent, NEW k \in 1..Away(h, t, i)
      PROVE  t[Back(i, k)] # Absent /\ Away(h, t, Back(i, k)) >= Away(h, t, i) - k
  <2>1. CASE i = p
    <3>1. k \in 1..d /\ k \in 0..Capacity /\ k \in 1..(Capacity - 1)
      BY <1>3, <1>6, <1>8, <2>1, TableAssumption DEF Slot
    <3>2. Back(p, k) \in Slot \ {p}  BY <3>1, <1>4, BackFacts
    <3>3. s[Back(p, k)] # Absent /\ Away(h, s, Back(p, k)) >= d - k  BY <3>1 DEF Backed
    <3> QED  BY <3>2, <3>3, <1>6, <1>7, <2>1
  <2>2. CASE i # p
    <3>1. s[i] # Absent /\ Away(h, t, i) = Away(h, s, i)  BY <1>7, <1>8, <2>2
    <3>2. Away(h, s, i) \in Slot  BY <3>1, AwayType
    <3>3. k \in 1..Away(h, s, i) /\ k \in 0..Capacity
      BY <1>8, <3>1, <3>2, TableAssumption DEF Slot
    <3>4. Back(i, k) \in Slot  BY <3>3, BackFacts
    <3>5. s[Back(i, k)] # Absent /\ Away(h, s, Back(i, k)) >= Away(h, s, i) - k
      BY <3>1, <3>3 DEF Ordered, Backed
    <3>6. CASE Back(i, k) # p  BY <3>1, <3>4, <3>5, <3>6, <1>7
    <3>7. CASE Back(i, k) = p
      <4>1. t[p] # Absent  BY <1>5, TableAssumption
      <4>2. Away(h, s, p) <= d /\ Away(h, s, p) \in Slot  BY <3>5, <3>7, <1>4, AwayType
      <4>3. d >= Away(h, s, i) - k
        BY <4>2, <3>2, <3>3, <3>5, <3>7, TableAssumption DEF Slot
      <4> QED  BY <4>1, <4>3, <3>1, <3>7, <1>6
    <3> QED  BY <3>6, <3>7
  <2> QED  BY <2>1, <2>2
<1>9. Ordered(h, t)  BY <1>8 DEF Ordered, Backed
<1> QED  BY <1>6, <1>9 DEF t
(* The record in hand moves on past a record that is no nearer its home. *)
LEMMA BackedOn ==
  ASSUME NEW h, NEW s, NEW p \in Slot, NEW d \in Slot, Backed(h, s, p, d),
         s[p] # Absent, NEW e \in Nat, e = Away(h, s, p), e >= d
  PROVE  Backed(h, s, Ahead(p, 1), d + 1)
<1>0. ASSUME NEW k \in 1..(d + 1)
      PROVE  /\ s[Back(Ahead(p, 1), k)] # Absent
             /\ Away(h, s, Back(Ahead(p, 1), k)) >= (d + 1) - k
  <2>1. k \in 0..Capacity /\ k >= 1 /\ d \in Nat  BY TableAssumption DEF Slot
  <2>2. Back(Ahead(p, 1), k) = Back(p, k - 1)  BY <2>1, BackFacts
  <2>3. CASE k = 1
    <3>1. Back(p, k - 1) = p
      <4>1. 0 \in 0..Capacity /\ k - 1 = 0  BY <2>3, TableAssumption
      <4> QED  BY <4>1, BackFacts
    <3>2. e >= (d + 1) - k  BY <2>1, <2>3
    <3> QED  BY <2>2, <3>1, <3>2
  <2>4. CASE k # 1
    <3>1. k - 1 \in 1..d /\ d - (k - 1) = (d + 1) - k  BY <2>1, <2>4
    <3> QED  BY <2>2, <3>1 DEF Backed
  <2> QED  BY <2>3, <2>4
<1> QED  BY <1>0 DEF Backed

(* A slot that is written is not one of the slots before it. *)
LEMMA BackedAfterPut ==
  ASSUME NEW h, NEW s, Table(h, s), NEW p \in Slot, NEW d \in Slot, Backed(h, s, p, d),
         NEW r, NEW t, t = [s EXCEPT ![p] = r]
  PROVE  Backed(h, t, p, d)
<1> SUFFICES ASSUME NEW k \in 1..d
             PROVE  t[Back(p, k)] # Absent /\ Away(h, t, Back(p, k)) >= d - k
  BY DEF Backed
<1>1. k \in 0..Capacity /\ k \in 1..(Capacity - 1)  BY TableAssumption DEF Slot
<1>2. Back(p, k) \in Slot /\ Back(p, k) # p  BY <1>1, BackFacts
<1>3. s[Back(p, k)] # Absent /\ Away(h, s, Back(p, k)) >= d - k  BY DEF Backed
<1> QED  BY <1>2, <1>3 DEF Table, Away

(* While a slot is empty, a record in hand is less than a turn from home. *)
LEMMA LessThanATurn ==
  ASSUME NEW h, NEW s, NEW p \in Slot, NEW m \in 0..Capacity, Backed(h, s, p, m),
         NEW e \in Slot, s[e] = Absent
  PROVE  m \in Slot
<1>1. PICK d \in 1..Capacity : Back(p, d) = e  BY BackToAny
<1>2. d \notin 1..m  BY <1>1 DEF Backed
<1> QED  BY <1>2, TableAssumption DEF Slot

(* #remove: the record after the hole, if it is away from its home, moves   *)
(* into the hole.                                                          *)
LEMMA ShiftKeepsOrder ==
  ASSUME NEW h, NEW s, Table(h, s), Ordered(h, s), NEW p \in Slot,
         NEW j, j = Ahead(p, 1), j # p, s[j] # Absent, Away(h, s, j) > 0
  PROVE  Ordered(h, Written(s, p, s[j]))
<1> DEFINE t == Written(s, p, s[j])
<1>0. t = [s EXCEPT ![p] = s[j]]  BY DEF Written
<1> HIDE DEF t
<1>1. 1 \in 0..Capacity  BY TableAssumption
<1>2. j \in Slot  BY <1>1, AheadFacts
<1>3. s[j].key \in Key /\ h[s[j].key] \in Slot /\ Away(h, s, j) \in Slot  BY <1>2, AwayType
<1>4. t[p] = s[j] /\ t[p] # Absent  BY <1>0 DEF Table
<1>5. Away(h, t, p) = Away(h, s, j) - 1  BY <1>3, <1>4, GapBack DEF Away
<1>6. ASSUME NEW i \in Slot, i # p  PROVE t[i] = s[i] /\ Away(h, t, i) = Away(h, s, i)
  BY <1>0, <1>6 DEF Table, Away
<1>7. ASSUME NEW i \in Slot, t[i] # Absent, NEW k \in 1..Away(h, t, i)
      PROVE  t[Back(i, k)] # Absent /\ Away(h, t, Back(i, k)) >= Away(h, t, i) - k
  <2>1. CASE i = p
    <3> DEFINE m == Away(h, s, j)
    <3>1. k \in 1..(m - 1) /\ m \in Slot  BY <1>3, <1>5, <1>7, <2>1
    <3>0. Backed(h, s, j, m)  BY <1>2 DEF Ordered
    <3> HIDE DEF m
    <3>2. k + 1 \in 1..m /\ k \in 0..Capacity /\ k < Capacity /\ k \in 1..(Capacity - 1)
      BY <3>1, TableAssumption DEF Slot
    <3>3. Back(p, k) \in Slot /\ Back(p, k) # p /\ Back(j, k + 1) = Back(p, k)
      BY <3>2, BackFacts
    <3>4. s[Back(p, k)] # Absent /\ Away(h, s, Back(p, k)) >= m - (k + 1)
      BY <3>0, <3>2, <3>3 DEF Backed
    <3>5. m - (k + 1) = (m - 1) - k  BY <3>1 DEF Slot
    <3> QED  BY <3>3, <3>4, <3>5, <2>1, <1>5, <1>6 DEF m
  <2>2. CASE i # p
    <3> DEFINE m == Away(h, s, i)
    <3>1. s[i] # Absent /\ Away(h, t, i) = m  BY <1>6, <1>7, <2>2
    <3>2. m \in Slot /\ Backed(h, s, i, m)  BY <3>1, AwayType DEF Ordered
    <3> HIDE DEF m
    <3>3. k \in 1..m /\ k \in 0..Capacity /\ k \in 1..Capacity
      BY <1>7, <3>1, <3>2, TableAssumption DEF Slot
    <3>4. Back(i, k) \in Slot  BY <3>3, BackFacts
    <3>5. s[Back(i, k)] # Absent /\ Away(h, s, Back(i, k)) >= m - k  BY <3>2, <3>3 DEF Backed
    <3>6. CASE Back(i, k) # p  BY <3>1, <3>4, <3>5, <3>6, <1>6
    <3>7. CASE Back(i, k) = p
      <4>1. Back(i, k - 1) = j  BY <3>3, <3>7, StepBack
      <4>2. Away(h, s, j) >= m - (k - 1)
        <5>1. CASE k = 1
          <6>1. i = j  BY <4>1, <5>1, <1>1, BackFacts, TableAssumption
          <6> QED  BY <6>1, <5>1, <1>3, <3>2 DEF m, Slot
        <5>2. CASE k # 1
          <6>1. k - 1 \in 1..m  BY <3>3, <3>2, <5>2 DEF Slot
          <6> QED  BY <6>1, <4>1, <3>2 DEF Backed
        <5> QED  BY <5>1, <5>2
      <4>3. Away(h, s, j) - 1 >= m - k  BY <4>2, <3>2, <3>3, <1>3 DEF Slot
      <4> QED  BY <4>3, <3>1, <3>7, <1>4, <1>5
    <3> QED  BY <3>6, <3>7
  <2> QED  BY <2>1, <2>2
<1>8. Ordered(h, t)  BY <1>7 DEF Ordered, Backed
<1> QED  BY <1>8 DEF t
(* The hole is emptied where the cluster ends. *)
LEMMA ClearKeepsOrder ==
  ASSUME NEW h, NEW s, Table(h, s), Ordered(h, s), NEW p \in Slot,
         NEW j, j = Ahead(p, 1), s[j] = Absent \/ Away(h, s, j) = 0
  PROVE  Ordered(h, Written(s, p, Absent))
<1> DEFINE t == Written(s, p, Absent)
<1>0. t = [s EXCEPT ![p] = Absent]  BY DEF Written
<1> HIDE DEF t
<1>1. t[p] = Absent  BY <1>0 DEF Table
<1>2. ASSUME NEW i \in Slot, i # p  PROVE t[i] = s[i] /\ Away(h, t, i) = Away(h, s, i)
  BY <1>0, <1>2 DEF Table, Away
<1>3. ASSUME NEW i \in Slot, t[i] # Absent, NEW k \in 1..Away(h, t, i)
      PROVE  t[Back(i, k)] # Absent /\ Away(h, t, Back(i, k)) >= Away(h, t, i) - k
  <2> DEFINE m == Away(h, s, i)
  <2>0. i # p  BY <1>1, <1>3
  <2>1. s[i] # Absent /\ Away(h, t, i) = m  BY <1>2, <1>3, <2>0
  <2>2. m \in Slot /\ Backed(h, s, i, m)  BY <2>1, AwayType DEF Ordered
  <2> HIDE DEF m
  <2>3. k \in 1..m /\ k \in 0..Capacity /\ k \in 1..Capacity
    BY <1>3, <2>1, <2>2, TableAssumption DEF Slot
  <2>4. Back(i, k) \in Slot  BY <2>3, BackFacts
  <2>5. s[Back(i, k)] # Absent /\ Away(h, s, Back(i, k)) >= m - k  BY <2>2, <2>3 DEF Backed
  <2>6. Back(i, k) # p
    <3> SUFFICES ASSUME Back(i, k) = p  PROVE FALSE
      OBVIOUS
    <3>1. Back(i, k - 1) = j  BY <2>3, StepBack
    <3>2. CASE k = 1
      <4>1. 0 \in 0..Capacity /\ k - 1 = 0  BY <3>2, TableAssumption
      <4>2. i = j  BY <3>1, <4>1, BackFacts
      <4> QED  BY <4>2, <2>1, <2>2, <2>3 DEF m, Slot
    <3>3. CASE k # 1
      <4>1. k - 1 \in 1..m  BY <2>2, <2>3, <3>3 DEF Slot
      <4>2. s[j] # Absent /\ Away(h, s, j) >= m - (k - 1)  BY <3>1, <4>1, <2>2 DEF Backed
      <4> QED  BY <4>2, <2>2, <2>3 DEF Slot
    <3> QED  BY <3>2, <3>3
  <2> QED  BY <2>1, <2>4, <2>5, <2>6, <1>2
<1>4. Ordered(h, t)  BY <1>3 DEF Ordered, Backed
<1> QED  BY <1>4 DEF t

-----------------------------------------------------------------------------
(* What the invariant says of a call in progress.                          *)

LEMMA CallShape ==
  ASSUME TypeOK
  PROVE  /\ Looking => call \in LookupCall
         /\ call.kind = "insert" => call \in InsertCall
         /\ call.kind = "shift" => call \in ShiftCall
         /\ call = Idle \/ Looking \/ call.kind \in {"insert", "shift"}
         /\ call = Idle => call.kind = "idle"
BY DEF TypeOK, LookupCall, InsertCall, ShiftCall, Looking, Idle

LEMMA LookupPlace ==
  ASSUME TypeOK, Looking
  PROVE  /\ call.key \in Key /\ call.dist \in 0..Capacity /\ home[call.key] \in Slot
         /\ At \in Slot /\ At = Ahead(home[call.key], call.dist)
<1>1. call.key \in Key /\ call.dist \in 0..Capacity  BY CallShape DEF LookupCall
<1>2. home[call.key] \in Slot  BY <1>1 DEF TypeOK
<1> QED  BY <1>1, <1>2, Remainders, AheadFacts DEF At

LEMMA CarryPlace ==
  ASSUME TypeOK, call.kind = "insert"
  PROVE  /\ call.carry \in Record /\ call.carry.key \in Key /\ call.dist \in Slot
         /\ home[call.carry.key] \in Slot
         /\ CarryAt \in Slot /\ CarryAt = Ahead(home[call.carry.key], call.dist)
<1>1. call.carry \in Record /\ call.dist \in Slot  BY CallShape DEF InsertCall
<1>2. call.carry.key \in Key  BY <1>1 DEF Record
<1>3. home[call.carry.key] \in Slot  BY <1>2 DEF TypeOK
<1>4. call.dist \in 0..Capacity  BY <1>1, TableAssumption DEF Slot
<1> QED  BY <1>1, <1>2, <1>3, <1>4, Remainders, AheadFacts DEF CarryAt

LEMMA LivePlace ==
  ASSUME TypeOK, NEW i \in Slot, Live(i)
  PROVE  /\ slots[i] \in Record /\ slots[i].key \in Key /\ Displacement(i) \in Slot
         /\ Displacement(i) = Away(home, slots, i)
         /\ Ahead(home[slots[i].key], Displacement(i)) = i
<1>1. Table(home, slots)  BY DEF TypeOK, Table
<1>2. slots[i] \in Record /\ slots[i].key \in Key /\ home[slots[i].key] \in Slot
  BY <1>1, AwayType DEF Live
<1>3. Displacement(i) = Gap(home[slots[i].key], i)
  <2>1. 0 \in 0..Capacity  BY TableAssumption
  <2> QED  BY <2>1, <1>2, Remainders DEF Displacement
<1> QED  BY <1>1, <1>2, <1>3, AwayType DEF Live, Away

LEMMA TakenFinite ==
  ASSUME NEW s
  PROVE  IsFiniteSet(Taken(s)) /\ Cardinality(Taken(s)) \in Nat
<1>1. IsFiniteSet(Slot)  BY FS_Interval, TableAssumption DEF Slot
<1>2. Taken(s) \in SUBSET Slot  BY DEF Taken
<1> QED  BY <1>1, <1>2, FS_Subset, FS_CardinalityType

(* The load limit leaves a slot empty. *)
LEMMA EmptySlot ==
  ASSUME TypeOK, Counted
  PROVE  \E e \in Slot : slots[e] = Absent
<1>1. Cardinality(Slot) = Capacity  BY FS_Interval, TableAssumption DEF Slot
<1>2. Cardinality(Taken(slots)) < Capacity  BY TableAssumption DEF TypeOK, Counted
<1>3. Taken(slots) # Slot  BY <1>1, <1>2, TableAssumption
<1> QED  BY <1>3 DEF Taken

(* A missed lookup is right: no slot holds the key. *)
LEMMA MissMeansAbsent ==
  ASSUME IInv, Looking, Miss
  PROVE  \A i \in Taken(slots) : slots[i].key # call.key
<1> SUFFICES ASSUME NEW i \in Taken(slots), slots[i].key = call.key  PROVE FALSE
  OBVIOUS
<1> DEFINE at == Ahead(home[call.key], call.dist)
<1>1. TypeOK /\ Table(home, slots) /\ Ordered(home, slots) /\ Searched  BY DEF IInv, TypeOK, Table
<1>2. i \in Slot /\ slots[i] # Absent  BY DEF Taken
<1>3. call.dist \in 0..Capacity /\ at \in Slot /\ At = at  BY <1>1, LookupPlace
<1>4. \A k \in 0..(call.dist - 1) : LET j == Ahead(home[slots[i].key], k)
                                   IN slots[j] = Absent \/ slots[j].key # slots[i].key
  BY <1>1 DEF Searched
<1>5. call.dist < Capacity /\ slots[at] # Absent /\ Away(home, slots, at) >= call.dist
  BY <1>1, <1>2, <1>3, <1>4, LookupFinds
<1> HIDE DEF at
<1>6. Displacement(at) = Away(home, slots, at) /\ Displacement(at) \in Slot
  BY <1>1, <1>3, <1>5, LivePlace DEF Live
<1>7. Displacement(at) < call.dist  BY <1>3, <1>5, TableAssumption DEF Miss, Live
<1> QED  BY <1>3, <1>5, <1>6, <1>7 DEF Slot
-----------------------------------------------------------------------------
(* The invariant is inductive.                                             *)

LEMMA InitInv == Init => IInv
<1> SUFFICES ASSUME Init  PROVE IInv
  OBVIOUS
<1>1. call = Idle /\ call.kind = "idle" /\ count = 0  BY DEF Init, Idle
<1>2. home \in [Key -> Slot] /\ slots \in [Slot -> Record \cup {Absent}]
  BY TableAssumption DEF Init
<1>3. TypeOK  BY <1>1, <1>2, TableAssumption DEF TypeOK
<1>4. \A i \in Slot : slots[i] = Absent  BY DEF Init
<1>5. Taken(slots) = {}  BY <1>4 DEF Taken
<1>6. Counted  BY <1>1, <1>5, FS_EmptySet DEF Counted
<1>7. Ordered(home, slots)  BY <1>4 DEF Ordered
<1>8. Distinct  BY <1>4 DEF Distinct, Settled, Live
<1> QED  BY <1>1, <1>3, <1>6, <1>7, <1>8 DEF IInv, Searched, Carrying, Shifting, Looking

(* A step that moves no record and begins or ends no move keeps all but     *)
(* what it knows of the lookup.                                            *)
LEMMA NothingMoved ==
  ASSUME IInv, UNCHANGED <<home, slots, count>>, call.kind # "shift",
         call' \in {Idle} \cup LookupCall, call'.kind = "set" => call'.val \in Value,
         Searched'
  PROVE  IInv'
<1>1. call'.kind \notin {"insert", "shift"}  BY DEF LookupCall, Idle
<1>2. TypeOK'  BY DEF IInv, TypeOK
<1>3. Ordered(home, slots)' /\ Counted'  BY DEF IInv, Counted
<1>4. Settled' = Settled  BY <1>1 DEF Settled, Hole, Live
<1>5. Distinct'  BY <1>4 DEF IInv, Distinct
<1> QED  BY <1>1, <1>2, <1>3, <1>5 DEF IInv, Carrying, Shifting

LEMMA StartPreserves ==
  ASSUME IInv, Begin
  PROVE  IInv'
<1>1. PICK kind \in {"get", "set", "remove"}, k \in Key, v \in Value \cup {Absent}, force \in BOOLEAN :
        Start(kind, k, v, force) /\ (kind = "set" => v \in Value)
  BY DEF Begin
<1> DEFINE c == [kind |-> kind, key |-> k, val |-> v, force |-> force, dist |-> 0]
<1>2. call = Idle /\ call' = c /\ UNCHANGED <<home, slots, count>>  BY <1>1 DEF Start
<1>3. 0 \in 0..Capacity  BY TableAssumption
<1>4. c \in LookupCall  BY <1>3, Zenon DEF LookupCall
<1>5. c.kind = kind /\ c.val = v /\ c.dist = 0  OBVIOUS
<1> HIDE DEF c
<1>6. Searched'  BY <1>2, <1>5 DEF Searched
<1>7. call.kind # "shift"  BY <1>2 DEF Idle
<1> QED  BY <1>1, <1>2, <1>4, <1>5, <1>6, <1>7, NothingMoved

LEMMA LookupStepPreserves ==
  ASSUME IInv, LookupStep
  PROVE  IInv'
<1>1. Looking /\ ~Hit /\ ~Miss /\ call' = [call EXCEPT !.dist = @ + 1]
      /\ UNCHANGED <<home, slots, count>>
  BY DEF LookupStep
<1>2. TypeOK  BY DEF IInv
<1>3. call \in LookupCall  BY <1>1, <1>2, CallShape
<1>4. At \in Slot /\ At = Ahead(home[call.key], call.dist) /\ call.dist \in 0..Capacity
  BY <1>1, <1>2, LookupPlace
<1>5. call.dist # Capacity  BY <1>1 DEF Miss
<1>6. call.dist + 1 \in 0..Capacity  BY <1>4, <1>5, TableAssumption
<1>7. /\ call' \in LookupCall /\ call'.kind = call.kind /\ call'.val = call.val
      /\ call'.key = call.key /\ call'.dist = call.dist + 1
  BY <1>1, <1>3, <1>6 DEF LookupCall
<1>8. slots[At] = Absent \/ slots[At].key # call.key
  BY <1>1, <1>4, <1>5, TableAssumption DEF Hit, Live
<1>9. Searched'
  <2> SUFFICES ASSUME NEW k \in 0..call.dist
               PROVE  \/ slots[Ahead(home[call.key], k)] = Absent
                      \/ slots[Ahead(home[call.key], k)].key # call.key
    BY <1>1, <1>4, <1>7 DEF Searched, Ahead
  <2>1. CASE k = call.dist  BY <2>1, <1>4, <1>8
  <2>2. CASE k # call.dist
    <3>1. k \in 0..(call.dist - 1)  BY <2>2, <1>4
    <3> QED  BY <3>1, <1>1 DEF IInv, Searched
  <2> QED  BY <2>1, <2>2
<1>10. call.kind # "shift"  BY <1>1 DEF Looking
<1>11. call'.kind = "set" => call'.val \in Value  BY <1>2, <1>7 DEF TypeOK
<1> QED  BY <1>1, <1>7, <1>9, <1>10, <1>11, NothingMoved

(* A call that ends where its lookup ended. *)
LEMMA EndsPreserve ==
  ASSUME IInv, Looking, call' = Idle, UNCHANGED <<home, slots, count>>
  PROVE  IInv'
<1>1. call.kind # "shift" /\ call'.kind = "idle"  BY DEF Looking, Idle
<1>2. Searched'  BY <1>1 DEF Searched, Looking
<1> QED  BY <1>1, <1>2, NothingMoved

LEMMA UpdatePreserves ==
  ASSUME IInv, Update
  PROVE  IInv'
<1>1. /\ call.kind = "set" /\ Hit /\ slots' = [slots EXCEPT ![At].val = call.val]
      /\ call' = Idle /\ UNCHANGED <<home, count>>
  BY DEF Update
<1>2. TypeOK /\ Looking  BY <1>1 DEF IInv, Looking
<1>3. At \in Slot /\ slots[At] # Absent  BY <1>1, <1>2, LookupPlace DEF Hit, Live
<1>4. slots[At] \in Record /\ call.val \in Value  BY <1>1, <1>2, <1>3 DEF TypeOK
<1> DEFINE at == At  r == [slots[at] EXCEPT !.val = call.val]
<1>5. r \in Record /\ r.key = slots[at].key  BY <1>4 DEF Record
<1>6. slots' = [slots EXCEPT ![at] = r]  BY <1>1
<1> HIDE DEF at, r
<1>7. r # Absent /\ at \in Slot /\ slots[at] # Absent  BY <1>3, <1>5, TableAssumption DEF at
<1>8. slots \in [Slot -> Record \cup {Absent}]  BY <1>2 DEF TypeOK
<1>9. slots' \in [Slot -> Record \cup {Absent}]  BY <1>5, <1>6, <1>7, <1>8
<1>10. \A i \in Slot : /\ slots'[i] = Absent <=> slots[i] = Absent
                       /\ slots[i] # Absent => slots'[i].key = slots[i].key
  BY <1>5, <1>6, <1>7, <1>8
<1>11. call'.kind = "idle" /\ call.kind # "shift"  BY <1>1 DEF Idle
<1>12. TypeOK'  BY <1>1, <1>2, <1>9, <1>11 DEF TypeOK
<1>13. Ordered(home, slots)'
  <2>1. Ordered(home, slots')  BY <1>2, <1>10, SameKeys DEF IInv, TypeOK, Table
  <2> QED  BY <2>1, <1>1
<1>14. Taken(slots)' = Taken(slots)  BY <1>10 DEF Taken
<1>15. Counted'  BY <1>1, <1>14 DEF IInv, Counted
<1>16. Settled' = Settled  BY <1>10, <1>11 DEF Settled, Hole, Live
<1>17. \A i \in Settled : i \in Slot /\ slots[i] # Absent  BY DEF Settled, Live
<1>18. Distinct'  BY <1>10, <1>16, <1>17 DEF IInv, Distinct
<1> QED  BY <1>11, <1>12, <1>13, <1>15, <1>18 DEF IInv, Searched, Looking, Carrying, Shifting
LEMMA InsertStartPreserves ==
  ASSUME IInv, InsertStart
  PROVE  IInv'
<1> DEFINE r == [key |-> call.key, val |-> call.val]
<1>1. /\ call.kind = "set" /\ Miss /\ Room /\ UNCHANGED <<home, slots, count>>
      /\ call' = [kind |-> "insert", carry |-> r, dist |-> 0]
  BY DEF InsertStart
<1>2. TypeOK /\ Looking  BY <1>1 DEF IInv, Looking
<1>3. call.key \in Key /\ call.val \in Value  BY <1>1, <1>2, LookupPlace DEF TypeOK
<1>4. r \in Record /\ r.key = call.key  BY <1>3 DEF Record
<1>5. 0 \in Slot  BY TableAssumption DEF Slot
<1> HIDE DEF r
<1>6. /\ call' \in InsertCall /\ call'.kind = "insert" /\ call'.carry = r /\ call'.dist = 0
  BY <1>1, <1>4, <1>5 DEF InsertCall
<1>7. TypeOK'  BY <1>1, <1>2, <1>6 DEF TypeOK
<1>8. Ordered(home, slots)' /\ Counted'  BY <1>1 DEF IInv, Counted
<1>9. Settled' = Settled  BY <1>1, <1>6 DEF Settled, Hole, Live
<1>10. Distinct'  BY <1>1, <1>9 DEF IInv, Distinct
<1>11. Carrying'
  <2>1. \A i \in Taken(slots) : slots[i].key # call.key  BY <1>1, <1>2, MissMeansAbsent
  <2>2. count' < Limit  BY <1>1 DEF Room
  <2>3. \A i \in Taken(slots)' : slots'[i].key # call'.carry.key
    BY <2>1, <1>1, <1>4, <1>6 DEF Taken
  <2>4. Backed(home, slots, Ahead(home[call.carry.key], call.dist), call.dist)'
    BY <1>6 DEF Backed
  <2> QED  BY <2>2, <2>3, <2>4 DEF Carrying
<1> QED  BY <1>6, <1>7, <1>8, <1>10, <1>11 DEF IInv, Searched, Looking, Shifting

(* The record in hand is put into an empty slot. *)
LEMMA InsertEndPreserves ==
  ASSUME IInv, call.kind = "insert", ~Live(CarryAt),
         slots' = [slots EXCEPT ![CarryAt] = call.carry], count' = count + 1, call' = Idle,
         home' = home
  PROVE  IInv'
<1> DEFINE p == CarryAt  r == call.carry
<1>1. TypeOK /\ Table(home, slots) /\ Ordered(home, slots) /\ Carrying
  BY DEF IInv, TypeOK, Table
<1>2. /\ r \in Record /\ call.dist \in Slot
      /\ p \in Slot /\ p = Ahead(home[r.key], call.dist)
  BY <1>1, CarryPlace
<1>3. /\ count < Limit /\ Backed(home, slots, p, call.dist)
      /\ \A i \in Taken(slots) : slots[i].key # r.key
  BY <1>1, <1>2 DEF Carrying
<1>4. slots[p] = Absent  BY DEF Live
<1>5. slots' = [slots EXCEPT ![p] = r]  OBVIOUS
<1> HIDE DEF p, r
<1>6. slots \in [Slot -> Record \cup {Absent}]  BY <1>1 DEF Table
<1>7. slots' \in [Slot -> Record \cup {Absent}]  BY <1>2, <1>5, <1>6
<1>8. call'.kind = "idle"  BY DEF Idle
<1>9. TypeOK'
  <2>1. count' \in 0..Limit  BY <1>1, <1>3, TableAssumption DEF TypeOK
  <2>2. home' \in [Key -> Slot]  BY <1>1 DEF TypeOK
  <2> QED  BY <2>1, <2>2, <1>7, <1>8 DEF TypeOK
<1>10. Ordered(home, slots)'
  <2>1. Backed(home, slots, p, call.dist)  BY <1>3
  <2>2. Ordered(home, Written(slots, p, r))  BY <2>1, <1>1, <1>2, <1>4, PutKeepsOrder
  <2> QED  BY <2>2, <1>5 DEF Written
<1>11. r # Absent  BY <1>2, TableAssumption
<1>12. /\ slots'[p] = r
       /\ \A i \in Slot : i # p => slots'[i] = slots[i]
  BY <1>2, <1>5, <1>6
<1>13. Taken(slots)' = Taken(slots) \cup {p} /\ p \notin Taken(slots)
  BY <1>2, <1>4, <1>11, <1>12 DEF Taken
<1>14. Counted'
  <2>1. Cardinality(Taken(slots) \cup {p}) = Cardinality(Taken(slots)) + 1
    BY <1>13, TakenFinite, FS_AddElement
  <2> QED  BY <2>1, <1>13 DEF IInv, Counted
<1>15. Settled = Taken(slots) /\ Settled' = Taken(slots)'
  BY <1>8 DEF Settled, Hole, Live, Taken
<1>16. Distinct'
  <2> SUFFICES ASSUME NEW i \in Taken(slots) \cup {p}, NEW j \in Taken(slots) \cup {p},
                      slots'[i].key = slots'[j].key
               PROVE  i = j
    BY <1>13, <1>15 DEF Distinct
  <2>1. \A k \in Taken(slots) : slots'[k] = slots[k]  BY <1>12, <1>13 DEF Taken
  <2> QED  BY <2>1, <1>3, <1>12, <1>15 DEF IInv, Distinct
<1> QED  BY <1>8, <1>9, <1>10, <1>14, <1>16 DEF IInv, Searched, Looking, Carrying, Shifting

(* The record in hand takes the slot of one nearer its home, which is then  *)
(* in hand.                                                                *)
LEMMA ExchangePreserves ==
  IInv /\ InsertStep /\ Live(CarryAt) /\ Yields(CarryAt) => IInv'
<1>0. SUFFICES ASSUME IInv, InsertStep, Live(CarryAt), Yields(CarryAt)  PROVE IInv'
  OBVIOUS
<1> DEFINE p == CarryAt  r == call.carry  d == call.dist  old == slots[p]  e == Displacement(p)
<1>1. TypeOK /\ Table(home, slots) /\ Ordered(home, slots) /\ Carrying /\ Counted
  BY <1>0 DEF IInv, TypeOK, Table
<1>b. call.kind = "insert" /\ home' = home /\ count' = count  BY <1>0 DEF InsertStep
<1>2. r \in Record /\ d \in Slot /\ p \in Slot /\ p = Ahead(home[r.key], d)
  BY <1>1, <1>b, CarryPlace
<1>3. /\ count < Limit /\ Backed(home, slots, p, d)
      /\ \A i \in Taken(slots) : slots[i].key # r.key
  BY <1>1, <1>2, <1>b DEF Carrying
<1>4. /\ old \in Record /\ old.key \in Key /\ e \in Slot /\ e = Away(home, slots, p)
      /\ Ahead(home[old.key], e) = p /\ old # Absent /\ slots[p] = old
  BY <1>0, <1>1, <1>2, LivePlace DEF Live
<1>5. e < d  BY <1>0 DEF Yields
<1>6. slots' = [slots EXCEPT ![p] = r]  BY <1>0 DEF InsertStep
<1>7. call' = [kind |-> "insert", carry |-> old, dist |-> e + 1]  BY <1>0 DEF InsertStep
<1>a. Backed(home, slots, p, e)  BY <1>1, <1>2, <1>4 DEF Ordered
<1> HIDE DEF p, r, d, old, e
<1>8. slots \in [Slot -> Record \cup {Absent}]  BY <1>1 DEF Table
<1>9. slots' \in [Slot -> Record \cup {Absent}]  BY <1>2, <1>6, <1>8
<1>10. e + 1 \in Slot /\ e \in Nat /\ d \in Nat  BY <1>2, <1>4, <1>5, TableAssumption DEF Slot
<1>11. call' \in InsertCall /\ call'.kind = "insert" /\ call'.carry = old /\ call'.dist = e + 1
  BY <1>4, <1>7, <1>10 DEF InsertCall
<1>12. TypeOK'  BY <1>b, <1>1, <1>9, <1>11 DEF TypeOK
<1>13. Ordered(home, slots') /\ Away(home, slots', p) = d
  <2>1. slots[p] = Absent \/ Away(home, slots, p) <= d  BY <1>4, <1>5, <1>10
  <2>2. Table(home, slots) /\ Ordered(home, slots) /\ Backed(home, slots, p, d)  BY <1>1, <1>3
  <2>3. Ordered(home, Written(slots, p, r)) /\ Away(home, Written(slots, p, r), p) = d
    BY <2>1, <2>2, <1>2, PutKeepsOrder
  <2> QED  BY <2>3, <1>6 DEF Written
<1>14. r # Absent  BY <1>2, TableAssumption
<1>15. /\ slots'[p] = r
       /\ \A i \in Slot : i # p => slots'[i] = slots[i]
  BY <1>2, <1>6, <1>8
<1>16. Taken(slots)' = Taken(slots) /\ p \in Taken(slots)
  BY <1>2, <1>4, <1>14, <1>15 DEF Taken
<1>17. Counted'  BY <1>b, <1>1, <1>16 DEF Counted
<1>18. Settled = Taken(slots) /\ Settled' = Taken(slots)'
  BY <1>b, <1>11 DEF Settled, Hole, Live, Taken
<1>19. \A k \in Taken(slots) : k # p => slots'[k] = slots[k]  BY <1>15 DEF Taken
<1>20. Distinct'  BY <1>0, <1>3, <1>15, <1>16, <1>18, <1>19 DEF IInv, Distinct
<1>21. Carrying'
  <2>1. Backed(home, slots', p, e)  BY <1>1, <1>2, <1>4, <1>6, <1>a, BackedAfterPut
  <2>2. slots'[p] # Absent /\ d >= e  BY <1>5, <1>10, <1>14, <1>15
  <2>3. Backed(home, slots', Ahead(p, 1), e + 1)
    BY <2>1, <2>2, <1>2, <1>4, <1>10, <1>13, BackedOn
  <2>4. Ahead(home[old.key], e + 1) = Ahead(p, 1)
    <3>1. home[old.key] \in Slot  BY <1>1, <1>4 DEF Table
    <3>2. e \in 0..Capacity /\ e < Capacity  BY <1>4, TableAssumption DEF Slot
    <3>3. Ahead(Ahead(home[old.key], e), 1) = Ahead(home[old.key], e + 1)
      BY <3>1, <3>2, AheadFacts
    <3> QED  BY <3>3, <1>4
  <2>5. \A i \in Taken(slots) : slots'[i].key # old.key
    BY <1>0, <1>3, <1>4, <1>15, <1>16, <1>18, <1>19 DEF IInv, Distinct
  <2>6. Backed(home', slots', Ahead(home'[call'.carry.key], call'.dist), call'.dist)
    BY <2>3, <2>4, <1>b, <1>11
  <2>7. \A i \in Taken(slots)' : slots'[i].key # call'.carry.key  BY <2>5, <1>11, <1>16
  <2>8. count' < Limit  BY <1>3, <1>b
  <2> QED  BY <2>6, <2>7, <2>8 DEF Carrying
<1>22. Ordered(home, slots)'  BY <1>b, <1>13
<1> QED  BY <1>11, <1>12, <1>17, <1>20, <1>21, <1>22 DEF IInv, Searched, Looking, Shifting
(* The record in hand moves on. *)
LEMMA PassOverPreserves ==
  ASSUME IInv, call.kind = "insert", Live(CarryAt), ~Yields(CarryAt),
         call' = PassedOver, UNCHANGED <<home, slots, count>>
  PROVE  IInv'
<1> DEFINE p == CarryAt  r == call.carry  d == call.dist  e == Displacement(p)
<1>1. TypeOK /\ Table(home, slots) /\ Ordered(home, slots) /\ Carrying /\ Counted
  BY DEF IInv, TypeOK, Table
<1>2. /\ r \in Record /\ d \in Slot /\ p \in Slot /\ p = Ahead(home[r.key], d)
      /\ home[r.key] \in Slot
  BY <1>1, CarryPlace
<1>3. /\ count < Limit /\ Backed(home, slots, p, d)
      /\ \A i \in Taken(slots) : slots[i].key # r.key
  BY <1>1, <1>2 DEF Carrying
<1>4. e \in Slot /\ e = Away(home, slots, p) /\ slots[p] # Absent  BY <1>1, <1>2, LivePlace DEF Live
<1>5. ~(e < d)  BY DEF Yields
<1>6. call \in InsertCall  BY <1>1, CallShape
<1>7. call' = [call EXCEPT !.dist = d + 1]  BY DEF PassedOver
<1> HIDE DEF p, r, d, e
<1>8. e \in Nat /\ e >= d /\ d \in 0..Capacity /\ d < Capacity /\ d + 1 \in 0..Capacity
  BY <1>2, <1>4, <1>5, TableAssumption DEF Slot
<1>9. Backed(home, slots, Ahead(p, 1), d + 1)
  <2>1. Backed(home, slots, p, d)  BY <1>3
  <2> QED  BY <2>1, <1>2, <1>4, <1>8, BackedOn
<1>10. Ahead(p, 1) = Ahead(home[r.key], d + 1) /\ Ahead(p, 1) \in Slot
  <2>1. Ahead(Ahead(home[r.key], d), 1) = Ahead(home[r.key], d + 1)  BY <1>2, <1>8, AheadFacts
  <2>2. Ahead(home[r.key], d + 1) \in Slot  BY <1>2, <1>8, AheadFacts
  <2> QED  BY <2>1, <2>2, <1>2
<1>11. d + 1 \in Slot
  <2>1. PICK x \in Slot : slots[x] = Absent  BY <1>1, EmptySlot
  <2> QED  BY <2>1, <1>8, <1>9, <1>10, LessThanATurn
<1>12. call' \in InsertCall /\ call'.kind = "insert" /\ call'.carry = r /\ call'.dist = d + 1
  BY <1>6, <1>7, <1>11 DEF InsertCall, r
<1>13. TypeOK'  BY <1>1, <1>12 DEF TypeOK
<1>14. Ordered(home, slots)' /\ Counted'
  BY <1>1 DEF Counted
<1>15. Settled' = Settled  BY <1>12 DEF Settled, Hole, Live
<1>16. Distinct'  BY <1>15 DEF IInv, Distinct
<1>17. Carrying'
  <2>1. Backed(home', slots', Ahead(home'[call'.carry.key], call'.dist), call'.dist)
    BY <1>9, <1>10, <1>12
  <2>2. \A i \in Taken(slots)' : slots'[i].key # call'.carry.key  BY <1>3, <1>12 DEF Taken
  <2>3. count' < Limit  BY <1>3
  <2> QED  BY <2>1, <2>2, <2>3 DEF Carrying
<1> QED  BY <1>12, <1>13, <1>14, <1>16, <1>17 DEF IInv, Searched, Looking, Shifting

LEMMA InsertStepPreserves ==
  ASSUME IInv, InsertStep
  PROVE  IInv'
<1>1. call.kind = "insert" /\ home' = home  BY DEF InsertStep
<1>2. CASE ~Live(CarryAt)  BY <1>1, <1>2, InsertEndPreserves DEF InsertStep
<1>3. CASE Live(CarryAt) /\ Yields(CarryAt)  BY <1>3, ExchangePreserves
<1>4. CASE Live(CarryAt) /\ ~Yields(CarryAt)  BY <1>1, <1>4, PassOverPreserves DEF InsertStep
<1> QED  BY <1>2, <1>3, <1>4

LEMMA RemoveStartPreserves ==
  ASSUME IInv, RemoveStart
  PROVE  IInv'
<1>1. /\ call.kind = "remove" /\ Hit /\ call' = [kind |-> "shift", hole |-> At]
      /\ UNCHANGED <<home, slots, count>>
  BY DEF RemoveStart
<1>2. TypeOK /\ Looking  BY <1>1 DEF IInv, Looking
<1>3. At \in Slot /\ slots[At] # Absent  BY <1>1, <1>2, LookupPlace DEF Hit, Live
<1>4. call' \in ShiftCall /\ call'.kind = "shift" /\ call'.hole = At  BY <1>1, <1>3 DEF ShiftCall
<1>5. TypeOK'  BY <1>1, <1>2, <1>4 DEF TypeOK
<1>6. Ordered(home, slots)' /\ Counted'
  BY <1>1 DEF IInv, Counted
<1>7. Settled' \subseteq Settled  BY <1>1, <1>4 DEF Settled, Hole, Live
<1>8. Distinct'  BY <1>1, <1>7 DEF IInv, Distinct
<1>9. Shifting'  BY <1>1, <1>3, <1>4 DEF Shifting
<1> QED  BY <1>4, <1>5, <1>6, <1>8, <1>9 DEF IInv, Searched, Looking, Carrying

(* The slot after the hole is another slot. *)
LEMMA HoleFacts ==
  ASSUME IInv, call.kind = "shift", NEW j, j = (call.hole + 1) % Capacity
  PROVE  /\ call.hole \in Slot /\ slots[call.hole] # Absent
         /\ j \in Slot /\ j = Ahead(call.hole, 1) /\ j # call.hole
         /\ Taken(slots) \ {call.hole} = Settled
<1>1. TypeOK /\ Counted /\ slots[call.hole] # Absent  BY DEF IInv, Shifting
<1>2. call.hole \in Slot  BY <1>1, CallShape DEF ShiftCall
<1>3. 1 \in 0..Capacity  BY TableAssumption
<1>4. j = Ahead(call.hole, 1) /\ j \in Slot  BY <1>2, <1>3, Remainders, AheadFacts
<1>5. Capacity > 1
  <2>1. PICK x \in Slot : slots[x] = Absent  BY <1>1, EmptySlot
  <2> QED  BY <2>1, <1>1, <1>2, TableAssumption DEF Slot
<1>6. j # call.hole  BY <1>2, <1>3, <1>4, <1>5, BackFacts
<1> QED  BY <1>1, <1>2, <1>4, <1>6 DEF Settled, Hole, Taken, Live
(* The cluster ends: the hole is emptied. *)
LEMMA ShiftEndPreserves ==
  ASSUME IInv, call.kind = "shift", NEW j, j = (call.hole + 1) % Capacity, ShiftEnds(j),
         slots' = [slots EXCEPT ![call.hole] = Absent], count' = count - 1, call' = Idle,
         home' = home
  PROVE  IInv'
<1> DEFINE p == call.hole
<1>1. TypeOK /\ Table(home, slots) /\ Ordered(home, slots) /\ Counted
  BY DEF IInv, TypeOK, Table
<1>2. /\ p \in Slot /\ slots[p] # Absent /\ j \in Slot /\ j = Ahead(p, 1)
      /\ Taken(slots) \ {p} = Settled
  BY HoleFacts
<1>3. slots[j] = Absent \/ Away(home, slots, j) = 0
  BY <1>1, <1>2, LivePlace DEF ShiftEnds, Live
<1>4. slots' = [slots EXCEPT ![p] = Absent]  OBVIOUS
<1> HIDE DEF p
<1>5. slots \in [Slot -> Record \cup {Absent}]  BY <1>1 DEF Table
<1>6. slots' \in [Slot -> Record \cup {Absent}]  BY <1>2, <1>4, <1>5
<1>7. slots'[p] = Absent /\ \A i \in Slot : i # p => slots'[i] = slots[i]  BY <1>2, <1>4, <1>5
<1>8. Taken(slots)' = Taken(slots) \ {p} /\ p \in Taken(slots)  BY <1>2, <1>7 DEF Taken
<1>9. call'.kind = "idle"  BY DEF Idle
<1>10. Counted' /\ count >= 1
  <2>1. Cardinality(Taken(slots) \ {p}) = Cardinality(Taken(slots)) - 1
    BY <1>8, TakenFinite, FS_RemoveElement
  <2>2. Cardinality(Taken(slots) \ {p}) \in Nat  BY <1>8, TakenFinite
  <2>3. Cardinality(Taken(slots)) \in Nat  BY TakenFinite
  <2>4. count = Cardinality(Taken(slots))  BY <1>1 DEF Counted
  <2>5. count - 1 = Cardinality(Taken(slots) \ {p}) /\ count >= 1  BY <2>1, <2>2, <2>3, <2>4
  <2> QED  BY <2>5, <1>8 DEF Counted
<1>11. TypeOK'
  <2>1. count' \in 0..Limit  BY <1>1, <1>10, TableAssumption DEF TypeOK
  <2>2. home' \in [Key -> Slot]  BY <1>1 DEF TypeOK
  <2> QED  BY <2>1, <2>2, <1>6, <1>9 DEF TypeOK
<1>12. Ordered(home, slots)'
  <2>1. Ordered(home, Written(slots, p, Absent))  BY <1>1, <1>2, <1>3, ClearKeepsOrder
  <2> QED  BY <2>1, <1>4 DEF Written
<1>13. Settled' = Taken(slots)'  BY <1>9 DEF Settled, Hole, Live, Taken
<1>14. \A i \in Settled : i \in Slot /\ i # p  BY <1>2 DEF Taken
<1>15. Distinct'  BY <1>2, <1>7, <1>8, <1>13, <1>14 DEF IInv, Distinct
<1> QED  BY <1>9, <1>10, <1>11, <1>12, <1>15 DEF IInv, Searched, Looking, Carrying, Shifting

(* The next record of the cluster moves back, and leaves the hole behind.  *)
LEMMA ShiftOnPreserves ==
  ASSUME IInv, call.kind = "shift", NEW j, j = (call.hole + 1) % Capacity, ~ShiftEnds(j),
         slots' = [slots EXCEPT ![call.hole] = slots[j]], call' = [call EXCEPT !.hole = j],
         UNCHANGED <<home, count>>
  PROVE  IInv'
<1> DEFINE p == call.hole
<1>1. TypeOK /\ Table(home, slots) /\ Ordered(home, slots) /\ Counted
  BY DEF IInv, TypeOK, Table
<1>2. /\ p \in Slot /\ slots[p] # Absent /\ j \in Slot /\ j = Ahead(p, 1) /\ j # p
      /\ Taken(slots) \ {p} = Settled
  BY HoleFacts
<1>3. slots[j] # Absent /\ slots[j] \in Record /\ Away(home, slots, j) > 0
  <2>1. Live(j) /\ Displacement(j) # 0  BY DEF ShiftEnds
  <2>2. slots[j] \in Record /\ Displacement(j) \in Slot /\ Displacement(j) = Away(home, slots, j)
    BY <2>1, <1>1, <1>2, LivePlace
  <2> QED  BY <2>1, <2>2 DEF Live, Slot
<1>4. slots' = [slots EXCEPT ![p] = slots[j]]  OBVIOUS
<1>5. call' \in ShiftCall /\ call'.kind = "shift" /\ call'.hole = j
  <2>1. call \in ShiftCall  BY <1>1, CallShape
  <2> QED  BY <2>1, <1>2 DEF ShiftCall
<1> HIDE DEF p
<1>6. slots \in [Slot -> Record \cup {Absent}]  BY <1>1 DEF Table
<1>7. slots' \in [Slot -> Record \cup {Absent}]  BY <1>2, <1>3, <1>4, <1>6
<1>8. slots'[p] = slots[j] /\ \A i \in Slot : i # p => slots'[i] = slots[i]
  BY <1>2, <1>4, <1>6
<1>9. Taken(slots)' = Taken(slots)  BY <1>2, <1>3, <1>8 DEF Taken
<1>10. Counted'  BY <1>1, <1>9 DEF Counted
<1>11. TypeOK'  BY <1>1, <1>5, <1>7 DEF TypeOK
<1>12. Ordered(home, slots)'
  <2>1. Ordered(home, Written(slots, p, slots[j]))  BY <1>1, <1>2, <1>3, ShiftKeepsOrder
  <2> QED  BY <2>1, <1>4 DEF Written
<1>13. Settled' = Taken(slots)' \ {j}  BY <1>5 DEF Settled, Hole, Live, Taken
<1>14. Distinct'
  <2>1. j \in Settled /\ p \in Taken(slots)  BY <1>2, <1>3 DEF Taken
  <2>2. \A i \in Settled : i \in Slot /\ i # p /\ slots'[i] = slots[i]
    BY <1>2, <1>8 DEF Taken
  <2>3. \A i \in Settled' : i = p \/ (i \in Settled /\ i # j)  BY <1>2, <1>9, <1>13
  <2> SUFFICES ASSUME NEW i \in Settled', NEW k \in Settled', slots'[i].key = slots'[k].key
               PROVE  i = k
    BY DEF Distinct
  <2>4. CASE i = p /\ k = p  BY <2>4
  <2>5. CASE i = p /\ k # p  BY <2>1, <2>2, <2>3, <2>5, <1>8 DEF IInv, Distinct
  <2>6. CASE i # p /\ k = p  BY <2>1, <2>2, <2>3, <2>6, <1>8 DEF IInv, Distinct
  <2>7. CASE i # p /\ k # p  BY <2>2, <2>3, <2>7 DEF IInv, Distinct
  <2> QED  BY <2>4, <2>5, <2>6, <2>7
<1>15. Shifting'  BY <1>2, <1>3, <1>5, <1>8 DEF Shifting
<1> QED  BY <1>5, <1>10, <1>11, <1>12, <1>14, <1>15 DEF IInv, Searched, Looking, Carrying

LEMMA ShiftStepPreserves ==
  ASSUME IInv, ShiftStep
  PROVE  IInv'
<1> DEFINE j == (call.hole + 1) % Capacity
<1>1. call.kind = "shift" /\ home' = home  BY DEF ShiftStep
<1>2. CASE ShiftEnds(j)
  <2>1. slots' = [slots EXCEPT ![call.hole] = Absent] /\ count' = count - 1 /\ call' = Idle
    BY <1>2 DEF ShiftStep
  <2> QED  BY <2>1, <1>1, <1>2, ShiftEndPreserves
<1>3. CASE ~ShiftEnds(j)
  <2>1. /\ slots' = [slots EXCEPT ![call.hole] = slots[j]] /\ call' = [call EXCEPT !.hole = j]
        /\ count' = count
    BY <1>3 DEF ShiftStep
  <2> QED  BY <2>1, <1>1, <1>3, ShiftOnPreserves
<1> QED  BY <1>2, <1>3

LEMMA Preserves == IInv /\ [Next]_vars => IInv'
<1> SUFFICES ASSUME IInv, [Next]_vars  PROVE IInv'
  OBVIOUS
<1>1. CASE Begin  BY <1>1, StartPreserves
<1>2. CASE LookupStep  BY <1>2, LookupStepPreserves
<1>3. CASE GetDone  BY <1>3, EndsPreserve DEF GetDone, Looking
<1>4. CASE Update  BY <1>4, UpdatePreserves
<1>5. CASE TableFull  BY <1>5, EndsPreserve DEF TableFull, Looking
<1>6. CASE InsertStart  BY <1>6, InsertStartPreserves
<1>7. CASE InsertStep  BY <1>7, InsertStepPreserves
<1>8. CASE RemoveRefused  BY <1>8, EndsPreserve DEF RemoveRefused, Looking
<1>9. CASE RemoveStart  BY <1>9, RemoveStartPreserves
<1>10. CASE ShiftStep  BY <1>10, ShiftStepPreserves
<1>11. CASE UNCHANGED vars
  <2>1. UNCHANGED <<home, slots, count, call>>  BY <1>11 DEF vars
  <2>2. TypeOK' /\ Shifting'  BY <2>1 DEF IInv, TypeOK, Shifting
  <2>3. Ordered(home, slots)' /\ Counted'
    BY <2>1 DEF IInv, Counted
  <2>4. Settled' = Settled  BY <2>1 DEF Settled, Hole, Live
  <2>5. Distinct' /\ Searched'  BY <2>1, <2>4 DEF IInv, Distinct, Searched, Looking
  <2>6. Carrying'
    BY <2>1 DEF IInv, Carrying
  <2> QED  BY <2>2, <2>3, <2>5, <2>6 DEF IInv
<1> QED
  BY <1>1, <1>2, <1>3, <1>4, <1>5, <1>6, <1>7, <1>8, <1>9, <1>10, <1>11 DEF Next, Step

LEMMA Invariant == Spec => []IInv
BY InitInv, Preserves, PTL DEF Spec

(* Between calls a record away from its home follows one at most one slot   *)
(* nearer to its own, whatever calls came before and however they moved     *)
(* records (drive.ts #insert, #remove): what lets #lookup stop early.       *)
THEOREM InOrder == Spec => []RobinHood
<1>1. IInv => RobinHood
  <2> SUFFICES ASSUME IInv, NEW i \in Slot, Live(i), Displacement(i) > 0
               PROVE  LET p == (i + Capacity - 1) % Capacity
                      IN Live(p) /\ Displacement(i) <= Displacement(p) + 1
    BY DEF RobinHood
  <2> DEFINE m == Away(home, slots, i)  p == Back(i, 1)
  <2>1. TypeOK /\ Ordered(home, slots)  BY DEF IInv
  <2>2. Displacement(i) = m /\ m \in Slot  BY <2>1, LivePlace
  <2>3. 1 \in 0..Capacity  BY TableAssumption
  <2>4. (i + Capacity - 1) % Capacity = p /\ p \in Slot  BY <2>3, Remainders, BackFacts
  <2>5. Backed(home, slots, i, m)  BY <2>1 DEF Ordered, Live
  <2> HIDE DEF m, p
  <2>6. 1 \in 1..m  BY <2>2 DEF Slot
  <2>7. Live(p) /\ Away(home, slots, p) >= m - 1  BY <2>5, <2>6 DEF Backed, Live, p
  <2>8. Displacement(p) = Away(home, slots, p) /\ Displacement(p) \in Slot
    BY <2>1, <2>4, <2>7, LivePlace
  <2>9. m <= Displacement(p) + 1  BY <2>2, <2>7, <2>8 DEF Slot
  <2> QED  BY <2>2, <2>4, <2>7, <2>9
<1> QED  BY <1>1, Invariant, PTL
-----------------------------------------------------------------------------
(* The table implements the map.                                           *)

(* The map a set of records stands for. *)
MapOf(R) ==
  [k \in Key |-> IF \E r \in R : r.key = k THEN (CHOOSE r \in R : r.key = k).val ELSE Absent]

LEMMA MapAt ==
  ASSUME NEW R, NEW r \in R, NEW k \in Key, r.key = k, \A s \in R : s.key = k => s = r
  PROVE  MapOf(R)[k] = r.val
<1> DEFINE c == CHOOSE s \in R : s.key = k
<1>1. c \in R /\ c.key = k  OBVIOUS
<1>2. c = r  BY <1>1
<1>3. MapOf(R)[k] = c.val  BY DEF MapOf
<1> QED  BY <1>2, <1>3

LEMMA MapNone ==
  ASSUME NEW R, NEW k \in Key, \A r \in R : r.key # k
  PROVE  MapOf(R)[k] = Absent
BY DEF MapOf

(* Records that differ in one key make maps that differ there. *)
LEMMA MapElsewhere ==
  ASSUME NEW R, NEW Q, \A r, s \in R : r.key = s.key => r = s,
         NEW k \in Key, \A r : r.key # k => (r \in R <=> r \in Q),
         NEW v, MapOf(Q)[k] = v
  PROVE  MapOf(Q) = [MapOf(R) EXCEPT ![k] = v]
<1>1. ASSUME NEW j \in Key, j # k  PROVE MapOf(Q)[j] = MapOf(R)[j]
  <2>1. CASE \E r \in R : r.key = j
    <3>1. PICK r \in R : r.key = j  BY <2>1
    <3>2. r \in Q /\ \A s \in Q : s.key = j => s = r  BY <3>1, <1>1
    <3>3. \A s \in R : s.key = j => s = r  BY <3>1
    <3>4. MapOf(R)[j] = r.val  BY <3>1, <3>3, MapAt
    <3>5. MapOf(Q)[j] = r.val  BY <3>1, <3>2, MapAt
    <3> QED  BY <3>4, <3>5
  <2>2. CASE \A r \in R : r.key # j
    <3>1. \A r \in Q : r.key # j  BY <2>2, <1>1
    <3> QED  BY <2>2, <3>1, MapNone
  <2> QED  BY <2>1, <2>2
<1>2. MapOf(Q) = [j \in Key |-> MapOf(Q)[j]] /\ MapOf(R) = [j \in Key |-> MapOf(R)[j]]
  BY DEF MapOf
<1> HIDE DEF MapOf
<1> QED  BY <1>1, <1>2

LEMMA ContentsIsMapOf == Contents = MapOf(Records)
BY DEF Contents, MapOf

(* The records of the table have a key each. *)
LEMMA OneRecordEach ==
  ASSUME IInv
  PROVE  /\ Records \subseteq Record
         /\ \A r, s \in Records : r.key = s.key => r = s
<1>1. TypeOK /\ Distinct /\ Carrying  BY DEF IInv
<1>2. \A i \in Settled : i \in Taken(slots) /\ i \in Slot /\ slots[i] # Absent
  BY DEF Settled, Live, Taken
<1>3. \A i \in Settled : slots[i] \in Record  BY <1>1, <1>2 DEF TypeOK
<1>4. CASE call.kind = "insert"
  <2>1. Records = {slots[i] : i \in Settled} \cup {call.carry}  BY <1>4 DEF Records, InHand
  <2>2. call.carry \in Record  BY <1>1, <1>4, CarryPlace
  <2>3. \A i \in Settled : slots[i].key # call.carry.key  BY <1>1, <1>2, <1>4 DEF Carrying
  <2> QED  BY <2>1, <2>2, <2>3, <1>1, <1>3 DEF Distinct
<1>5. CASE call.kind # "insert"
  <2>1. Records = {slots[i] : i \in Settled}  BY <1>5 DEF Records, InHand
  <2> QED  BY <2>1, <1>1, <1>3 DEF Distinct
<1> QED  BY <1>4, <1>5

(* What a finished lookup knows of the map. *)
LEMMA Found ==
  ASSUME IInv, Looking
  PROVE  /\ Hit => Contents[call.key] = slots[At].val /\ slots[At].val \in Value
         /\ Miss => Contents[call.key] = Absent
         /\ Records = {slots[i] : i \in Taken(slots)} /\ Settled = Taken(slots)
<1>1. TypeOK  BY DEF IInv
<1>2. Settled = Taken(slots) /\ Records = {slots[i] : i \in Taken(slots)}
  BY DEF Looking, Settled, Hole, Live, Taken, Records, InHand
<1>3. call.key \in Key /\ At \in Slot  BY <1>1, LookupPlace
<1>4. ASSUME Hit  PROVE Contents[call.key] = slots[At].val /\ slots[At].val \in Value
  <2>1. slots[At].key = call.key /\ At \in Taken(slots)  BY <1>3, <1>4 DEF Hit, Live, Taken
  <2>2. slots[At] \in Records  BY <2>1, <1>2
  <2>3. slots[At] \in Record  BY <2>2, OneRecordEach
  <2>4. \A s \in Records : s.key = call.key => s = slots[At]  BY <2>1, <2>2, OneRecordEach
  <2>5. Contents[call.key] = slots[At].val  BY <2>1, <2>2, <2>4, <1>3, MapAt, ContentsIsMapOf
  <2> QED  BY <2>3, <2>5 DEF Record
<1>5. ASSUME Miss  PROVE Contents[call.key] = Absent
  <2>1. \A r \in Records : r.key # call.key  BY <1>2, <1>5, MissMeansAbsent
  <2> QED  BY <2>1, <1>3, MapNone, ContentsIsMapOf
<1> QED  BY <1>2, <1>4, <1>5
(* The instance counts as this module does. *)
LEMMA SameCardinality ==
  ASSUME NEW S
  PROVE  Map!Cardinality(S) = Cardinality(S)
BY DEF Map!Cardinality, Cardinality

(* Between the moves the counter is the number of entries of the map, so a  *)
(* write is refused at the limit and only there.                           *)
LEMMA EntriesCounted ==
  ASSUME IInv, Looking
  PROVE  Map!Cardinality(Map!Entries) = count
<1> DEFINE T == Taken(slots)  E == Map!Entries  f == [i \in T |-> slots[i].key]
<1>1. TypeOK /\ Counted /\ Distinct  BY DEF IInv
<1>2. Records = {slots[i] : i \in T} /\ Settled = T  BY Found
<1>3. \A r \in Records : r.key \in Key /\ r.val \in Value  BY OneRecordEach DEF Record
<1>4. ASSUME NEW i \in T  PROVE slots[i].key \in E
  <2>1. slots[i] \in Records  BY <1>2
  <2>2. slots[i].key \in Key /\ slots[i].val \in Value  BY <2>1, <1>3
  <2>3. \A s \in Records : s.key = slots[i].key => s = slots[i]  BY <2>1, OneRecordEach
  <2>4. Contents[slots[i].key] = slots[i].val
    BY <2>1, <2>2, <2>3, MapAt, ContentsIsMapOf
  <2> QED  BY <2>2, <2>4, TableAssumption DEF Map!Entries
<1>5. ASSUME NEW k \in E  PROVE \E i \in T : slots[i].key = k
  <2>1. k \in Key /\ Contents[k] # Absent  BY DEF Map!Entries
  <2>2. PICK r \in Records : r.key = k  BY <2>1, MapNone, ContentsIsMapOf
  <2> QED  BY <2>2, <1>2
<1> HIDE DEF E
<1>6. f \in [T -> E] /\ \A i \in T : f[i] = slots[i].key  BY <1>4
<1>7. \A i, j \in T : f[i] = f[j] => i = j  BY <1>1, <1>2, <1>6 DEF Distinct
<1>8. \A k \in E : \E i \in T : f[i] = k  BY <1>5, <1>6
<1> HIDE DEF f, T
<1>9. f \in Bijection(T, E)  BY <1>6, <1>7, <1>8 DEF Bijection, Injection, Surjection, IsInjective
<1>10. ExistsBijection(T, E)  BY <1>9 DEF ExistsBijection
<1>11. IsFiniteSet(T)  BY TakenFinite DEF T
<1>12. Cardinality(E) = Cardinality(T)  BY <1>10, <1>11, FS_Bijection
<1>13. Cardinality(E) = count  BY <1>1, <1>12 DEF Counted, T
<1> QED  BY <1>13, SameCardinality DEF E

(* Once a call is decided, the records only change places. *)
LEMMA InsertKeepsRecords ==
  ASSUME IInv, InsertStep
  PROVE  Records' = Records /\ Undecided' = Undecided /\ answer' = answer
<1> DEFINE p == CarryAt  r == call.carry  old == slots[p]
<1>1. TypeOK  BY DEF IInv
<1>2. call.kind = "insert" /\ answer' = answer  BY DEF InsertStep
<1>3. p \in Slot /\ r \in Record /\ r # Absent  BY <1>1, <1>2, CarryPlace, TableAssumption
<1>4. slots \in [Slot -> Record \cup {Absent}]  BY <1>1 DEF TypeOK
<1>5. Records = {slots[i] : i \in Taken(slots)} \cup {r}
  BY <1>2 DEF Records, InHand, Settled, Hole, Live, Taken
<1>6. Undecided = [kind |-> "none"]  BY <1>2 DEF Undecided, Looking
<1>7. CASE ~Live(p)
  <2>1. slots' = [slots EXCEPT ![p] = r] /\ call' = Idle  BY <1>7 DEF InsertStep
  <2>2. call'.kind = "idle"  BY <2>1 DEF Idle
  <2>3. Records' = {slots'[i] : i \in Taken(slots)'}
    BY <2>2 DEF Records, InHand, Settled, Hole, Live, Taken
  <2>4. slots[p] = Absent  BY <1>7 DEF Live
  <2> HIDE DEF p, r
  <2>5. slots'[p] = r /\ \A i \in Slot : i # p => slots'[i] = slots[i]  BY <2>1, <1>3, <1>4
  <2>6. \A i \in Slot : i \in Taken(slots)' <=> i \in Taken(slots) \/ i = p
    BY <2>5, <1>3 DEF Taken
  <2>7. Records' = Records  BY <2>3, <2>4, <2>5, <2>6, <1>3, <1>5 DEF Taken
  <2>8. Undecided' = [kind |-> "none"]  BY <2>2 DEF Undecided, Looking
  <2> QED  BY <2>7, <2>8, <1>2, <1>6
<1>8. CASE Live(p) /\ Yields(p)
  <2>1. /\ slots' = [slots EXCEPT ![p] = r] /\ call'.kind = "insert" /\ call'.carry = old
    BY <1>8 DEF InsertStep
  <2>3. Records' = {slots'[i] : i \in Taken(slots)'} \cup {old}
    BY <2>1 DEF Records, InHand, Settled, Hole, Live, Taken
  <2>4. slots[p] # Absent /\ slots[p] = old  BY <1>8 DEF Live
  <2> HIDE DEF p, r, old
  <2>5. slots'[p] = r /\ \A i \in Slot : i # p => slots'[i] = slots[i]  BY <2>1, <1>3, <1>4
  <2>6. Taken(slots)' = Taken(slots) /\ p \in Taken(slots)  BY <2>4, <2>5, <1>3 DEF Taken
  <2>7. \A i \in Taken(slots) : i \in Slot  BY DEF Taken
  <2>8. Records' = Records  BY <2>3, <2>4, <2>5, <2>6, <2>7, <1>5
  <2>9. Undecided' = [kind |-> "none"]  BY <2>1 DEF Undecided, Looking
  <2> QED  BY <2>8, <2>9, <1>2, <1>6
<1>9. CASE Live(p) /\ ~Yields(p)
  <2>1. slots' = slots /\ call' = PassedOver  BY <1>9 DEF InsertStep
  <2>2. call \in InsertCall  BY <1>1, <1>2, CallShape
  <2>3. call'.kind = "insert" /\ call'.carry = r  BY <2>1, <2>2 DEF PassedOver, InsertCall
  <2>4. Records' = Records  BY <2>1, <2>3, <1>2 DEF Records, InHand, Settled, Hole, Live
  <2>5. Undecided' = [kind |-> "none"]  BY <2>3 DEF Undecided, Looking
  <2> QED  BY <2>4, <2>5, <1>2, <1>6
<1> QED  BY <1>7, <1>8, <1>9

LEMMA ShiftKeepsRecords ==
  ASSUME IInv, ShiftStep
  PROVE  Records' = Records /\ Undecided' = Undecided /\ answer' = answer
<1> DEFINE p == call.hole  j == (call.hole + 1) % Capacity
<1>1. TypeOK  BY DEF IInv
<1>2. call.kind = "shift" /\ answer' = answer  BY DEF ShiftStep
<1>3. p \in Slot /\ slots[p] # Absent /\ j \in Slot /\ j # p /\ Taken(slots) \ {p} = Settled
  BY <1>2, HoleFacts
<1>4. slots \in [Slot -> Record \cup {Absent}]  BY <1>1 DEF TypeOK
<1>5. Records = {slots[i] : i \in Taken(slots) \ {p}}  BY <1>2, <1>3 DEF Records, InHand
<1>6. Undecided = [kind |-> "none"]  BY <1>2 DEF Undecided, Looking
<1>7. CASE ShiftEnds(j)
  <2>1. slots' = [slots EXCEPT ![p] = Absent] /\ call' = Idle  BY <1>7 DEF ShiftStep
  <2>2. call'.kind = "idle"  BY <2>1 DEF Idle
  <2>3. Records' = {slots'[i] : i \in Taken(slots)'}
    BY <2>2 DEF Records, InHand, Settled, Hole, Live, Taken
  <2> HIDE DEF p, j
  <2>4. slots'[p] = Absent /\ \A i \in Slot : i # p => slots'[i] = slots[i]  BY <2>1, <1>3, <1>4
  <2>5. Taken(slots)' = Taken(slots) \ {p}  BY <2>4, <1>3 DEF Taken
  <2>6. \A i \in Taken(slots) : i \in Slot  BY DEF Taken
  <2>7. Records' = Records  BY <2>3, <2>4, <2>5, <2>6, <1>5
  <2>8. Undecided' = [kind |-> "none"]  BY <2>2 DEF Undecided, Looking
  <2> QED  BY <2>7, <2>8, <1>2, <1>6
<1>8. CASE ~ShiftEnds(j)
  <2>1. slots' = [slots EXCEPT ![p] = slots[j]] /\ call' = [call EXCEPT !.hole = j]
    BY <1>8 DEF ShiftStep
  <2>2. call \in ShiftCall  BY <1>1, <1>2, CallShape
  <2>3. slots[j] # Absent  BY <1>8 DEF ShiftEnds, Live
  <2> HIDE DEF p, j
  <2>4. call'.kind = "shift" /\ call'.hole = j  BY <2>1, <2>2 DEF ShiftCall
  <2>5. Records' = {slots'[i] : i \in Taken(slots)' \ {j}}
    BY <2>4 DEF Records, InHand, Settled, Hole, Live, Taken
  <2>6. slots'[p] = slots[j] /\ \A i \in Slot : i # p => slots'[i] = slots[i]
    BY <2>1, <1>3, <1>4
  <2>7. Taken(slots)' = Taken(slots) /\ p \in Taken(slots) /\ j \in Taken(slots)
    BY <2>3, <2>6, <1>3 DEF Taken
  <2>8. \A i \in Taken(slots) : i \in Slot  BY DEF Taken
  <2>9. Records' = Records  BY <2>5, <2>6, <2>7, <2>8, <1>3, <1>5
  <2>10. Undecided' = [kind |-> "none"]  BY <2>4 DEF Undecided, Looking
  <2> QED  BY <2>9, <2>10, <1>2, <1>6
<1> QED  BY <1>7, <1>8
(* What the map sees of a lookup in progress. *)
LEMMA AskedCall ==
  ASSUME IInv, Looking
  PROVE  /\ Undecided.kind = call.kind /\ Undecided.key = call.key
         /\ Undecided.val = call.val /\ Undecided.force = call.force
<1>1. call # Idle  BY DEF Looking, Idle
<1>2. Undecided = [kind |-> call.kind, key |-> call.key, val |-> call.val, force |-> call.force]
  BY <1>1 DEF Undecided
<1>3. [kind |-> call.kind, key |-> call.key, val |-> call.val, force |-> call.force].force = call.force
  BY Zenon
<1> QED  BY <1>2, <1>3, Zenon

LEMMA NothingAsked ==
  ASSUME call.kind \notin {"get", "set", "remove"}
  PROVE  Undecided = Map!NoCall
BY DEF Undecided, Looking, Map!NoCall

(* The start of a call is the call being asked. *)
LEMMA StartAsks ==
  ASSUME NEW kind \in {"get", "set", "remove"}, NEW k, NEW v, NEW force, Start(kind, k, v, force)
  PROVE  Map!Ask(kind, k, v, force)
<1> DEFINE c == [kind |-> kind, key |-> k, val |-> v, force |-> force, dist |-> 0]
<1>1. call = Idle /\ call' = c /\ slots' = slots /\ answer' = answer  BY DEF Start
<1>2. c.kind = kind /\ c.key = k /\ c.val = v /\ c.force = force  OBVIOUS
<1> HIDE DEF c
<1>3. call.kind = "idle"  BY <1>1 DEF Idle
<1>4. Undecided = Map!NoCall  BY <1>3, NothingAsked
<1>5. call' # Idle /\ call'.kind \in {"get", "set", "remove"}  BY <1>1, <1>2 DEF Idle
<1>6. Undecided' = [kind |-> kind, key |-> k, val |-> v, force |-> force]
  BY <1>1, <1>2, <1>5 DEF Undecided, Looking
<1>7. Settled' = Settled /\ InHand' = InHand
  BY <1>1, <1>3, <1>5 DEF Settled, Hole, Live, InHand
<1>8. Contents' = Contents  BY <1>1, <1>7 DEF Contents, Records
<1> QED  BY <1>1, <1>4, <1>6, <1>8 DEF Map!Ask

LEMMA BeginRefines ==
  ASSUME Begin
  PROVE  Map!MapNext
<1>1. PICK k \in Key : \/ Start("get", k, Absent, FALSE)
                       \/ \E v \in Value : Start("set", k, v, FALSE)
                       \/ \E force \in BOOLEAN : Start("remove", k, Absent, force)
  BY DEF Begin
<1>2. CASE Start("get", k, Absent, FALSE)
  <2>1. Map!Ask("get", k, Absent, FALSE)  BY <1>2, StartAsks
  <2> QED  BY <2>1 DEF Map!MapNext
<1>3. CASE \E v \in Value : Start("set", k, v, FALSE)
  <2>1. PICK v \in Value : Start("set", k, v, FALSE)  BY <1>3
  <2>2. Map!Ask("set", k, v, FALSE)  BY <2>1, StartAsks
  <2> QED  BY <2>2 DEF Map!MapNext
<1>4. CASE \E force \in BOOLEAN : Start("remove", k, Absent, force)
  <2>1. PICK force \in BOOLEAN : Start("remove", k, Absent, force)  BY <1>4
  <2>2. Map!Ask("remove", k, Absent, force)  BY <2>1, StartAsks
  <2> QED  BY <2>2 DEF Map!MapNext
<1> QED  BY <1>1, <1>2, <1>3, <1>4

LEMMA LookupRefines ==
  ASSUME IInv, LookupStep
  PROVE  UNCHANGED Map!mapVars
<1>1. Looking /\ call' = [call EXCEPT !.dist = @ + 1] /\ slots' = slots /\ answer' = answer
  BY DEF LookupStep
<1>2. call \in LookupCall  BY <1>1, CallShape DEF IInv
<1>3. call'.kind = call.kind /\ call'.key = call.key /\ call'.val = call.val
  BY <1>1, <1>2 DEF LookupCall
<1>4. call'.force = call.force  BY <1>1, <1>2 DEF LookupCall
<1>5. call # Idle /\ call' # Idle  BY <1>1, <1>3 DEF Looking, Idle
<1>6. Undecided' = Undecided  BY <1>1, <1>3, <1>4, <1>5 DEF Undecided, Looking
<1>7. Records' = Records  BY <1>1, <1>3 DEF Looking, Records, Settled, Hole, Live, InHand
<1> QED  BY <1>1, <1>6, <1>7 DEF Map!mapVars, Contents

(* A call that is decided without a move of records. *)
LEMMA DecidedQuietly ==
  ASSUME IInv, Looking, call' = Idle, slots' = slots
  PROVE  Contents' = Contents /\ Undecided' = Map!NoCall
<1>1. call'.kind = "idle"  BY DEF Idle
<1>2. Records' = Records  BY <1>1 DEF Looking, Records, Settled, Hole, Live, InHand
<1>3. Undecided' = Map!NoCall  BY <1>1 DEF Undecided, Looking, Map!NoCall
<1> QED  BY <1>2, <1>3 DEF Contents

LEMMA GetRefines ==
  ASSUME IInv, GetDone
  PROVE  Map!MapNext
<1>1. /\ call.kind = "get" /\ (Hit \/ Miss) /\ call' = Idle /\ slots' = slots
      /\ answer' = IF Hit THEN slots[At].val ELSE Absent
  BY DEF GetDone
<1>2. Looking  BY <1>1 DEF Looking
<1>3. Contents' = Contents /\ Undecided' = Map!NoCall  BY <1>1, <1>2, DecidedQuietly
<1>4. answer' = Contents[call.key]  BY <1>1, <1>2, Found
<1>5. Undecided.kind = "get" /\ Undecided.key = call.key  BY <1>1, <1>2, AskedCall
<1>6. Map!Get(Undecided.key)  BY <1>3, <1>4, <1>5 DEF Map!Get
<1>7. Map!Decide  BY <1>3, <1>5, <1>6 DEF Map!Decide
<1> QED  BY <1>7 DEF Map!MapNext

LEMMA FullRefines ==
  ASSUME IInv, TableFull
  PROVE  Map!MapNext
<1>1. /\ call.kind = "set" /\ Miss /\ ~(count < Limit) /\ call' = Idle /\ slots' = slots
      /\ answer' = "tableFull"
  BY DEF TableFull, Room
<1>2. Looking  BY <1>1 DEF Looking
<1>3. Contents' = Contents /\ Undecided' = Map!NoCall  BY <1>1, <1>2, DecidedQuietly
<1>4. Contents[call.key] = Absent  BY <1>1, <1>2, Found
<1>5. /\ Undecided.kind = "set" /\ Undecided.key = call.key /\ Undecided.val = call.val
  BY <1>1, <1>2, AskedCall
<1>6. ~(Map!Cardinality(Map!Entries) < Limit)  BY <1>1, <1>2, EntriesCounted
<1>7. Map!Set(Undecided.key, Undecided.val)  BY <1>1, <1>3, <1>4, <1>5, <1>6 DEF Map!Set
<1>8. Map!Decide  BY <1>3, <1>5, <1>7 DEF Map!Decide
<1> QED  BY <1>8 DEF Map!MapNext
LEMMA UpdateRefines ==
  ASSUME IInv, Update
  PROVE  Map!MapNext
<1> DEFINE at == At  k == call.key  v == call.val
<1>1. /\ call.kind = "set" /\ Hit /\ slots' = [slots EXCEPT ![at].val = v]
      /\ call' = Idle /\ answer' = "ok"
  BY DEF Update
<1>2. TypeOK /\ Looking  BY <1>1 DEF IInv, Looking
<1>3. at \in Slot /\ slots[at] # Absent /\ slots[at].key = k /\ k \in Key
  BY <1>1, <1>2, LookupPlace DEF Hit, Live
<1>4. slots \in [Slot -> Record \cup {Absent}] /\ slots[at] \in Record /\ v \in Value
  BY <1>1, <1>2, <1>3 DEF TypeOK
<1>5. call'.kind = "idle"  BY <1>1 DEF Idle
<1>6. Records = {slots[i] : i \in Taken(slots)} /\ Settled = Taken(slots)
      /\ Contents[k] = slots[at].val /\ slots[at].val \in Value
  BY <1>1, <1>2, Found
<1>7. Records' = {slots'[i] : i \in Taken(slots)'}
  BY <1>5 DEF Records, InHand, Settled, Hole, Live, Taken
<1>8. /\ Undecided.kind = "set" /\ Undecided.key = k /\ Undecided.val = v
  BY <1>1, <1>2, AskedCall
<1>9. Undecided' = Map!NoCall  BY <1>5 DEF Undecided, Looking, Map!NoCall
<1>10. Contents = MapOf(Records) /\ Contents' = MapOf(Records')
  BY DEF Contents, MapOf
<1> DEFINE r == [slots[at] EXCEPT !.val = v]
<1>11. slots' = [slots EXCEPT ![at] = r] /\ r \in Record /\ r.key = k /\ r.val = v
  BY <1>1, <1>3, <1>4 DEF Record
<1> HIDE DEF at, k, v, r
<1>12. slots'[at] = r /\ \A i \in Slot : i # at => slots'[i] = slots[i]  BY <1>3, <1>4, <1>11
<1>13. Taken(slots)' = Taken(slots) /\ at \in Taken(slots) /\ r # Absent
  BY <1>3, <1>11, <1>12, TableAssumption DEF Taken
<1>14. \A i \in Taken(slots) : /\ i \in Slot
                               /\ i # at => slots'[i] = slots[i] /\ slots[i].key # k
  <2>1. \A i \in Taken(slots) : i # at => slots[i].key # slots[at].key
    BY <1>6, <1>13 DEF IInv, Distinct
  <2> QED  BY <2>1, <1>3, <1>12 DEF Taken
<1>15. r \in Records' /\ \A s \in Records' : s.key = k => s = r  BY <1>7, <1>12, <1>13, <1>14
<1>16. \A s : s.key # k => (s \in Records <=> s \in Records')
  BY <1>3, <1>6, <1>7, <1>11, <1>12, <1>13, <1>14
<1>17. MapOf(Records')[k] = v  BY <1>3, <1>11, <1>15, MapAt
<1>18. Contents' = [Contents EXCEPT ![k] = v]
  BY <1>3, <1>10, <1>16, <1>17, OneRecordEach, MapElsewhere
<1>19. Contents[k] # Absent  BY <1>6, TableAssumption
<1>20. Map!Set(Undecided.key, Undecided.val)  BY <1>1, <1>8, <1>18, <1>19 DEF Map!Set
<1>21. Map!Decide  BY <1>8, <1>9, <1>20 DEF Map!Decide
<1> QED  BY <1>21 DEF Map!MapNext

LEMMA InsertRefines ==
  ASSUME IInv, InsertStart
  PROVE  Map!MapNext
<1> DEFINE k == call.key  v == call.val  r == [key |-> k, val |-> v]
<1>1. /\ call.kind = "set" /\ Miss /\ count < Limit /\ slots' = slots /\ answer' = "ok"
      /\ call' = [kind |-> "insert", carry |-> r, dist |-> 0]
  BY DEF InsertStart, Room
<1>2. TypeOK /\ Looking  BY <1>1 DEF IInv, Looking
<1>3. k \in Key  BY <1>2, LookupPlace
<1>4. r.key = k /\ r.val = v  OBVIOUS
<1>5. call'.kind = "insert" /\ call'.carry = r  BY <1>1
<1>6. Records = {slots[i] : i \in Taken(slots)}  BY <1>2, Found
<1>7. Records' = Records \cup {r}
  BY <1>1, <1>5, <1>6 DEF Records, InHand, Settled, Hole, Live, Taken
<1>8. /\ Undecided.kind = "set" /\ Undecided.key = k /\ Undecided.val = v
  BY <1>1, <1>2, AskedCall
<1>9. Undecided' = Map!NoCall  BY <1>5 DEF Undecided, Looking, Map!NoCall
<1>10. Contents = MapOf(Records) /\ Contents' = MapOf(Records')
  BY DEF Contents, MapOf
<1>11. \A s \in Records : s.key # k  BY <1>1, <1>2, <1>6, MissMeansAbsent
<1>12. Map!Cardinality(Map!Entries) < Limit  BY <1>1, <1>2, EntriesCounted
<1> HIDE DEF k, v, r
<1>13. MapOf(Records')[k] = v  BY <1>3, <1>4, <1>7, <1>11, MapAt
<1>14. \A s : s.key # k => (s \in Records <=> s \in Records')  BY <1>4, <1>7
<1>15. Contents' = [Contents EXCEPT ![k] = v]
  BY <1>3, <1>10, <1>13, <1>14, OneRecordEach, MapElsewhere
<1>16. Map!Set(Undecided.key, Undecided.val)  BY <1>1, <1>8, <1>12, <1>15 DEF Map!Set
<1>17. Map!Decide  BY <1>8, <1>9, <1>16 DEF Map!Decide
<1> QED  BY <1>17 DEF Map!MapNext

LEMMA RefusedRefines ==
  ASSUME IInv, RemoveRefused
  PROVE  Map!MapNext
<1>1. /\ call.kind = "remove" /\ call' = Idle /\ slots' = slots
      /\ \/ Miss /\ answer' = Absent
         \/ Hit /\ Protected(slots[At].val) /\ ~call.force /\ answer' = "nonceProtected"
  BY DEF RemoveRefused
<1>2. Looking  BY <1>1 DEF Looking
<1>3. Contents' = Contents /\ Undecided' = Map!NoCall  BY <1>1, <1>2, DecidedQuietly
<1>4. /\ Undecided.kind = "remove" /\ Undecided.key = call.key /\ Undecided.force = call.force
  BY <1>1, <1>2, AskedCall
<1>5. Map!Delete(call.key, call.force)
  <2>1. CASE Miss /\ answer' = Absent
    <3>1. Contents[call.key] = Absent  BY <1>2, <2>1, Found
    <3> QED  BY <3>1, <2>1, <1>3 DEF Map!Delete
  <2>2. CASE Hit /\ Protected(slots[At].val) /\ ~call.force /\ answer' = "nonceProtected"
    <3>1. Contents[call.key] = slots[At].val /\ Contents[call.key] # Absent
      BY <1>2, <2>2, Found, TableAssumption
    <3>2. Protected(Contents[call.key])  BY <3>1, <2>2
    <3> QED  BY <3>1, <3>2, <2>2, <1>3 DEF Map!Delete
  <2> QED  BY <1>1, <2>1, <2>2
<1>6. Map!Delete(Undecided.key, Undecided.force)  BY <1>4, <1>5
<1>7. Map!Decide  BY <1>3, <1>4, <1>6 DEF Map!Decide
<1> QED  BY <1>7 DEF Map!MapNext
LEMMA RemoveRefines ==
  ASSUME IInv, RemoveStart
  PROVE  Map!MapNext
<1> DEFINE at == At  k == call.key
<1>1. /\ call.kind = "remove" /\ Hit /\ (~Protected(slots[at].val) \/ call.force)
      /\ call' = [kind |-> "shift", hole |-> at] /\ slots' = slots /\ answer' = "ok"
  BY DEF RemoveStart
<1>2. TypeOK /\ Looking  BY <1>1 DEF IInv, Looking
<1>3. at \in Taken(slots) /\ slots[at].key = k /\ k \in Key
  BY <1>1, <1>2, LookupPlace DEF Hit, Live, Taken
<1>4. call'.kind = "shift" /\ call'.hole = at  BY <1>1
<1>5. Records = {slots[i] : i \in Taken(slots)} /\ Settled = Taken(slots)
      /\ Contents[k] = slots[at].val /\ slots[at].val \in Value
  BY <1>1, <1>2, Found
<1>6. Records' = {slots[i] : i \in Taken(slots) \ {at}}
  BY <1>1, <1>4 DEF Records, InHand, Settled, Hole, Live, Taken
<1>7. /\ Undecided.kind = "remove" /\ Undecided.key = k /\ Undecided.force = call.force
  BY <1>1, <1>2, AskedCall
<1>8. Undecided' = Map!NoCall  BY <1>4 DEF Undecided, Looking, Map!NoCall
<1>9. Contents = MapOf(Records) /\ Contents' = MapOf(Records')
  BY DEF Contents, MapOf
<1>10. Contents[k] # Absent /\ (~Protected(Contents[k]) \/ call.force)
  BY <1>1, <1>5, TableAssumption
<1> HIDE DEF at, k
<1>11. \A i \in Taken(slots) : i # at => slots[i].key # k  BY <1>3, <1>5 DEF IInv, Distinct
<1>12. \A s \in Records' : s.key # k  BY <1>6, <1>11
<1>13. \A s : s.key # k => (s \in Records <=> s \in Records')  BY <1>3, <1>5, <1>6
<1>14. MapOf(Records')[k] = Absent  BY <1>3, <1>12, MapNone
<1>15. Contents' = [Contents EXCEPT ![k] = Absent]
  BY <1>3, <1>9, <1>13, <1>14, OneRecordEach, MapElsewhere
<1>16. Map!Delete(k, call.force)  BY <1>1, <1>10, <1>15 DEF Map!Delete
<1>17. Map!Delete(Undecided.key, Undecided.force)  BY <1>7, <1>16
<1>18. Map!Decide  BY <1>7, <1>8, <1>17 DEF Map!Decide
<1> QED  BY <1>18 DEF Map!MapNext

LEMMA StepRefines == IInv /\ [Next]_vars => [Map!MapNext]_(Map!mapVars)
<1> SUFFICES ASSUME IInv, [Next]_vars  PROVE Map!MapNext \/ UNCHANGED Map!mapVars
  OBVIOUS
<1>1. CASE Begin  BY <1>1, BeginRefines
<1>2. CASE LookupStep  BY <1>2, LookupRefines
<1>3. CASE GetDone  BY <1>3, GetRefines
<1>4. CASE Update  BY <1>4, UpdateRefines
<1>5. CASE TableFull  BY <1>5, FullRefines
<1>6. CASE InsertStart  BY <1>6, InsertRefines
<1>7. CASE InsertStep  BY <1>7, InsertKeepsRecords DEF Map!mapVars, Contents
<1>8. CASE RemoveRefused  BY <1>8, RefusedRefines
<1>9. CASE RemoveStart  BY <1>9, RemoveRefines
<1>10. CASE ShiftStep  BY <1>10, ShiftKeepsRecords DEF Map!mapVars, Contents
<1>11. CASE UNCHANGED vars
  <2>1. UNCHANGED <<home, slots, call, answer>>  BY <1>11 DEF vars
  <2>2. Records' = Records  BY <2>1 DEF Records, Settled, Hole, Live, InHand
  <2>3. Undecided' = Undecided  BY <2>1 DEF Undecided, Looking
  <2> QED  BY <2>1, <2>2, <2>3 DEF Map!mapVars, Contents
<1> QED
  BY <1>1, <1>2, <1>3, <1>4, <1>5, <1>6, <1>7, <1>8, <1>9, <1>10, <1>11 DEF Next, Step

LEMMA InitRefines == Init => Map!MapInit
<1> SUFFICES ASSUME Init  PROVE Map!MapInit
  OBVIOUS
<1>1. call.kind = "idle" /\ answer = "ok"  BY DEF Init, Idle
<1>2. \A i \in Slot : slots[i] = Absent  BY DEF Init
<1>3. Records = {}  BY <1>1, <1>2 DEF Records, Settled, Live, InHand
<1>4. Contents = [k \in Key |-> Absent]  BY <1>3 DEF Contents
<1>5. Undecided = Map!NoCall  BY <1>1, NothingAsked
<1> QED  BY <1>1, <1>4, <1>5 DEF Map!MapInit

(* The robin-hood table implements the map with a limit, for every          *)
(* capacity, limit, set of keys and hash: a read answers with the last      *)
(* value written to its key, a write is refused only at the limit, a        *)
(* removal only for a missing or protected record, and no call touches      *)
(* another key's record (drive.ts #lookup, #insert, #remove).               *)
THEOREM TableIsMap == Spec => ImplementsMap
BY InitRefines, Invariant, StepRefines, PTL DEF Spec, ImplementsMap, Map!MapSpec
=============================================================================
