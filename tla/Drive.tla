------------------------------- MODULE Drive -------------------------------
(***************************************************************************)
(* The accounts drive's layout (accounts-drive/js/src/drive.ts): geometry, *)
(* header, token registry, account records and token balances, in the      *)
(* three profiles, down to the bytes each of them is written to.           *)
(*                                                                         *)
(* Offsets are real ones in units of four bytes, the finest any field is   *)
(* placed at.  The memory holds, for every unit that is not zero, which    *)
(* piece of which value it is; a field reads back as its value when all    *)
(* its pieces are there.  A probe is a search for the key: AccountsTable   *)
(* shows that probing implements that.                                     *)
(***************************************************************************)
EXTENDS Naturals, Sequences, FiniteSets, FiniteSetsExt, Functions, TLC

CONSTANTS Blank,      \* zero bytes
          Garbage,    \* bytes that are no whole value
          Absent,     \* no record
          Address,    \* addresses, positive numbers
          TokenAddress,
          MaxOf,      \* units -> the largest number a field of that width holds
          Configs,    \* geometries tried
          Nonces, Values, Widths, \* inputs
          MaxOps      \* bound on calls after format

VARIABLES mem,     \* the bytes
          d,       \* the open Drive: [cfg, tokens, colOff], or Absent
          book,    \* what was written: [account, token]
          error,   \* how the last call ended
          ops

vars == <<mem, d, book, error, ops>>

(* Its bytes are those of an empty slot, so no call takes it. *)
ZeroAddress == 0

SingleAsset == 0
Wide == 1
Sparse == 2

HeaderSize == 1024
MinRegistryOffset == 64
OffMagic == 0
OffVersion == 2
OffFlags == 3
OffLiveCount == 10
OffTokenCount == 26
OffSparseLiveCount == 34

(* Where the header keeps the geometry, and in how many units. *)
SparseField == [sparseOffset |-> <<28, 2>>, sparseCapacity |-> <<30, 2>>,
                sparseLoadLimit |-> <<32, 2>>, sparseSlotSize |-> <<36, 1>>]

HeaderField == [capacity |-> <<4, 2>>, tableOffset |-> <<6, 2>>, loadLimit |-> <<8, 2>>,
                seed |-> <<12, 8>>, profile |-> <<20, 1>>, slotSize |-> <<21, 1>>,
                registryOffset |-> <<22, 2>>, registryCapacity |-> <<24, 2>>] @@ SparseField

-----------------------------------------------------------------------------
(* Stores and fields. *)

Clear(m, off, len) == Restrict(m, DOMAIN m \ (off..off + len - 1))

WriteAt(m, off, len, v) ==
  IF v = Blank THEN Clear(m, off, len)
  ELSE [u \in off..off + len - 1 |-> <<v, u - off, len>>] @@ m

ReadAt(m, off, len) ==
  LET range == off..off + len - 1 IN
  IF range \cap DOMAIN m = {} THEN Blank
  ELSE IF /\ range \subseteq DOMAIN m
          /\ \A u \in range : m[u] = <<m[off][1], u - off, len>>
       THEN m[off][1] ELSE Garbage

(* readBE, putBE and the counters: a number, zero being zero bytes. *)
ReadNumber(m, off, len) == LET v == ReadAt(m, off, len) IN IF v = Blank THEN 0 ELSE v

WriteNumber(m, off, len, n) == WriteAt(m, off, len, IF n = 0 THEN Blank ELSE n)

-----------------------------------------------------------------------------
(* Geometry. *)

IsPow2(n) == \E k \in 0..16 : n = 2 ^ k

Load(limit, capacity) ==
  IF limit = 0 /\ capacity > 0 THEN capacity - capacity \div 8 ELSE limit

NormalizeConfig(c) ==
  [c EXCEPT !.slotSize = IF @ = 0 THEN 16 ELSE @,
            !.tableOffset = IF @ = 0 THEN HeaderSize ELSE @,
            !.loadLimit = Load(@, c.capacity),
            !.sparseSlotSize = IF @ = 0 /\ c.profile = Sparse THEN 16 ELSE @,
            !.sparseLoadLimit = IF c.profile = Sparse THEN Load(@, c.sparseCapacity) ELSE @]

InHeader(c) == c.registryOffset # 0 /\ c.registryOffset < HeaderSize

Regions(c) ==
  << <<0, HeaderSize>>, <<c.tableOffset, c.capacity * c.slotSize>> >>
  \o (IF c.registryOffset = 0 \/ InHeader(c) THEN << >>
      ELSE << <<c.registryOffset, 8 * c.registryCapacity>> >>)
  \o (IF c.profile = Sparse THEN << <<c.sparseOffset, c.sparseCapacity * c.sparseSlotSize>> >>
      ELSE << >>)

SlotSizeOK(c) ==
  CASE c.profile = Wide -> c.slotSize >= 32 /\ IsPow2(c.slotSize)
    [] c.profile = SingleAsset -> c.slotSize \in {8, 16}
    [] OTHER -> c.slotSize = 16

TableOK(offset, capacity, limit, slotSize) ==
  /\ capacity >= 2 /\ limit \in 1..capacity - 1
  /\ offset >= HeaderSize /\ offset % slotSize = 0

RegistryOK(c) ==
  /\ c.profile # SingleAsset => c.registryOffset # 0
  /\ c.registryOffset # 0 =>
       /\ c.registryCapacity \in 1..65536
       /\ c.registryOffset % 8 = 0
       /\ InHeader(c) => /\ c.registryOffset >= MinRegistryOffset
                         /\ c.registryOffset + 8 * c.registryCapacity <= HeaderSize

(* Wrong: only neighbours in the order they are declared are compared. *)
OverlapNeighbours(r) ==
  \E i \in 1..Len(r) - 1 :
     r[i][1] < r[i + 1][1] + r[i + 1][2] /\ r[i + 1][1] < r[i][1] + r[i][2]

Overlap(r) ==
  \E i, j \in 1..Len(r) : i < j /\ r[i][1] < r[j][1] + r[j][2] /\ r[j][1] < r[i][1] + r[i][2]

ValidateConfig(c) ==
  /\ IsPow2(c.driveLength)
  /\ c.profile \in SingleAsset..Sparse
  /\ SlotSizeOK(c)
  /\ TableOK(c.tableOffset, c.capacity, c.loadLimit, c.slotSize)
  /\ RegistryOK(c)
  /\ c.profile = Sparse =>
       /\ c.sparseSlotSize \in {8, 16}
       /\ TableOK(c.sparseOffset, c.sparseCapacity, c.sparseLoadLimit, c.sparseSlotSize)
  /\ \A i \in DOMAIN Regions(c) : Regions(c)[i][1] + Regions(c)[i][2] <= c.driveLength
  /\ ~Overlap(Regions(c))

-----------------------------------------------------------------------------
(* open and format. *)

(* The columns of the wide profile follow each other behind the record. *)
ColumnOffsets(tokens) ==
  [i \in DOMAIN tokens |-> 16 + MapThenSumSet(LAMBDA j : tokens[j].width, 1..i - 1)]

ReloadRegistry(m, cfg) ==
  LET n      == IF cfg.registryOffset = 0 THEN 0 ELSE ReadNumber(m, OffTokenCount, 2)
      tokens == [i \in 1..n |->
                   [address |-> ReadAt(m, cfg.registryOffset + 8 * (i - 1), 5),
                    width   |-> ReadNumber(m, cfg.registryOffset + 8 * (i - 1) + 5, 1)]]
  IN IF n > cfg.registryCapacity \/ \E i \in 1..n : tokens[i].width \notin {2, 4, 8}
     THEN Absent ELSE [cfg |-> cfg, tokens |-> tokens, colOff |-> ColumnOffsets(tokens)]

(* The drive's length is not in the header. *)
Open(m) ==
  LET read == [f \in DOMAIN HeaderField |-> ReadNumber(m, HeaderField[f][1], HeaderField[f][2])]
      slot == IF read.slotSize = 0 THEN 16 ELSE read.slotSize
  IN IF /\ ReadNumber(m, OffMagic, 2) = 1 /\ ReadNumber(m, OffVersion, 1) = 1
        /\ ReadNumber(m, OffFlags, 1) = 0
     THEN ReloadRegistry(m, [read EXCEPT !.slotSize = slot] @@ [driveLength |-> 0])
     ELSE Absent

(* The header on a store of zeroes: the magic, the version and the fields,  *)
(* the sparse ones only in the sparse profile.                              *)
Header(c) ==
  LET written == IF c.profile = Sparse THEN DOMAIN HeaderField
                 ELSE DOMAIN HeaderField \ DOMAIN SparseField
  IN FoldSet(LAMBDA f, m : WriteNumber(m, HeaderField[f][1], HeaderField[f][2], c[f]),
             WriteNumber(WriteNumber(<< >>, OffMagic, 2, 1), OffVersion, 1, 1), written)

-----------------------------------------------------------------------------
(* Tables. *)

AccountsTable == [base |-> d.cfg.tableOffset, capacity |-> d.cfg.capacity,
                  slotSize |-> d.cfg.slotSize, countOff |-> OffLiveCount,
                  limit |-> d.cfg.loadLimit, liveOff |-> 0]

SparseTable == [base |-> d.cfg.sparseOffset, capacity |-> d.cfg.sparseCapacity,
                slotSize |-> d.cfg.sparseSlotSize, countOff |-> OffSparseLiveCount,
                limit |-> d.cfg.sparseLoadLimit, liveOff |-> 1]

SlotAt(t, i) == t.base + t.slotSize * i

Occupant(m, t, i) == ReadAt(m, SlotAt(t, i) + t.liveOff, 5)

(* keyOf: the address, in the sparse table behind the token id. *)
KeyOf(m, t, i) ==
  <<IF t.liveOff = 0 THEN 0 ELSE ReadNumber(m, SlotAt(t, i), 1), Occupant(m, t, i)>>

Lookup(m, t, key) ==
  {i \in 0..t.capacity - 1 : Occupant(m, t, i) # Blank /\ KeyOf(m, t, i) = key}

Full(m, t) == ReadNumber(m, t.countOff, 2) >= t.limit

(* Where a key's home and its neighbours put it. *)
FreeSlots(m, t) == {i \in 0..t.capacity - 1 : Occupant(m, t, i) = Blank}

SetCounter(m, t, n) == WriteNumber(m, t.countOff, 2, n)

(* The slot is written whole, and counted. *)
Insert(m, t, i) == SetCounter(Clear(m, SlotAt(t, i), t.slotSize), t, ReadNumber(m, t.countOff, 2) + 1)

Remove(m, t, i) == SetCounter(Clear(m, SlotAt(t, i), t.slotSize), t, ReadNumber(m, t.countOff, 2) - 1)

-----------------------------------------------------------------------------
(* Account records. *)

Compact == d.cfg.profile = SingleAsset /\ d.cfg.slotSize = 8

Layout == IF Compact THEN [nonce |-> <<5, 1>>, balance |-> <<6, 2>>, size |-> 8]
                     ELSE [nonce |-> <<6, 2>>, balance |-> <<8, 8>>, size |-> 16]

DecodeAccount(m, off) ==
  [nonce   |-> ReadNumber(m, off + Layout.nonce[1], Layout.nonce[2]),
   balance |-> ReadNumber(m, off + Layout.balance[1], Layout.balance[2])]

(* The compact record refuses a nonce past uint32; the standard one wraps   *)
(* at uint64.                                                               *)
Overflows(nonce, balance) ==
  (Compact /\ nonce > MaxOf[1]) \/ balance > MaxOf[Layout.balance[2]]

NonceKept(nonce) == IF Compact THEN nonce ELSE nonce % (MaxOf[2] + 1)

(* The record's bytes only: in the wide profile columns follow. *)
EncodeAccount(m, off, a, nonce, balance) ==
  WriteNumber(WriteNumber(WriteAt(Clear(m, off, Layout.size), off, 5, a),
                          off + Layout.nonce[1], Layout.nonce[2], NonceKept(nonce)),
              off + Layout.balance[1], Layout.balance[2], balance)

GetAccount(a) ==
  LET found == Lookup(mem, AccountsTable, <<0, a>>) IN
  IF found = {} THEN Absent ELSE DecodeAccount(mem, SlotAt(AccountsTable, Min(found)))

-----------------------------------------------------------------------------
(* Calls. *)

Refuse(why) == error' = why /\ UNCHANGED <<mem, d, book>>

Return(m, b) == error' = "none" /\ mem' = m /\ book' = b /\ UNCHANGED d

SetAccount(a, nonce, balance) ==
  LET t     == AccountsTable
      found == Lookup(mem, t, <<0, a>>)
      kept  == [book EXCEPT !.account[a] = [nonce |-> NonceKept(nonce), balance |-> balance]]
  IN IF a = ZeroAddress THEN Refuse("zeroAddress")
     ELSE IF Overflows(nonce, balance) THEN Refuse("overflow")
     ELSE IF found # {}
     THEN Return(EncodeAccount(mem, SlotAt(t, Min(found)), a, nonce, balance), kept)
     ELSE IF Full(mem, t) THEN Refuse("tableFull")
     ELSE \E i \in FreeSlots(mem, t) :
            Return(EncodeAccount(Insert(mem, t, i), SlotAt(t, i), a, nonce, balance), kept)

DeleteAccount(a, force) ==
  LET t     == AccountsTable
      found == Lookup(mem, t, <<0, a>>)
      gone  == [book EXCEPT !.account[a] = Absent,
                            !.token = [k \in DOMAIN @ |-> IF k[1] = a /\ d.cfg.profile = Wide
                                                          THEN 0 ELSE @[k]]]
  IN IF a = ZeroAddress THEN Refuse("zeroAddress")
     ELSE IF found = {} THEN Refuse("absent")
     ELSE IF ~force /\ DecodeAccount(mem, SlotAt(t, Min(found))).nonce # 0
     THEN Refuse("nonceProtected")
     ELSE Return(Remove(mem, t, Min(found)), gone)

(* Wrong: the new column starts where the last one starts. *)
NextColumnShared == IF d.tokens = << >> THEN 16 ELSE d.colOff[Len(d.colOff)]

NextColumn ==
  IF d.tokens = << >> THEN 16 ELSE d.colOff[Len(d.colOff)] + d.tokens[Len(d.tokens)].width

RegisterRefusal(a, width) ==
  IF d.cfg.registryOffset = 0 THEN "profile"
  ELSE IF width \notin {2, 4, 8} THEN "badWidth"
  ELSE IF \E i \in DOMAIN d.tokens : d.tokens[i].address = a THEN "duplicateToken"
  ELSE IF Len(d.tokens) >= d.cfg.registryCapacity THEN "registryFull"
  ELSE IF d.cfg.profile = Wide /\ NextColumn + width > d.cfg.slotSize THEN "tableFull"
  ELSE IF width # 2 /\ (Compact \/ (d.cfg.profile = Sparse /\ d.cfg.sparseSlotSize = 8))
  THEN "badWidth" ELSE "none"

RegisterToken(a, width) ==
  LET n == Len(d.tokens)
      e == d.cfg.registryOffset + 8 * n
  IN IF RegisterRefusal(a, width) # "none" THEN Refuse(RegisterRefusal(a, width))
     ELSE /\ mem' = WriteNumber(WriteNumber(WriteAt(Clear(mem, e, 8), e, 5, a), e + 5, 1, width),
                                OffTokenCount, 2, n + 1)
          /\ d' = [d EXCEPT !.tokens = Append(@, [address |-> a, width |-> width]),
                            !.colOff = Append(@, NextColumn)]
          /\ error' = "none" /\ UNCHANGED book

(* Where a sparse record keeps its balance. *)
SparseBalance == IF d.cfg.sparseSlotSize = 8 THEN <<6, 2>> ELSE <<8, 8>>

GetTokenBalance(a, id) ==
  IF d.cfg.profile = Wide
  THEN LET found == Lookup(mem, AccountsTable, <<0, a>>) IN
       IF found = {} THEN 0
       ELSE ReadNumber(mem, SlotAt(AccountsTable, Min(found)) + d.colOff[id + 1],
                       d.tokens[id + 1].width)
  ELSE LET found == Lookup(mem, SparseTable, <<id, a>>) IN
       IF found = {} THEN 0
       ELSE ReadNumber(mem, SlotAt(SparseTable, Min(found)) + SparseBalance[1], SparseBalance[2])

SetWideBalance(a, id, v, b) ==
  LET t     == AccountsTable
      found == Lookup(mem, t, <<0, a>>)
      put(m, slot) == WriteNumber(m, SlotAt(t, slot) + d.colOff[id + 1], d.tokens[id + 1].width, v)
  IN IF found # {} THEN Return(put(mem, Min(found)), b)
     ELSE IF v = 0 THEN Return(mem, b)
     ELSE IF Full(mem, t) THEN Refuse("tableFull")
     ELSE \E i \in FreeSlots(mem, t) :
            Return(put(WriteAt(Insert(mem, t, i), SlotAt(t, i), 5, a), i),
                   [b EXCEPT !.account[a] = [nonce |-> 0, balance |-> 0]])

SetSparseBalance(a, id, v, b) ==
  LET t     == SparseTable
      found == Lookup(mem, t, <<id, a>>)
      put(m, slot) == WriteNumber(m, SlotAt(t, slot) + SparseBalance[1], SparseBalance[2], v)
      key(m, slot) == WriteAt(WriteNumber(m, SlotAt(t, slot), 1, id), SlotAt(t, slot) + 1, 5, a)
  IN IF v = 0 THEN Return(IF found = {} THEN mem ELSE Remove(mem, t, Min(found)), b)
     ELSE IF found # {} THEN Return(put(mem, Min(found)), b)
     ELSE IF Full(mem, t) THEN Refuse("tableFull")
     ELSE \E i \in FreeSlots(mem, t) : Return(put(key(Insert(mem, t, i), i), i), b)

SetTokenBalance(a, id, v) ==
  IF a = ZeroAddress THEN Refuse("zeroAddress")
  ELSE IF id >= Len(d.tokens) THEN Refuse("unknownToken")
  ELSE IF v > MaxOf[d.tokens[id + 1].width] THEN Refuse("overflow")
  ELSE LET b == [book EXCEPT !.token[a, id] = v] IN
       CASE d.cfg.profile = Wide -> SetWideBalance(a, id, v, b)
         [] d.cfg.profile = Sparse -> SetSparseBalance(a, id, v, b)
         [] OTHER -> Refuse("profile")

(* format: the header on an all-zero store, then open. *)
Format(config) ==
  LET c == NormalizeConfig(config)
      m == Header(c)
  IN /\ d = Absent /\ error = "none"
     /\ IF ValidateConfig(c) THEN error' = "none" /\ mem' = m /\ d' = Open(m) /\ UNCHANGED book
                             ELSE Refuse("geometry")
     /\ UNCHANGED ops

Ids == 0..Cardinality(TokenAddress)

Callers == Address \cup {ZeroAddress}

Init ==
  /\ mem = << >> /\ d = Absent /\ error = "none" /\ ops = 0
  /\ book = [account |-> [a \in Address |-> Absent], token |-> [k \in Address \X Ids |-> 0]]

Call ==
  \/ \E a \in Callers, nonce \in Nonces, v \in Values : SetAccount(a, nonce, v)
  \/ \E a \in Callers, force \in BOOLEAN : DeleteAccount(a, force)
  \/ \E a \in TokenAddress, w \in Widths : RegisterToken(a, w)
  \/ \E a \in Callers, id \in Ids, v \in Values : SetTokenBalance(a, id, v)

Next ==
  \/ \E c \in Configs : Format(c)
  \/ d # Absent /\ ops < MaxOps /\ ops' = ops + 1 /\ Call

Spec == Init /\ [][Next]_vars

-----------------------------------------------------------------------------
(* Properties. *)

(* Whatever the geometry format accepts, every read returns what was last   *)
(* written to that account or that balance, and the header still opens:     *)
(* no region, record, column or registry entry lies on another              *)
(* (drive.ts:297-390, 666-669, 748-753).                                    *)
ReadsBack ==
  d # Absent =>
    /\ \A a \in Address : GetAccount(a) = book.account[a]
    /\ d.cfg.profile # SingleAsset =>
         \A a \in Address, i \in DOMAIN d.tokens : GetTokenBalance(a, i - 1) = book.token[a, i - 1]

(* The Drive object caches what another party opening the same bytes would  *)
(* read: geometry, registry and column offsets (drive.ts:407-413), and the  *)
(* counters in the header are the numbers of records.                       *)
ReopenAgrees ==
  d # Absent =>
    /\ Open(mem) = d
    /\ ReadNumber(mem, OffLiveCount, 2) = Cardinality({a \in Address : book.account[a] # Absent})
    /\ d.cfg.profile = Sparse =>
         ReadNumber(mem, OffSparseLiveCount, 2) =
           Cardinality({k \in Address \X Ids : book.token[k] # 0})

=============================================================================
