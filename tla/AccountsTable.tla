---------------------------- MODULE AccountsTable ----------------------------
(***************************************************************************)
(* One table of the accounts drive (accounts-drive/js/src/drive.ts): open  *)
(* addressing with robin-hood insertion and backward-shift removal.  The   *)
(* accounts table and the sparse balance table are both this table; they   *)
(* differ in keys and in which records a removal is refused for.           *)
(*                                                                         *)
(* A call runs as a loop over slots, one action per iteration.  The store  *)
(* is written slot by slot, so the table passes through states in which a  *)
(* record is in hand or in two slots; the map the table implements         *)
(* (TableMap) changes in one step.                                         *)
(***************************************************************************)
EXTENDS Integers, FiniteSets

CONSTANTS Key,          \* addresses, or token id and address
          Value,        \* what a record holds beside its key
          Capacity,     \* slots
          Limit,        \* load limit
          Absent,       \* no record
          Homes,        \* what the hash may be: a subset of [Key -> Slot]
          Protected(_)  \* records with a nonzero nonce

Slot == 0..(Capacity - 1)
Record == [key : Key, val : Value]

ASSUME TableAssumption ==
  /\ Capacity \in Nat \ {0}
  /\ Homes \subseteq [Key -> Slot]
  /\ Limit \in Nat /\ Limit < Capacity   \* validateConfig
  /\ Absent \notin Value \cup Record

VARIABLES home,    \* [Key -> Slot]: keccak256(seed, key) mod capacity
          slots,   \* [Slot -> Record or Absent]
          count,   \* the live counter in the header
          call,    \* the call in progress
          answer   \* what the last decided call was answered

vars == <<home, slots, count, call, answer>>

Idle == [kind |-> "idle"]

Live(i) == slots[i] # Absent

(* #displacement: how far slot i is from its record's home. *)
Displacement(i) == (i + Capacity - home[slots[i].key]) % Capacity

Init ==
  /\ home \in Homes
  /\ slots = [i \in Slot |-> Absent]
  /\ count = 0
  /\ call = Idle
  /\ answer = "ok"

-----------------------------------------------------------------------------
(* getAccount, setAccount and setTokenBalance, deleteAccount: each starts   *)
(* with a lookup.                                                           *)

Start(kind, k, v, force) ==
  /\ call = Idle
  /\ call' = [kind |-> kind, key |-> k, val |-> v, force |-> force, dist |-> 0]
  /\ UNCHANGED <<home, slots, count, answer>>

Looking == call.kind \in {"get", "set", "remove"}

At == (home[call.key] + call.dist) % Capacity

(* #lookup: an empty slot, or a record nearer its home than the key would   *)
(* be, ends the probe.                                                      *)
Miss == \/ call.dist = Capacity
        \/ ~Live(At)
        \/ Live(At) /\ slots[At].key # call.key /\ Displacement(At) < call.dist

Hit == call.dist < Capacity /\ Live(At) /\ slots[At].key = call.key

LookupStep ==
  /\ Looking /\ ~Hit /\ ~Miss
  /\ call' = [call EXCEPT !.dist = @ + 1]
  /\ UNCHANGED <<home, slots, count, answer>>

GetDone ==
  /\ call.kind = "get" /\ (Hit \/ Miss)
  /\ answer' = IF Hit THEN slots[At].val ELSE Absent
  /\ call' = Idle
  /\ UNCHANGED <<home, slots, count>>

(* An existing record is rewritten in place. *)
Update ==
  /\ call.kind = "set" /\ Hit
  /\ slots' = [slots EXCEPT ![At].val = call.val]
  /\ answer' = "ok" /\ call' = Idle
  /\ UNCHANGED <<home, count>>

Room == count < Limit

TableFull ==
  /\ call.kind = "set" /\ Miss /\ ~Room
  /\ answer' = "tableFull" /\ call' = Idle
  /\ UNCHANGED <<home, slots, count>>

InsertStart ==
  /\ call.kind = "set" /\ Miss /\ Room
  /\ call' = [kind |-> "insert", carry |-> [key |-> call.key, val |-> call.val], dist |-> 0]
  /\ answer' = "ok"
  /\ UNCHANGED <<home, slots, count>>

CarryAt == (home[call.carry.key] + call.dist) % Capacity

(* Wrong: plain linear probing. *)
YieldsNever(i) == FALSE

(* The record in slot i is nearer its home than the one in hand. *)
Yields(i) == Displacement(i) < call.dist

(* Wrong: the distance grows only when records are exchanged. *)
PassedOverStays == call

(* The record in hand moves on past a slot it could not take. *)
PassedOver == [call EXCEPT !.dist = @ + 1]

(* #insert: the first record nearer its home than the one in hand gives up  *)
(* its slot and is carried on.                                              *)
InsertStep ==
  /\ call.kind = "insert"
  /\ IF ~Live(CarryAt)
     THEN /\ slots' = [slots EXCEPT ![CarryAt] = call.carry]
          /\ count' = count + 1
          /\ call' = Idle
     ELSE /\ UNCHANGED count
          /\ IF Yields(CarryAt)
             THEN /\ slots' = [slots EXCEPT ![CarryAt] = call.carry]
                  /\ call' = [kind |-> "insert", carry |-> slots[CarryAt],
                              dist |-> Displacement(CarryAt) + 1]
             ELSE /\ call' = PassedOver
                  /\ UNCHANGED slots
  /\ UNCHANGED <<home, answer>>

RemoveRefused ==
  /\ call.kind = "remove"
  /\ \/ Miss /\ answer' = Absent
     \/ Hit /\ Protected(slots[At].val) /\ ~call.force /\ answer' = "nonceProtected"
  /\ call' = Idle
  /\ UNCHANGED <<home, slots, count>>

RemoveStart ==
  /\ call.kind = "remove" /\ Hit
  /\ ~Protected(slots[At].val) \/ call.force
  /\ call' = [kind |-> "shift", hole |-> At]
  /\ answer' = "ok"
  /\ UNCHANGED <<home, slots, count>>

(* Wrong: the slot is cleared and nothing moves back. *)
ShiftEndsAtOnce(i) == TRUE

(* A record at home, or an empty slot, ends the cluster. *)
ShiftEnds(i) == ~Live(i) \/ Displacement(i) = 0

(* #remove: the records of the cluster move back one slot each. *)
ShiftStep ==
  /\ call.kind = "shift"
  /\ LET j == (call.hole + 1) % Capacity IN
     IF ShiftEnds(j)
     THEN /\ slots' = [slots EXCEPT ![call.hole] = Absent]
          /\ count' = count - 1
          /\ call' = Idle
     ELSE /\ slots' = [slots EXCEPT ![call.hole] = slots[j]]
          /\ call' = [call EXCEPT !.hole = j]
          /\ UNCHANGED count
  /\ UNCHANGED <<home, answer>>

Begin == \E k \in Key : \/ Start("get", k, Absent, FALSE)
                        \/ \E v \in Value : Start("set", k, v, FALSE)
                        \/ \E force \in BOOLEAN : Start("remove", k, Absent, force)

Step == \/ LookupStep \/ GetDone \/ Update \/ TableFull \/ InsertStart \/ InsertStep
        \/ RemoveRefused \/ RemoveStart \/ ShiftStep

Next == Begin \/ Step

Spec == Init /\ [][Next]_vars

(* A call in progress runs on: nothing it awaits can withhold it. *)
FairSpec == Spec /\ WF_vars(Step)

-----------------------------------------------------------------------------
(* The records of the table: those in slots, but for the one being removed, *)
(* and the one in hand.                                                     *)
Hole == IF call.kind = "shift" THEN {call.hole} ELSE {}

Settled == {i \in Slot : Live(i)} \ Hole

InHand == IF call.kind = "insert" THEN {call.carry} ELSE {}

Records == {slots[i] : i \in Settled} \cup InHand

Contents ==
  [k \in Key |-> IF \E r \in Records : r.key = k
                 THEN (CHOOSE r \in Records : r.key = k).val ELSE Absent]

(* A call is decided when its lookup ends; what follows moves slots only. *)
Undecided == IF call # Idle /\ Looking
             THEN [kind |-> call.kind, key |-> call.key, val |-> call.val, force |-> call.force]
             ELSE [kind |-> "none"]

Map == INSTANCE TableMap WITH map <- Contents, asked <- Undecided

(* The table implements the map: a read answers with the last value written *)
(* to its key, a write is refused only at the limit, and no call touches    *)
(* another key's record, whatever slots the records moved through           *)
(* (drive.ts #lookup, #insert, #remove).                                    *)
ImplementsMap == Map!MapSpec

(* Between calls the table is in robin-hood order: a record away from home  *)
(* follows a record that is at most one slot nearer to its own.  It is what *)
(* lets #lookup stop early.                                                 *)
RobinHood ==
  call = Idle =>
    \A i \in Slot : Live(i) /\ Displacement(i) > 0 =>
      LET p == (i + Capacity - 1) % Capacity IN
      Live(p) /\ Displacement(i) <= Displacement(p) + 1

(* Every call returns: #insert's unbounded loop finds an empty slot, and    *)
(* #remove's the end of its cluster, because the load limit is below the    *)
(* capacity (drive.ts:554, drive.ts:563).                                   *)
CallsReturn == [](call # Idle => <>(call = Idle))
=============================================================================
