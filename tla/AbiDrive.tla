------------------------------ MODULE AbiDrive ------------------------------
(***************************************************************************)
(* The ABI drive (abi-drive/js/src/index.ts): a header, an index of        *)
(* fixed-size entries and a heap of blobs, in which the guest records the  *)
(* contracts it routes so that a reader of the machine's memory finds them.*)
(*                                                                         *)
(* A store is the drive's bytes: the header's counters, the index and the  *)
(* heap, a byte of a blob being one element of the ABI.  The AbiDrive      *)
(* object keeps the counters it read when it opened the store.             *)
(***************************************************************************)
EXTENDS Integers, Sequences, FiniteSets, FiniteSetsExt

CONSTANTS AbiCapacity,   \* entries the index has room for
          HeapLength,    \* bytes the heap has room for
          NoByte         \* a byte nobody has written

ASSUME AbiDriveAssumption == AbiCapacity \in Nat /\ HeapLength \in Nat \ {0}

BlankStore ==
  [magic |-> FALSE, count |-> 0, heapUsed |-> 0,
   index |-> [i \in 0..(AbiCapacity - 1) |-> NoByte],
   heap  |-> [i \in 0..(HeapLength - 1) |-> NoByte]]

(* format writes the header alone; open believes it. *)
Format(s) == [s EXCEPT !.magic = TRUE, !.count = 0, !.heapUsed = 0]

OpenOrFormat(s) == IF s.magic THEN s ELSE Format(s)

(* The object that open or format returns. *)
Opened(s) == [count |-> s.count, heapUsed |-> s.heapUsed]

EntryAt(s, i) ==
  LET raw == s.index[i] IN
  [address |-> raw.address, kind |-> raw.kind,
   abi     |-> [k \in 1..raw.length |-> s.heap[raw.offset + k - 1]]]

Entries(s) == [i \in 1..s.count |-> EntryAt(s, i - 1)]

(* entryOf scans the entries the object counts, in order. *)
EntryOf(s, o, address) ==
  LET at == {i \in 0..(o.count - 1) : s.index[i].address = address}
  IN IF at = {} THEN {} ELSE {EntryAt(s, Min(at))}

(* What register answers before it writes anything: the same contract again *)
(* is no change, another under its address is a duplicate.                  *)
RegisterRefusal(s, o, address, kind, abi) ==
  LET existing == EntryOf(s, o, address)
  IN CASE existing # {} ->
            IF existing = {[address |-> address, kind |-> kind, abi |-> abi]}
            THEN "recorded" ELSE "duplicate"
       [] existing = {} /\ o.count >= AbiCapacity -> "registryFull"
       [] existing = {} /\ o.count < AbiCapacity /\ o.heapUsed + Len(abi) > HeapLength -> "heapFull"
       [] OTHER -> "none"

(* The four writes of register, each awaited before the next; the object    *)
(* counts the entry after the second.                                       *)
WriteBlob(s, o, abi) ==
  [s EXCEPT !.heap = [i \in DOMAIN @ |-> IF i - o.heapUsed + 1 \in DOMAIN abi
                                        THEN abi[i - o.heapUsed + 1] ELSE @[i]]]

WriteEntry(s, o, address, kind, abi) ==
  [s EXCEPT !.index[o.count] = [address |-> address, kind |-> kind,
                                offset |-> o.heapUsed, length |-> Len(abi)]]

Counted(o, abi) == [count |-> o.count + 1, heapUsed |-> o.heapUsed + Len(abi)]

WriteCount(s, o) == [s EXCEPT !.count = o.count]

(* Wrong: the heap counter stays in the object. *)
WriteHeapUsedNever(s, o) == s

WriteHeapUsed(s, o) == [s EXCEPT !.heapUsed = o.heapUsed]
=============================================================================
