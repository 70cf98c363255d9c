------------------------------- MODULE Chain -------------------------------
(***************************************************************************)
(* The in-memory half of the Engine API shim (chain/chain.go): the block   *)
(* tree, the canonical mapping, the three forkchoice pointers, one machine *)
(* snapshot per recent block and the payloads under construction.  Every   *)
(* handler holds Chain.mu from its first read to its last write, so each   *)
(* is one action.                                                          *)
(*                                                                         *)
(* A block hash commits to the block's content and its ancestry, so a      *)
(* block is modelled by the sequence of payloads from genesis to it:       *)
(* genesis is << >>, the number is the length, the parent is the prefix    *)
(* one shorter.  A machine is the sequence of payloads it has executed,    *)
(* which is what its root hash, and the outputs and gas recorded with it,  *)
(* tell apart; how one payload executes is the concern of module           *)
(* Execution.  A header claims such a result, rightly or wrongly.          *)
(***************************************************************************)
EXTENDS Naturals, Sequences

CONSTANTS Payload,       \* block contents
          Blocks,        \* every block anyone ever offers, prefix-closed
          Claimed,       \* what each header says execution reaches: its
                         \* stateRoot, gasUsed and withdrawalsRoot
          Attrs,         \* payload attributes op-node may send
          MaxSnapshots,  \* cfg.MaxSnapshots, after withDefaults
          None           \* the zero hash, or no entry in a map

Anc(b, n) == SubSeq(b, 1, n)
Number(b) == Len(b)
Parent(b) == Anc(b, Len(b) - 1)
Genesis == << >>
OnChainOf(b, h) == Len(b) <= Len(h) /\ Anc(h, Len(b)) = b
Heights == {Number(b) : b \in Blocks}
Hashes == Blocks \cup {None}

ASSUME ChainAssumption ==
    /\ Blocks \subseteq Seq(Payload)
    /\ Genesis \in Blocks
    /\ \A b \in Blocks : \A n \in 0 .. Len(b) : Anc(b, n) \in Blocks
    /\ Claimed \in [Blocks -> Seq(Payload)]
    /\ Claimed[Genesis] = Genesis
    /\ MaxSnapshots \in Nat \ {0}
    /\ None \notin Blocks

VARIABLES blocks,      \* Chain.blocks, with outputs, trees, passers and inputs
          canonical,   \* Chain.canonical
          machines,    \* Chain.machines: the snapshot kept for a block
          pending,     \* Chain.pending: the built payload of each payload id
          head, safe, finalized,
          highest      \* history: the highest head number ever set

chainVars == <<blocks, canonical, machines, pending, head, safe, finalized>>
vars == <<chainVars, highest>>

\* A payload id hashes the parent and the attributes; the parent is the
\* parent of the block that was built.
PendingPayload == [attrs : Attrs, block : Blocks \ {Genesis}, machine : Seq(Payload)]

\* Blocks with a live snapshot.
Snapshots == DOMAIN machines

\* A fork of machine m that has executed the payload of block b.
Executed(m, b) == Append(m, b[Len(b)])

(***************************************************************************)
(* New: the machine's root becomes genesis, which all pointers name.       *)
(***************************************************************************)
GenesisMachine == [b \in {Genesis} |-> << >>]

Init ==
    /\ blocks = {Genesis}
    /\ canonical = [n \in Heights |-> IF n = 0 THEN Genesis ELSE None]
    /\ machines = GenesisMachine
    /\ pending = {}
    /\ head = Genesis
    /\ safe = Genesis
    /\ finalized = Genesis
    /\ highest = 0

(***************************************************************************)
(* reorgTo: numbers above the head are deleted; from the head down, each   *)
(* number is rewritten until one already names the ancestor, or until the  *)
(* walk leaves memory.                                                     *)
(***************************************************************************)
Rewrites(c, h, n) ==
    /\ \A k \in n .. Number(h) : c[k] # Anc(h, k)
    /\ \A k \in n .. Number(h) : Anc(h, k) \in blocks

\* Wrong: numbers above the head are left in place.
ReorgToKeepsAbove(h) ==
    [n \in Heights |->
        IF n <= Number(h) /\ Rewrites(canonical, h, n) THEN Anc(h, n) ELSE canonical[n]]

ReorgTo(h) ==
    [n \in Heights |->
        IF n > Number(h) THEN None
        ELSE IF Rewrites(canonical, h, n) THEN Anc(h, n) ELSE canonical[n]]

\* isCanonical under the mapping c; for a block that is not in memory the
\* store answers, which has the blocks of stored on its canonical chain.
IsCanonical(c, b, stored) ==
    IF b \in blocks THEN c[Number(b)] = b ELSE b \in stored

NoStore == {}

(***************************************************************************)
(* prune: snapshots below the window close unless a forkchoice pointer     *)
(* names them, and payloads at or below the head are dropped.              *)
(***************************************************************************)
\* Wrong: one snapshot too few.
CutoffOffByOne(h) == IF Number(h) > MaxSnapshots THEN Number(h) - MaxSnapshots + 1 ELSE 0

Cutoff(h) == IF Number(h) > MaxSnapshots THEN Number(h) - MaxSnapshots ELSE 0

\* Wrong: the finalized block is not protected.
RetainedUnprotected(ms, h, s, f) == {b \in ms : b \in {h, s} \/ Number(b) >= Cutoff(h)}

Retained(ms, h, s, f) == {b \in ms : b \in {h, s, f} \/ Number(b) >= Cutoff(h)}

StillBuildable(h) == {p \in pending : Number(p.block) > Number(h)}

\* A zero safe or finalized hash leaves the pointer as it was.
Moved(ptr, hash) == IF hash = None THEN ptr ELSE hash

(***************************************************************************)
(* ForkchoiceUpdated.  The reorg is applied before safe and finalized are  *)
(* validated, and safe before finalized: the InvalidForkChoiceState return *)
(* keeps what was already written.                                         *)
(***************************************************************************)
\* An unknown head is answered SYNCING and changes nothing.
ForkchoiceSyncing ==
    /\ Blocks \ blocks # {}
    /\ UNCHANGED vars

\* Wrong: any known block will do.
AcceptableIfKnown(c, b, stored) == b = None \/ b \in blocks \/ b \in stored

Acceptable(c, b, stored) == b = None \/ IsCanonical(c, b, stored)

ForkchoiceInvalid(h, s, f, stored) ==
    LET c == ReorgTo(h)
        safeOk == Acceptable(c, s, stored)
    IN  /\ ~(safeOk /\ Acceptable(c, f, stored))
        /\ canonical' = c
        /\ safe' = IF safeOk THEN Moved(safe, s) ELSE safe
        /\ UNCHANGED <<blocks, machines, pending, head, finalized, highest>>

\* What every accepted forkchoice does before it looks at the attributes:
\* the pointers, then prune.
ForkchoiceAccepted(h, s, f, stored) ==
    LET c == ReorgTo(h)
    IN  /\ Acceptable(c, s, stored)
        /\ Acceptable(c, f, stored)
        /\ canonical' = c
        /\ head' = h
        /\ safe' = Moved(safe, s)
        /\ finalized' = Moved(finalized, f)
        /\ machines' = [b \in Retained(Snapshots, h, safe', finalized') |-> machines[b]]
        /\ highest' = IF Number(h) > highest THEN Number(h) ELSE highest
        /\ UNCHANGED blocks

\* No attributes, attributes no later than the head, or a build that fails
\* (no snapshot of the head, a failed fork, a deposit failing hard): the
\* forkchoice itself stands.
ForkchoiceOnly(h, s, f, stored) ==
    /\ ForkchoiceAccepted(h, s, f, stored)
    /\ pending' = StillBuildable(h)

\* buildPayload on the new head: the header of b commits to what the fork of
\* the head's machine reached.  An id that is already pending is returned as
\* it is.
ForkchoiceBuild(h, s, f, a, b, stored) ==
    /\ ForkchoiceAccepted(h, s, f, stored)
    /\ h \in Snapshots'
    /\ Claimed[b] = Executed(machines'[h], b)
    /\ ~\E p \in StillBuildable(h) : p.attrs = a /\ Parent(p.block) = h
    /\ pending' = StillBuildable(h) \cup
          {[attrs |-> a, block |-> b, machine |-> Executed(machines'[h], b)]}

Children(h) == {b \in Blocks \ {Genesis} : Parent(b) = h}

ForkchoiceUpdated(stored) ==
    \/ ForkchoiceSyncing
    \/ \E h \in blocks, s \in Hashes, f \in Hashes :
          \/ ForkchoiceInvalid(h, s, f, stored)
          \/ ForkchoiceOnly(h, s, f, stored)
          \/ \E a \in Attrs, b \in Children(h) : ForkchoiceBuild(h, s, f, a, b, stored)

(***************************************************************************)
(* ImportPayload and the commit it ends in.                                *)
(***************************************************************************)
Commit(b, m) ==
    /\ blocks' = blocks \cup {b}
    /\ machines' = [x \in Snapshots \cup {b} |-> IF x = b THEN m ELSE machines[x]]
    /\ UNCHANGED <<canonical, head, safe, finalized, highest>>

\* Wrong: any payload built on the same parent is taken for the block.
BuiltOnParent(b) == {p \in pending : Parent(p.block) = Parent(b)}

BuiltHere(b) == {p \in pending : p.block = b}

\* The machine of a payload built here is adopted without running it again;
\* only the payload id the scan meets first is deleted.
ImportAdopt(b) ==
    /\ b \notin blocks
    /\ Parent(b) \in blocks
    /\ \E p \in BuiltHere(b) :
          /\ pending' = pending \ {p}
          /\ Commit(b, p.machine)

\* Re-execution on a fork of the parent's snapshot; a root, gas or
\* withdrawals-root mismatch is INVALID and commits nothing.
ImportReplay(b) ==
    /\ b \notin blocks
    /\ Parent(b) \in blocks
    /\ BuiltHere(b) = {}
    /\ Parent(b) \in Snapshots
    /\ Claimed[b] = Executed(machines[Parent(b)], b)
    /\ Commit(b, Executed(machines[Parent(b)], b))
    /\ UNCHANGED pending

\* Every other answer changes nothing: VALID for a known block, SYNCING for
\* an unknown parent or a pruned parent snapshot, INVALID for a malformed
\* payload or a mismatch, and an error from the machine.
ImportRefused(b) ==
    /\ \/ b \in blocks
       \/ Parent(b) \notin blocks
       \/ BuiltHere(b) = {}
    /\ UNCHANGED vars

ImportPayload(b) ==
    \/ ImportAdopt(b)
    \/ ImportReplay(b)
    \/ ImportRefused(b)

Next ==
    \/ ForkchoiceUpdated(NoStore)
    \/ \E b \in Blocks : ImportPayload(b)

Spec == Init /\ [][Next]_vars

(***************************************************************************)
(* Properties                                                              *)
(***************************************************************************)
\* Every variable holds a value of the shape the maps and fields of Chain do.
TypeOK ==
    /\ blocks \subseteq Blocks
    /\ canonical \in [Heights -> Hashes]
    /\ Snapshots \subseteq blocks
    /\ machines \in [Snapshots -> Seq(Payload)]
    /\ pending \subseteq PendingPayload
    /\ head \in blocks
    /\ safe \in Blocks /\ finalized \in Blocks
    /\ highest \in Nat

\* Each canonical entry is a known block of that number, and the entry below
\* it is its parent: reorgTo may stop at the first number that already agrees,
\* because from there down the mapping is one chain.
CanonicalIsOneChain ==
    \A n \in Heights : canonical[n] # None =>
        /\ canonical[n] \in blocks
        /\ Number(canonical[n]) = n
        /\ n > 0 => \/ canonical[n - 1] = Parent(canonical[n])
                    \/ Parent(canonical[n]) \notin blocks

\* A block within MaxSnapshots of the highest head ever set still has its
\* machine, whatever reorgs, side branches and prunes came between: a reorg
\* inside the window always lands on a block that can be built upon.
WindowHasSnapshots ==
    \A b \in blocks : Number(b) + MaxSnapshots >= highest => b \in Snapshots

\* prune leaves only payloads that can still become a block above the head,
\* and a payload id never names two payloads.
PendingIsAboveHead ==
    /\ \A p \in pending : Number(p.block) > Number(head)
    /\ \A p, q \in pending :
          p.attrs = q.attrs /\ Parent(p.block) = Parent(q.block) => p = q

\* The machine kept for a block, and the one waiting with a payload, has
\* executed exactly that block's ancestry and the block itself, and every
\* known header claims what that reaches: through builds on heads that are
\* reorged away, adoptions long after, side branches and prunes no machine is
\* ever filed under another block, although an adopted one is never compared
\* with the header and a replayed one stands on machines that were.
MachinesMatchBlocks ==
    /\ \A b \in Snapshots : machines[b] = b
    /\ \A p \in pending : p.machine = p.block /\ Claimed[p.block] = p.block
    /\ \A b \in blocks : Claimed[b] = b

\* A forkchoice pointer only ever moves to a block that is canonical in the
\* very state it moves in, error returns included.
PointersMoveToCanonical ==
    [][/\ head' # head => canonical'[Number(head')] = head'
       /\ safe' # safe => canonical'[Number(safe')] = safe'
       /\ finalized' # finalized => canonical'[Number(finalized')] = finalized']_vars

\* prune never closes the snapshot of the block head, safe or finalized names
\* after the call, even when that block is far below the window.
PointersKeepSnapshots ==
    [][\A b \in {head', safe', finalized'} : b \in Snapshots => b \in Snapshots']_vars

\* What receipts.go says of ReceiptByTxHash read at the head: nil only for a
\* transaction that is unknown or was reorged out, so the head block, which
\* was not, is canonical.
HeadIsCanonical == canonical[Number(head)] = head
=============================================================================
