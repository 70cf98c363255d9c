-------------------------- MODULE ChainStoreProofs --------------------------
(***************************************************************************)
(* What survives a crash of the chain, for every set of blocks, every      *)
(* retention window and checkpoint interval.  The invariant has a part     *)
(* about memory (one tree above a base, the mapping one chain of it), one  *)
(* about the writes still to make, one about the disk while no write       *)
(* fails and one about the disk while op-node is in step.                  *)
(***************************************************************************)
EXTENDS ChainStore, ChainProofs

USE DEF Snapshots

NoWriteFails == "write error" \notin faults
ExtendsInStep == "reorg" \notin faults

Comparable(a, b) == OnChainOf(a, b) \/ OnChainOf(b, a)

\* c is the chain from block base to block x, and nothing else.
IsChain(c, base, x) ==
    \A n \in Heights : c[n] = IF n \in Number(base) .. Number(x) THEN Anc(x, n) ELSE None

StoreTypeOK ==
    /\ TypeOK
    /\ mode \in {"down", "up", "failed"}
    /\ dBlocks \subseteq Blocks
    /\ dCanonical \in [Heights -> Hashes]
    /\ dHead \in Hashes /\ dSafe \in Hashes /\ dFinalized \in Hashes
    /\ ckpts \subseteq Checkpoint
    /\ declared \in Blocks
    /\ faults \in FaultSets

\* Memory is a tree: it has a base from which every block in it descends, by
\* way of blocks in it, and the mapping is the chain of one of them.
IsBase(base) ==
    /\ base \in blocks
    /\ \A b \in blocks : /\ OnChainOf(base, b)
                         /\ \A n \in Number(base) .. Number(b) : Anc(b, n) \in blocks
    /\ \E x \in blocks : IsChain(canonical, base, x)

MemoryIsATree == \E base \in blocks : IsBase(base)

\* The writes a handler still has to make, the mapping's excluded.
Settled(b) ==
    {<<W("PutBlock", b)>>, <<W("PutBlock", b), W("Checkpoint", b)>>, <<W("Checkpoint", b)>>,
     <<W("SetHeads", b), W("CheckpointIfFinalized", b)>>, <<W("CheckpointIfFinalized", b)>>,
     <<W("FinishCheckpoint", b)>>}

\* The writes of Adopt, and those of a forkchoice from the mapping on.
Adopting ==
    {<<W("PutBlock", Genesis), W("SetCanonical", Genesis), W("CheckpointGenesis", Genesis)>>,
     <<W("SetCanonical", Genesis), W("CheckpointGenesis", Genesis)>>}
Moving(h) == {<<W("SetCanonical", h), W("SetHeads", h), W("CheckpointIfFinalized", h)>>}

TodoOK ==
    \/ todo = << >>
    \/ mode = "up" /\ \E b \in blocks : todo \in Settled(b)
    \/ mode = "up" /\ todo = <<W("CheckpointGenesis", Genesis)>> /\ Genesis \in blocks
    \/ mode = "up" /\ todo \in Moving(head)
    \/ mode = "up" /\ todo \in Adopting /\ blocks = {Genesis} /\ head = Genesis /\ dHead = None

\* A process that is not up has lost its memory.
DownIsEmpty ==
    mode # "up" => blocks = {Genesis} /\ machines = GenesisMachine /\ head = Genesis /\ todo = << >>

Behind == todo \in Adopting \cup Moving(head)

\* While no write fails: the stored mapping is the stored head's ancestry, and
\* the stored head is the head but for a mapping still to be written.
StoredAsWritten ==
    /\ dHead = None => \A n \in Heights : dCanonical[n] = None
    /\ dHead # None => IsChain(dCanonical, Genesis, dHead)
    /\ mode = "up" /\ dHead = None => blocks = {Genesis}
    /\ mode = "up" /\ dHead # None => dHead \in blocks
    /\ mode = "up" /\ ~Behind => dHead = head

\* While op-node is in step: the stored blocks are of one line, memory agrees
\* with what is only on disk, and the disk is never ahead of the head.
StoredInStep ==
    /\ \A d, e \in dBlocks : Comparable(d, e)
    /\ mode = "up" => \A d \in dBlocks \ blocks, b \in blocks : Comparable(d, b)
    /\ todo # << >> /\ Head(todo).op = "PutBlock" => \A d \in dBlocks : Comparable(d, Subject)
    /\ mode = "up" /\ dHead # None => OnChainOf(dHead, head)
    /\ \A n \in Heights : dCanonical[n] # None =>
          Number(dCanonical[n]) = n /\ dHead # None /\ n <= Number(dHead)

Tame == NoWriteFails \/ ExtendsInStep

StoreInv ==
    /\ StoreTypeOK
    /\ MemoryIsATree
    /\ TodoOK
    /\ DownIsEmpty
    /\ NoWriteFails => StoredAsWritten
    /\ ExtendsInStep => StoredInStep

-----------------------------------------------------------------------------
(***************************************************************************)
(* Ancestors.                                                              *)
(***************************************************************************)
\* Every height up to a block's own is a height.
LEMMA HeightsBelow ==
    ASSUME NEW h \in Blocks
    PROVE  Number(h) \in Nat /\ 0 .. Number(h) \subseteq Heights
<1>1. Number(h) \in Nat  BY NumbersAreNat
<1>2. ASSUME NEW n \in 0 .. Number(h)  PROVE n \in Heights
  <2>1. Anc(h, n) \in Blocks /\ Len(Anc(h, n)) = n  BY AncIsBlock DEF Number
  <2> QED  BY <2>1 DEF Heights, Number
<1> QED  BY <1>1, <1>2

\* The ancestors of an ancestor are ancestors.
LEMMA AncThrough ==
    ASSUME NEW h \in Blocks, NEW n \in 0 .. Number(h), NEW m \in 0 .. n
    PROVE  Anc(Anc(h, n), m) = Anc(h, m)
<1>1. h \in Seq(Payload)  BY ChainAssumption
<1>2. SubSeq(SubSeq(h, 1, n), 1, m) = SubSeq(h, 1, m)  BY <1>1 DEF Number
<1> QED  BY <1>2 DEF Anc

\* A block on the chain of another shares its ancestors.
LEMMA SharesAncestors ==
    ASSUME NEW b \in Blocks, NEW h \in Blocks, OnChainOf(b, h), NEW m \in 0 .. Number(b)
    PROVE  Anc(h, m) = Anc(b, m)
<1>1. Number(b) \in Nat /\ Number(h) \in Nat  BY NumbersAreNat
<1>2. Number(b) \in 0 .. Number(h) /\ Anc(h, Number(b)) = b  BY <1>1 DEF OnChainOf, Number
<1> QED  BY <1>1, <1>2, AncThrough

\* The ancestor at a height is on the chain, and is the only block there.
LEMMA AncOnChain ==
    ASSUME NEW h \in Blocks, NEW n \in 0 .. Number(h)
    PROVE  OnChainOf(Anc(h, n), h)
<1>1. Len(Anc(h, n)) = n /\ Len(h) \in Nat  BY AncIsBlock, NumbersAreNat DEF Number
<1> QED  BY <1>1 DEF OnChainOf, Number

\* Being on the chain of is transitive.
LEMMA OnChainTransitive ==
    ASSUME NEW a \in Blocks, NEW b \in Blocks, NEW h \in Blocks, OnChainOf(a, b), OnChainOf(b, h)
    PROVE  OnChainOf(a, h)
<1>1. Number(a) \in Nat /\ Number(b) \in Nat /\ Number(h) \in Nat  BY NumbersAreNat
<1>2. Number(a) <= Number(b) /\ Number(b) <= Number(h)  BY DEF OnChainOf, Number
<1>3. Anc(h, Number(a)) = Anc(b, Number(a))  BY <1>1, <1>2, SharesAncestors
<1> QED  BY <1>1, <1>2, <1>3 DEF OnChainOf, Number

\* Of two comparable blocks the lower is on the chain of the other.
LEMMA LowerOnChain ==
    ASSUME NEW a \in Blocks, NEW b \in Blocks, Comparable(a, b), Number(a) <= Number(b)
    PROVE  OnChainOf(a, b) /\ (Number(a) = Number(b) => a = b)
<1>1. Number(a) \in Nat /\ Number(b) \in Nat  BY NumbersAreNat
<1>2. Anc(a, Number(a)) = a /\ Anc(b, Number(b)) = b  BY AncSelf DEF Number
<1>3. CASE OnChainOf(a, b)  BY <1>1, <1>2, <1>3 DEF OnChainOf, Number
<1>4. CASE OnChainOf(b, a)  BY <1>1, <1>2, <1>4 DEF OnChainOf, Number
<1> QED  BY <1>3, <1>4 DEF Comparable

\* Genesis is on every chain, and every block on its own.
LEMMA GenesisOnChain ==
    ASSUME NEW h \in Blocks
    PROVE  OnChainOf(Genesis, h) /\ OnChainOf(h, h) /\ Number(Genesis) = 0
<1>1. Len(h) \in Nat /\ Len(Genesis) = 0  BY NumbersAreNat DEF Number, Genesis
<1>2. Anc(h, 0) = Genesis  BY <1>1, AncIsBlock, HeightsClosed
<1>3. Anc(h, Len(h)) = h  BY AncSelf
<1> QED  BY <1>1, <1>2, <1>3 DEF OnChainOf, Number

-----------------------------------------------------------------------------
(***************************************************************************)
(* The walk of reorgTo and of SetCanonical.                                *)
(***************************************************************************)
\* Where the walk from h down has stopped, because a number already named the
\* ancestor, the mapping is h's chain: it was one chain before.
LEMMA WalkJoins ==
    ASSUME NEW c, NEW base \in Blocks, NEW x \in Blocks, IsChain(c, base, x),
           NEW h \in Blocks, NEW n \in Number(base) .. Number(h), ~Rewrites(c, h, n),
           \A k \in n .. Number(h) : Anc(h, k) \in blocks \/ c[k] = Anc(h, k)
    PROVE  c[n] = Anc(h, n)
<1>1. Number(base) \in Nat /\ Number(x) \in Nat /\ Number(h) \in Nat  BY NumbersAreNat
<1>2. PICK k \in n .. Number(h) : c[k] = Anc(h, k)  BY DEF Rewrites
<1>3. n \in 0 .. Number(h) /\ k \in 0 .. Number(h) /\ n \in 0 .. k  BY <1>1
<1>4. n \in Heights /\ k \in Heights  BY <1>3, HeightsBelow
<1>5. Anc(h, k) \in Blocks  BY <1>3, AncIsBlock DEF Number
<1>6. c[k] # None  BY <1>2, <1>5, ChainAssumption
<1>7. k \in Number(base) .. Number(x) /\ c[k] = Anc(x, k)  BY <1>4, <1>6 DEF IsChain
<1>8. n \in Number(base) .. Number(x) /\ k \in 0 .. Number(x)  BY <1>1, <1>3, <1>7
<1>9. c[n] = Anc(x, n)  BY <1>4, <1>8 DEF IsChain
<1>10. Anc(x, n) = Anc(Anc(x, k), n) /\ Anc(h, n) = Anc(Anc(h, k), n)
  BY <1>3, <1>8, AncThrough
<1> QED  BY <1>2, <1>7, <1>9, <1>10

\* reorgTo(h) leaves exactly h's chain from the base of memory up.
LEMMA ReorgIsChain ==
    ASSUME TypeOK, NEW base \in blocks, IsBase(base), NEW h \in blocks
    PROVE  IsChain(ReorgTo(h), base, h) /\ ReorgTo(h) \in [Heights -> Hashes]
<1>1. base \in Blocks /\ h \in Blocks /\ Number(base) \in Nat /\ Number(h) \in Nat
  BY NumbersAreNat DEF TypeOK
<1>2. PICK x \in blocks : IsChain(canonical, base, x)  BY DEF IsBase
<1>3. x \in Blocks /\ Number(x) \in Nat  BY <1>2, NumbersAreNat DEF TypeOK
<1>4. ASSUME NEW n \in Heights
      PROVE  ReorgTo(h)[n] = IF n \in Number(base) .. Number(h) THEN Anc(h, n) ELSE None
  <2>1. n \in Nat  BY HeightsClosed
  <2>2. ReorgTo(h)[n] = IF n > Number(h) THEN None
                        ELSE IF Rewrites(canonical, h, n) THEN Anc(h, n) ELSE canonical[n]
    BY DEF ReorgTo
  <2>3. CASE n > Number(h)  BY <1>1, <2>1, <2>2, <2>3
  <2>4. CASE n < Number(base)
    <3>1. Number(base) <= Number(h)  BY DEF IsBase, OnChainOf, Number
    <3>2. n \in n .. Number(h)  BY <3>1, <2>1, <2>4, <1>1
    <3>3. Len(Anc(h, n)) = n  BY <3>2, <2>1, <1>1, AncIsBlock DEF Number
    <3>4. Anc(h, n) \notin blocks  BY <3>3, <2>1, <2>4, <1>1 DEF IsBase, OnChainOf, Number
    <3>5. ~Rewrites(canonical, h, n)  BY <3>2, <3>4 DEF Rewrites
    <3>6. canonical[n] = None  BY <1>1, <1>2, <1>3, <2>1, <2>4 DEF IsChain
    <3> QED  BY <3>1, <3>5, <3>6, <2>1, <2>2, <2>4, <1>1
  <2>5. CASE n \in Number(base) .. Number(h)
    <3>1. \A k \in n .. Number(h) : Anc(h, k) \in blocks  BY <2>1, <2>5, <1>1 DEF IsBase
    <3>2. CASE Rewrites(canonical, h, n)  BY <3>2, <2>1, <2>2, <2>5, <1>1
    <3>3. CASE ~Rewrites(canonical, h, n)
      <4>1. canonical[n] = Anc(h, n)  BY <3>1, <3>3, <2>5, <1>1, <1>2, <1>3, WalkJoins
      <4> QED  BY <4>1, <3>3, <2>1, <2>2, <2>5, <1>1
    <3> QED  BY <3>2, <3>3
  <2> QED  BY <2>1, <2>3, <2>4, <2>5, <1>1
<1>5. IsChain(ReorgTo(h), base, h)  BY <1>4 DEF IsChain
<1>6. \A n \in Heights : ReorgTo(h)[n] \in Hashes
  <2>1. \A n \in Number(base) .. Number(h) : Anc(h, n) \in Hashes
    BY <1>1, AncIsBlock DEF Number, Hashes
  <2> QED  BY <1>4, <2>1 DEF Hashes
<1>7. ReorgTo(h) \in [Heights -> Hashes]
  <2>1. ReorgTo(h) = [n \in Heights |-> ReorgTo(h)[n]]  BY DEF ReorgTo
  <2> QED  BY <1>6, <2>1
<1> QED  BY <1>5, <1>7
-----------------------------------------------------------------------------
(***************************************************************************)
(* The write at the front of todo, and the writes behind it.               *)
(***************************************************************************)
\* What a list of writes begins with and what follows.
LEMMA FrontAndRest ==
    ASSUME NEW a, NEW b, NEW c
    PROVE  /\ Head(<<a>>) = a /\ Tail(<<a>>) = << >> /\ <<a>> # << >>
           /\ Head(<<a, b>>) = a /\ Tail(<<a, b>>) = <<b>> /\ <<a, b>> # << >>
           /\ Head(<<a, b, c>>) = a /\ Tail(<<a, b, c>>) = <<b, c>> /\ <<a, b, c>> # << >>
  OBVIOUS

\* The operation and the block of a single write.
LEMMA FrontOfOne ==
    ASSUME NEW t, NEW op, NEW b, t = <<W(op, b)>>
    PROVE  t # << >> /\ Head(t).op = op /\ Head(t).block = b
<1> DEFINE w == W(op, b)
<1>1. w.op = op /\ w.block = b  BY DEF W
<1>2. t = <<w>>  OBVIOUS
<1> HIDE DEF w
<1> QED  BY <1>1, <1>2, FrontAndRest

\* The operation and the block of the first of two writes.
LEMMA FrontOfTwo ==
    ASSUME NEW t, NEW op, NEW b, NEW y, t = <<W(op, b), y>>
    PROVE  t # << >> /\ Head(t).op = op /\ Head(t).block = b
<1> DEFINE w == W(op, b)
<1>1. w.op = op /\ w.block = b  BY DEF W
<1>2. t = <<w, y>>  OBVIOUS
<1> HIDE DEF w
<1> QED  BY <1>1, <1>2, FrontAndRest

\* Only the lists of Adopt and of a forkchoice hold a mapping still to write.
LEMMA QuietLists ==
    ASSUME NEW b, NEW h, NEW t,
           t = << >> \/ t \in Settled(b) \/ t = <<W("CheckpointGenesis", Genesis)>>
    PROVE  t \notin Adopting \cup Moving(h)
<1>1. ASSUME NEW u \in Adopting \cup Moving(h)
      PROVE  /\ u # << >>
             /\ \/ Head(u).op = "SetCanonical"
                \/ Head(u).op = "PutBlock" /\ Tail(u) # << >> /\ Head(Tail(u)).op = "SetCanonical"
  <2>1. CASE u = <<W("PutBlock", Genesis), W("SetCanonical", Genesis), W("CheckpointGenesis", Genesis)>>
    BY <2>1, FrontAndRest DEF W
  <2>2. CASE u = <<W("SetCanonical", Genesis), W("CheckpointGenesis", Genesis)>>
    BY <2>2, FrontAndRest DEF W
  <2>3. CASE u = <<W("SetCanonical", h), W("SetHeads", h), W("CheckpointIfFinalized", h)>>
    BY <2>3, FrontAndRest DEF W
  <2> QED  BY <2>1, <2>2, <2>3 DEF Adopting, Moving
<1>2. ASSUME t \in Settled(b)
      PROVE  /\ Head(t).op # "SetCanonical"
             /\ Head(t).op = "PutBlock" => Tail(t) = << >> \/ Head(Tail(t)).op = "Checkpoint"
  BY <1>2, FrontAndRest DEF Settled, W
<1>3. ASSUME t = <<W("CheckpointGenesis", Genesis)>>  PROVE Head(t).op = "CheckpointGenesis"
  BY <1>3, FrontAndRest DEF W
<1> QED  BY <1>1, <1>2, <1>3

\* What the front of todo says of the rest of it.
FrontWrites ==
    /\ mode = "up"
    /\ Subject \in blocks \/ Subject = head
    /\ Doing("PutBlock") =>
         \/ Tail(todo) = << >> /\ ~Behind
         \/ Tail(todo) = <<W("Checkpoint", Subject)>> /\ ~Behind
         \/ /\ Tail(todo) = <<W("SetCanonical", Genesis), W("CheckpointGenesis", Genesis)>>
            /\ Subject = Genesis /\ todo \in Adopting
            /\ blocks = {Genesis} /\ head = Genesis /\ dHead = None
    /\ Doing("SetCanonical") =>
         /\ Subject = head /\ Behind
         /\ \/ Tail(todo) = <<W("SetHeads", head), W("CheckpointIfFinalized", head)>>
            \/ /\ Tail(todo) = <<W("CheckpointGenesis", Genesis)>> /\ todo \in Adopting
               /\ blocks = {Genesis} /\ head = Genesis /\ dHead = None
    /\ Doing("SetHeads") => Tail(todo) = <<W("CheckpointIfFinalized", Subject)>>
    /\ Doing("CheckpointGenesis") => Tail(todo) = << >> /\ Subject = Genesis
    /\ Doing("CheckpointIfFinalized") \/ Doing("Checkpoint") \/ Doing("FinishCheckpoint")
         => Tail(todo) = << >>
    /\ ~Doing("PutBlock") /\ ~Doing("SetCanonical") => ~Behind

\* In each kind of list the front write is of the handler's block, and what
\* is behind it depends on it alone.
LEMMA FrontWrite ==
    ASSUME TodoOK, todo # << >>
    PROVE  FrontWrites
<1> USE DEF FrontWrites
<1>0. Behind => Head(todo).op \in {"PutBlock", "SetCanonical"}
  BY FrontAndRest DEF Behind, Adopting, Moving, W
<1>1. ASSUME mode = "up", NEW b \in blocks, todo \in Settled(b)  PROVE FrontWrites
  <2>0. ~Behind  BY <1>1, QuietLists DEF Behind
  <2>1. Subject = b
    BY <1>1, FrontAndRest DEF Settled, Subject, W
  <2>2. CASE todo = <<W("PutBlock", b)>>
    BY <2>1, <2>2, <2>0, <1>0, <1>1, FrontAndRest DEF Doing, W
  <2>3. CASE todo = <<W("PutBlock", b), W("Checkpoint", b)>>
    BY <2>1, <2>3, <2>0, <1>0, <1>1, FrontAndRest DEF Doing, W
  <2>4. CASE todo = <<W("Checkpoint", b)>>
    BY <2>1, <2>4, <1>0, <1>1, FrontAndRest DEF Doing, W
  <2>5. CASE todo = <<W("SetHeads", b), W("CheckpointIfFinalized", b)>>
    BY <2>1, <2>5, <1>0, <1>1, FrontAndRest DEF Doing, W
  <2>6. CASE todo = <<W("CheckpointIfFinalized", b)>>
    BY <2>1, <2>6, <1>0, <1>1, FrontAndRest DEF Doing, W
  <2>7. CASE todo = <<W("FinishCheckpoint", b)>>
    BY <2>1, <2>7, <1>0, <1>1, FrontAndRest DEF Doing, W
  <2> QED  BY <1>1, <2>2, <2>3, <2>4, <2>5, <2>6, <2>7 DEF Settled
<1>2. CASE mode = "up" /\ todo = <<W("CheckpointGenesis", Genesis)>> /\ Genesis \in blocks
  BY <1>0, <1>2, FrontAndRest DEF Subject, Doing, W
<1>3. CASE mode = "up" /\ todo \in Moving(head)
  <2>1. todo = <<W("SetCanonical", head), W("SetHeads", head), W("CheckpointIfFinalized", head)>>
    BY <1>3 DEF Moving
  <2>2. Behind  BY <1>3 DEF Behind
  <2> QED  BY <1>3, <2>1, <2>2, FrontAndRest DEF Subject, Doing, W
<1>4. CASE mode = "up" /\ todo \in Adopting /\ blocks = {Genesis} /\ head = Genesis /\ dHead = None
  <2>1. Behind  BY <1>4 DEF Behind
  <2>2. CASE todo = <<W("PutBlock", Genesis), W("SetCanonical", Genesis), W("CheckpointGenesis", Genesis)>>
    BY <1>4, <2>1, <2>2, FrontAndRest DEF Subject, Doing, W
  <2>3. CASE todo = <<W("SetCanonical", Genesis), W("CheckpointGenesis", Genesis)>>
    BY <1>4, <2>1, <2>3, FrontAndRest DEF Subject, Doing, W
  <2> QED  BY <1>4, <2>2, <2>3 DEF Adopting
<1> QED  BY <1>1, <1>2, <1>3, <1>4 DEF TodoOK
-----------------------------------------------------------------------------
(***************************************************************************)
(* Each write preserves the invariant.                                     *)
(***************************************************************************)
\* A write leaves memory alone.
LEMMA WriteKeepsMemory ==
    ASSUME StoreInv, UNCHANGED <<vars, mode, declared, faults>>, mode = "up"
    PROVE  /\ TypeOK' /\ MemoryIsATree' /\ DownIsEmpty'
           /\ mode' \in {"down", "up", "failed"} /\ declared' \in Blocks /\ faults' \in FaultSets
<1> USE DEF vars, chainVars
<1>1. TypeOK'  BY DEF StoreInv, StoreTypeOK, TypeOK
<1>2. MemoryIsATree'  BY DEF StoreInv, MemoryIsATree, IsBase, IsChain
<1>3. DownIsEmpty'  BY DEF DownIsEmpty
<1> QED  BY <1>1, <1>2, <1>3 DEF StoreInv, StoreTypeOK

\* A list of writes that is quiet is well formed and not behind.
LEMMA QuietTodo ==
    ASSUME mode' = "up", NEW b \in blocks',
           \/ todo' = << >>
           \/ todo' \in Settled(b)
           \/ todo' = <<W("CheckpointGenesis", Genesis)>> /\ Genesis \in blocks'
    PROVE  TodoOK' /\ ~Behind' /\ ~(todo' # << >> /\ Head(todo').op = "SetCanonical")
<1>1. ~Behind'  BY QuietLists DEF Behind
<1>2. TodoOK'
  <2>1. CASE todo' \in Settled(b)  BY <2>1 DEF TodoOK
  <2>2. CASE todo' = << >> \/ (todo' = <<W("CheckpointGenesis", Genesis)>> /\ Genesis \in blocks')
    BY <2>2 DEF TodoOK
  <2> QED  BY <2>1, <2>2
<1>3. todo' \in Settled(b) => Head(todo').op # "SetCanonical"
  BY FrontAndRest DEF Settled, W
<1>4. todo' = <<W("CheckpointGenesis", Genesis)>> => Head(todo').op # "SetCanonical"
  BY FrontAndRest DEF W
<1> QED  BY <1>1, <1>2, <1>3, <1>4

\* PutBlock, of an import or of Adopt.
LEMMA PutBlockPreserves ==
    ASSUME StoreInv, PutBlock, UNCHANGED faults
    PROVE  StoreInv'
<1>1. /\ Doing("PutBlock") /\ dBlocks' = dBlocks \cup {Subject} /\ todo' = Tail(todo)
      /\ UNCHANGED <<vars, mode, dCanonical, dHead, dSafe, dFinalized, ckpts, declared>>
  BY DEF PutBlock
<1>2. mode = "up" /\ todo # << >> /\ Head(todo).op = "PutBlock"  BY <1>1 DEF Doing
<1>3. FrontWrites  BY <1>2, FrontWrite DEF StoreInv
<1>4. UNCHANGED <<blocks, head>>  BY <1>1 DEF vars, chainVars
<1>5. Subject \in blocks /\ Subject \in Blocks
  BY <1>3 DEF FrontWrites, StoreInv, StoreTypeOK, TypeOK
<1>6. StoreTypeOK'
  BY <1>1, <1>2, <1>5, WriteKeepsMemory DEF StoreInv, StoreTypeOK
<1>7. /\ TodoOK' /\ (Behind' <=> Behind)
      /\ ~(todo' # << >> /\ Head(todo').op = "PutBlock")
  <2>1. CASE Tail(todo) = << >> /\ ~Behind
    BY <2>1, <1>1, <1>2, <1>4, <1>5, QuietTodo
  <2>2. CASE Tail(todo) = <<W("Checkpoint", Subject)>> /\ ~Behind
    <3>1. todo' \in Settled(Subject)  BY <2>2, <1>1 DEF Settled
    <3>3. Head(todo').op = "Checkpoint"  BY <2>2, <1>1, FrontOfOne
    <3> QED  BY <2>2, <3>1, <3>3, <1>1, <1>2, <1>4, <1>5, QuietTodo
  <2>3. CASE /\ Tail(todo) = <<W("SetCanonical", Genesis), W("CheckpointGenesis", Genesis)>>
             /\ Subject = Genesis /\ todo \in Adopting
             /\ blocks = {Genesis} /\ head = Genesis /\ dHead = None
    <3>1. todo' \in Adopting  BY <2>3, <1>1 DEF Adopting
    <3>2. todo' = <<W("SetCanonical", Genesis), W("CheckpointGenesis", Genesis)>>  BY <2>3, <1>1
    <3>3. Head(todo').op = "SetCanonical"  BY <3>2, FrontOfTwo
    <3> QED  BY <2>3, <3>1, <3>3, <1>1, <1>2, <1>4 DEF TodoOK, Behind
  <2> QED  BY <1>1, <1>3, <2>1, <2>2, <2>3 DEF FrontWrites
<1>8. NoWriteFails' => StoredAsWritten'
  BY <1>1, <1>4, <1>7 DEF StoreInv, NoWriteFails, StoredAsWritten, IsChain
<1>9. ExtendsInStep' => StoredInStep'
  <2>1. SUFFICES ASSUME ExtendsInStep PROVE StoredInStep'  BY DEF ExtendsInStep
  <2>2. StoredInStep  BY <2>1 DEF StoreInv
  <2>3. \A d \in dBlocks : Comparable(d, Subject)  BY <2>2, <1>2 DEF StoredInStep
  <2>4. Comparable(Subject, Subject)  BY <1>5, GenesisOnChain DEF Comparable
  <2>5. \A d, e \in dBlocks' : Comparable(d, e)
    BY <2>2, <2>3, <2>4, <1>1 DEF StoredInStep, Comparable
  <2>6. \A d \in dBlocks' \ blocks', b \in blocks' : Comparable(d, b)
    BY <2>2, <1>1, <1>2, <1>4, <1>5 DEF StoredInStep
  <2> QED  BY <2>2, <2>5, <2>6, <1>1, <1>4, <1>7 DEF StoredInStep
<1> QED  BY <1>1, <1>2, <1>6, <1>7, <1>8, <1>9, WriteKeepsMemory DEF StoreInv
\* What SetCanonical writes while no write has failed: exactly the ancestry of
\* the head, though its walk ends where it leaves memory.
LEMMA MappingIsAncestry ==
    ASSUME StoreInv, Doing("SetCanonical"), NoWriteFails, SetCanonical
    PROVE  IsChain(dCanonical', Genesis, head)
<1>1. /\ todo # << >> /\ mode = "up"
      /\ StoredAsWritten /\ TypeOK /\ MemoryIsATree /\ TodoOK
  BY DEF Doing, StoreInv, StoreTypeOK
<1>2. Subject = head  BY <1>1, FrontWrite DEF FrontWrites
<1>3. head \in blocks /\ head \in Blocks /\ Number(head) \in Nat
  BY <1>1, NumbersAreNat DEF TypeOK
<1>4. PICK base \in blocks : IsBase(base)  BY <1>1 DEF MemoryIsATree
<1>5. base \in Blocks /\ Number(base) \in Nat  BY <1>1, NumbersAreNat DEF TypeOK
<1>6. Number(Genesis) = 0  BY <1>3, GenesisOnChain
<1>7. SUFFICES ASSUME NEW n \in Heights
               PROVE  dCanonical'[n] = IF n \in 0 .. Number(head) THEN Anc(head, n) ELSE None
  BY <1>6 DEF IsChain
<1>8. n \in Nat  BY HeightsClosed
<1>9. dCanonical'[n] =
         IF n > Number(head)
         THEN IF \A k \in Number(head) + 1 .. n : dCanonical[k] # None THEN None ELSE dCanonical[n]
         ELSE IF Rewrites(dCanonical, head, n) THEN Anc(head, n) ELSE dCanonical[n]
  BY <1>2 DEF SetCanonical
<1>10. CASE dHead = None
  <2>1. \A k \in Heights : dCanonical[k] = None  BY <1>1, <1>10 DEF StoredAsWritten
  <2>2. blocks = {Genesis} /\ head = Genesis
    BY <1>1, <1>3, <1>10 DEF StoredAsWritten
  <2>3. CASE n > 0  BY <2>1, <2>2, <2>3, <1>6, <1>8, <1>9
  <2>4. CASE n = 0
    <3>1. Anc(head, 0) = Genesis  BY <2>2, <1>3, <1>6, AncSelf DEF Number
    <3>2. \A k \in 0 .. 0 : k = 0  OBVIOUS
    <3>3. Genesis # None  BY ChainAssumption
    <3>4. Rewrites(dCanonical, head, 0)
      BY <3>1, <3>2, <3>3, <2>1, <2>2, <2>4, <1>6 DEF Rewrites
    <3> QED  BY <3>4, <2>2, <2>4, <1>6, <1>9
  <2> QED  BY <2>3, <2>4, <1>8
<1>11. CASE dHead # None
  <2>1. dHead \in blocks /\ dHead \in Blocks /\ IsChain(dCanonical, Genesis, dHead)
    BY <1>1, <1>11 DEF StoredAsWritten, TypeOK
  <2>2. Number(dHead) \in Nat  BY <2>1, NumbersAreNat
  <2>3. \A k \in Heights : dCanonical[k] = IF k \in 0 .. Number(dHead) THEN Anc(dHead, k) ELSE None
    BY <2>1, <1>6 DEF IsChain
  <2>4. CASE n > Number(head)
    <3>1. CASE n <= Number(dHead)
      <4>1. ASSUME NEW k \in Number(head) + 1 .. n  PROVE dCanonical[k] # None
        <5>1. k \in 0 .. Number(dHead)  BY <3>1, <2>2, <1>3, <1>8
        <5>2. k \in Heights /\ Anc(dHead, k) \in Blocks
          BY <5>1, <2>1, HeightsBelow, AncIsBlock DEF Number
        <5> QED  BY <5>1, <5>2, <2>3, ChainAssumption
      <4> QED  BY <4>1, <2>4, <1>3, <1>8, <1>9
    <3>2. CASE ~(n <= Number(dHead))
      <4>1. dCanonical[n] = None  BY <3>2, <2>2, <2>3, <1>8
      <4> QED  BY <4>1, <2>4, <1>3, <1>8, <1>9
    <3> QED  BY <3>1, <3>2
  <2>5. CASE n <= Number(head)
    <3>1. CASE Rewrites(dCanonical, head, n)  BY <3>1, <2>5, <1>3, <1>8, <1>9
    <3>2. CASE ~Rewrites(dCanonical, head, n)
      <4>1. ASSUME NEW k \in n .. Number(head), Anc(head, k) \notin blocks
            PROVE  dCanonical[k] = Anc(head, k)
        <5>1. k \in 0 .. Number(head)  BY <1>3, <1>8
        <5>2. ~(k \in Number(base) .. Number(head))  BY <4>1, <1>3, <1>4 DEF IsBase
        <5>3. k \in 0 .. Number(base)  BY <5>1, <5>2, <1>3, <1>5
        <5>4. OnChainOf(base, head) /\ OnChainOf(base, dHead)  BY <1>3, <1>4, <2>1 DEF IsBase
        <5>5. Anc(head, k) = Anc(base, k) /\ Anc(dHead, k) = Anc(base, k)
          BY <5>3, <5>4, <1>3, <1>5, <2>1, SharesAncestors
        <5>6. k \in 0 .. Number(dHead)
          BY <5>3, <5>4, <1>5, <2>2 DEF OnChainOf, Number
        <5>7. k \in Heights  BY <5>1, <1>3, HeightsBelow
        <5> QED  BY <5>5, <5>6, <5>7, <2>3
      <4>2. n \in Number(Genesis) .. Number(head)  BY <2>5, <1>3, <1>6, <1>8
      <4>3. dCanonical[n] = Anc(head, n)
        BY <4>1, <4>2, <3>2, <2>1, <1>3, ChainAssumption, WalkJoins
      <4> QED  BY <4>3, <3>2, <2>5, <1>3, <1>8, <1>9
    <3> QED  BY <3>1, <3>2
  <2> QED  BY <2>4, <2>5, <1>3, <1>8
<1> QED  BY <1>10, <1>11
\* SetCanonical.
LEMMA SetCanonicalPreserves ==
    ASSUME StoreInv, SetCanonical, UNCHANGED faults
    PROVE  StoreInv'
<1>1. /\ Doing("SetCanonical") /\ dHead' = Subject /\ todo' = Tail(todo)
      /\ UNCHANGED <<vars, mode, dBlocks, dSafe, dFinalized, ckpts, declared>>
  BY DEF SetCanonical
<1>2. mode = "up" /\ todo # << >>  BY <1>1 DEF Doing
<1>3. FrontWrites  BY <1>2, FrontWrite DEF StoreInv
<1>4. UNCHANGED <<blocks, head>>  BY <1>1 DEF vars, chainVars
<1>5. Subject = head /\ head \in blocks /\ head \in Blocks /\ Number(head) \in Nat
  BY <1>1, <1>3, NumbersAreNat DEF FrontWrites, StoreInv, StoreTypeOK, TypeOK
<1>6. \A n \in Heights : dCanonical'[n] =
         IF n > Number(head)
         THEN IF \A k \in Number(head) + 1 .. n : dCanonical[k] # None THEN None ELSE dCanonical[n]
         ELSE IF Rewrites(dCanonical, head, n) THEN Anc(head, n) ELSE dCanonical[n]
  BY <1>5 DEF SetCanonical
<1>7. \A n \in Heights : dCanonical'[n] = None \/ dCanonical'[n] = dCanonical[n]
                            \/ (n \in 0 .. Number(head) /\ dCanonical'[n] = Anc(head, n))
  BY <1>5, <1>6, HeightsClosed
<1>8. \A n \in 0 .. Number(head) : Anc(head, n) \in Blocks /\ Number(Anc(head, n)) = n
  BY <1>5, AncIsBlock DEF Number
<1>9. StoreTypeOK'
  <2>1. \A n \in Heights : dCanonical'[n] \in Hashes
    BY <1>7, <1>8 DEF StoreInv, StoreTypeOK, Hashes
  <2>2. dCanonical' = [n \in Heights |-> dCanonical'[n]]  BY DEF SetCanonical
  <2>3. dCanonical' \in [Heights -> Hashes]  BY <2>1, <2>2
  <2>4. dHead' \in Hashes  BY <1>1, <1>5 DEF Hashes
  <2> QED  BY <2>3, <2>4, <1>1, <1>2, WriteKeepsMemory DEF StoreInv, StoreTypeOK
<1>10. /\ TodoOK' /\ ~Behind'
       /\ ~(todo' # << >> /\ Head(todo').op = "PutBlock")
  <2>1. CASE Tail(todo) = <<W("SetHeads", head), W("CheckpointIfFinalized", head)>>
    <3>1. todo' \in Settled(head)  BY <2>1, <1>1 DEF Settled
    <3>2. Head(todo').op = "SetHeads"  
      <4>1. todo' = <<W("SetHeads", head), W("CheckpointIfFinalized", head)>>  BY <2>1, <1>1
      <4> QED  BY <4>1, FrontOfTwo
    <3> QED  BY <3>1, <3>2, <1>1, <1>2, <1>4, <1>5, QuietTodo
  <2>2. CASE Tail(todo) = <<W("CheckpointGenesis", Genesis)>> /\ blocks = {Genesis}
    <3>1. todo' = <<W("CheckpointGenesis", Genesis)>>  BY <2>2, <1>1
    <3>2. Head(todo').op = "CheckpointGenesis"  BY <3>1, FrontOfOne
    <3> QED  BY <2>2, <3>1, <3>2, <1>1, <1>2, <1>4, QuietTodo
  <2> QED  BY <1>1, <1>3, <2>1, <2>2 DEF FrontWrites
<1>11. NoWriteFails' => StoredAsWritten'
  <2>1. SUFFICES ASSUME NoWriteFails PROVE StoredAsWritten'  BY DEF NoWriteFails
  <2>2. IsChain(dCanonical', Genesis, head)  BY <2>1, <1>1, MappingIsAncestry
  <2>3. dHead' = head /\ dHead' # None  BY <1>1, <1>5, ChainAssumption
  <2> QED  BY <2>2, <2>3, <1>4, <1>5 DEF StoredAsWritten, IsChain
<1>12. ExtendsInStep' => StoredInStep'
  <2>1. SUFFICES ASSUME ExtendsInStep PROVE StoredInStep'  BY DEF ExtendsInStep
  <2>2. StoredInStep  BY <2>1 DEF StoreInv
  <2>3. dHead' = head /\ dHead' # None  BY <1>1, <1>5, ChainAssumption
  <2>4. OnChainOf(head, head)  BY <1>5, GenesisOnChain
  <2>5. dHead # None => Number(dHead) \in Nat /\ Number(dHead) <= Number(head)
    BY <2>2, <1>2, NumbersAreNat DEF StoredInStep, OnChainOf, Number, StoreInv, StoreTypeOK, Hashes
  <2>6. ASSUME NEW n \in Heights, dCanonical'[n] # None
        PROVE  Number(dCanonical'[n]) = n /\ n <= Number(head)
    <3>1. n \in Nat  BY HeightsClosed
    <3>2. CASE dCanonical'[n] = dCanonical[n]
      BY <2>2, <2>5, <2>6, <3>1, <3>2, <1>5 DEF StoredInStep
    <3>3. CASE n \in 0 .. Number(head) /\ dCanonical'[n] = Anc(head, n)
      BY <3>3, <1>5, <1>8
    <3> QED  BY <2>6, <3>2, <3>3, <1>7
  <2> QED  BY <2>2, <2>3, <2>4, <2>6, <1>1, <1>2, <1>4, <1>10 DEF StoredInStep
<1> QED  BY <1>1, <1>2, <1>9, <1>10, <1>11, <1>12, WriteKeepsMemory DEF StoreInv

\* SetHeads, which the mapping's batch has made say the same of the head.
LEMMA SetHeadsPreserves ==
    ASSUME StoreInv, SetHeads, UNCHANGED faults
    PROVE  StoreInv'
<1>1. /\ Doing("SetHeads") /\ WriteHeads /\ todo' = Tail(todo)
      /\ UNCHANGED <<vars, mode, dBlocks, dCanonical, ckpts, declared>>
  BY DEF SetHeads
<1>2. mode = "up" /\ todo # << >> /\ Head(todo).op = "SetHeads"  BY <1>1 DEF Doing
<1>3. FrontWrites /\ ~Behind
  BY <1>2, FrontWrite DEF StoreInv, FrontWrites, Doing
<1>4. UNCHANGED <<blocks, head>>  BY <1>1 DEF vars, chainVars
<1>5. /\ Subject \in blocks /\ head \in blocks /\ head \in Blocks /\ Number(head) \in Nat
      /\ dHead' = head /\ dHead' # None
  BY <1>1, <1>3, NumbersAreNat, ChainAssumption
     DEF FrontWrites, StoreInv, StoreTypeOK, TypeOK, WriteHeads
<1>6. StoreTypeOK'
  <2>1. dHead' \in Hashes /\ dSafe' \in Hashes /\ dFinalized' \in Hashes
    BY <1>1, <1>5 DEF WriteHeads, StoreInv, StoreTypeOK, TypeOK, Hashes
  <2> QED  BY <2>1, <1>1, <1>2, WriteKeepsMemory DEF StoreInv, StoreTypeOK
<1>7. todo' = <<W("CheckpointIfFinalized", Subject)>>  BY <1>1, <1>3 DEF FrontWrites
<1>8. TodoOK' /\ ~Behind' /\ ~(todo' # << >> /\ Head(todo').op = "PutBlock")
  <2>1. todo' \in Settled(Subject)  BY <1>7 DEF Settled
  <2>2. Head(todo').op = "CheckpointIfFinalized"  BY <1>7, FrontOfOne
  <2> QED  BY <2>1, <2>2, <1>1, <1>2, <1>4, <1>5, QuietTodo
<1>9. NoWriteFails' => StoredAsWritten'
  <2>1. SUFFICES ASSUME NoWriteFails PROVE StoredAsWritten'  BY DEF NoWriteFails
  <2>2. StoredAsWritten  BY <2>1 DEF StoreInv
  <2>3. dHead = head  BY <2>2, <1>2, <1>3 DEF StoredAsWritten
  <2>4. IsChain(dCanonical, Genesis, head)  BY <2>2, <2>3, <1>5 DEF StoredAsWritten
  <2>5. IsChain(dCanonical, Genesis, head)'  BY <2>4, <1>1, <1>4 DEF IsChain
  <2> QED  BY <2>5, <1>4, <1>5 DEF StoredAsWritten
<1>10. ExtendsInStep' => StoredInStep'
  <2>1. SUFFICES ASSUME ExtendsInStep PROVE StoredInStep'  BY DEF ExtendsInStep
  <2>2. StoredInStep  BY <2>1 DEF StoreInv
  <2>3. OnChainOf(head, head)  BY <1>5, GenesisOnChain
  <2>4. dHead # None => Number(dHead) \in Nat /\ Number(dHead) <= Number(head)
    BY <2>2, <1>2, NumbersAreNat DEF StoredInStep, OnChainOf, Number, StoreInv, StoreTypeOK, Hashes
  <2>5. \A n \in Heights : dCanonical'[n] # None =>
            Number(dCanonical'[n]) = n /\ dHead' # None /\ n <= Number(dHead')
    BY <2>2, <2>4, <1>1, <1>5, HeightsClosed DEF StoredInStep
  <2> QED  BY <2>2, <2>3, <2>5, <1>1, <1>2, <1>4, <1>5, <1>8 DEF StoredInStep
<1> QED  BY <1>1, <1>2, <1>6, <1>8, <1>9, <1>10, WriteKeepsMemory DEF StoreInv

\* Every other write leaves the database as it is.
LEMMA QuietWritePreserves ==
    ASSUME StoreInv, UNCHANGED <<vars, mode, dbVars, declared, faults>>, mode = "up", ~Behind,
           ckpts' \subseteq Checkpoint, TodoOK', ~Behind',
           ~(todo' # << >> /\ Head(todo').op = "PutBlock")
    PROVE  StoreInv'
<1>1. UNCHANGED <<blocks, head, dBlocks, dCanonical, dHead, dSafe, dFinalized>>
  BY DEF vars, chainVars, dbVars
<1>2. StoreTypeOK'
  BY <1>1, WriteKeepsMemory DEF StoreInv, StoreTypeOK
<1>3. NoWriteFails' => StoredAsWritten'
  BY <1>1 DEF StoreInv, NoWriteFails, StoredAsWritten, IsChain
<1>4. ExtendsInStep' => StoredInStep'
  BY <1>1 DEF StoreInv, ExtendsInStep, StoredInStep
<1> QED  BY <1>2, <1>3, <1>4, WriteKeepsMemory DEF StoreInv
\* CheckpointIfFinalized asks for a checkpoint of a block in memory.
LEMMA IfFinalizedPreserves ==
    ASSUME StoreInv, CheckpointIfFinalized, UNCHANGED faults
    PROVE  StoreInv'
<1>1. /\ Doing("CheckpointIfFinalized")
      /\ todo' = << >> \/ (finalized \in blocks /\ todo' = <<W("Checkpoint", finalized)>>)
      /\ UNCHANGED <<vars, mode, diskVars, declared>>
  BY DEF CheckpointIfFinalized
<1>2. mode = "up" /\ todo # << >> /\ Head(todo).op = "CheckpointIfFinalized"  BY <1>1 DEF Doing
<1>3. ~Behind  BY <1>2, FrontWrite DEF StoreInv, FrontWrites, Doing
<1>4. UNCHANGED <<blocks, ckpts, dbVars, mode>> /\ head \in blocks
  BY <1>1 DEF vars, chainVars, diskVars, StoreInv, StoreTypeOK, TypeOK
<1>5. TodoOK' /\ ~Behind' /\ ~(todo' # << >> /\ Head(todo').op = "PutBlock")
  <2>1. CASE todo' = << >>  BY <2>1, <1>2, <1>4, QuietTodo
  <2>2. CASE finalized \in blocks /\ todo' = <<W("Checkpoint", finalized)>>
    <3>1. todo' \in Settled(finalized)  BY <2>2 DEF Settled
    <3>2. Head(todo').op = "Checkpoint"  BY <2>2, FrontOfOne
    <3> QED  BY <2>2, <3>1, <3>2, <1>2, <1>4, QuietTodo
  <2> QED  BY <1>1, <2>1, <2>2
<1> QED  BY <1>1, <1>2, <1>3, <1>4, <1>5, QuietWritePreserves DEF StoreInv, StoreTypeOK

\* The two steps of a checkpoint.
LEMMA CheckpointPreserves ==
    ASSUME StoreInv, TakeCheckpoint \/ FinishCheckpoint, UNCHANGED faults
    PROVE  StoreInv'
<1>1. /\ Doing("Checkpoint") \/ Doing("CheckpointGenesis") \/ Doing("FinishCheckpoint")
      /\ UNCHANGED <<vars, mode, dbVars, declared>>
  BY DEF TakeCheckpoint, FinishCheckpoint
<1>2. mode = "up" /\ todo # << >>  BY <1>1 DEF Doing
<1>3. /\ FrontWrites /\ Tail(todo) = << >>
  BY <1>1, <1>2, FrontWrite DEF StoreInv, FrontWrites
<1>4. ~Behind
  BY <1>1, <1>3 DEF FrontWrites, Doing
<1>5. Subject \in blocks /\ head \in blocks /\ Subject \in Blocks /\ ckpts \subseteq Checkpoint
  BY <1>3 DEF FrontWrites, StoreInv, StoreTypeOK, TypeOK
<1>6. UNCHANGED blocks  BY <1>1 DEF vars, chainVars
<1>7. ckpts' \subseteq Checkpoint
  <2>1. \A full \in BOOLEAN : [block |-> Subject, full |-> full] \in Checkpoint
    BY <1>5 DEF Checkpoint
  <2>2. CASE TakeCheckpoint  BY <2>1, <2>2, <1>5 DEF TakeCheckpoint, StartCheckpoint
  <2>3. CASE FinishCheckpoint
    BY <2>1, <2>3, <1>5 DEF FinishCheckpoint, Kept
  <2> QED  BY <2>2, <2>3
<1>8. todo' = << >> \/ todo' = <<W("FinishCheckpoint", Subject)>>
  <2>1. \A a : <<a>> \o << >> = <<a>>  OBVIOUS
  <2> QED  BY <2>1, <1>3 DEF TakeCheckpoint, StartCheckpoint, FinishCheckpoint
<1>9. TodoOK' /\ ~Behind' /\ ~(todo' # << >> /\ Head(todo').op = "PutBlock")
  <2>1. CASE todo' = << >>  BY <2>1, <1>1, <1>2, <1>5, <1>6, QuietTodo
  <2>2. CASE todo' = <<W("FinishCheckpoint", Subject)>>
    <3>1. todo' \in Settled(Subject)  BY <2>2 DEF Settled
    <3>2. Head(todo').op = "FinishCheckpoint"  BY <2>2, FrontOfOne
    <3> QED  BY <3>1, <3>2, <1>1, <1>2, <1>5, <1>6, QuietTodo
  <2> QED  BY <1>8, <2>1, <2>2
<1> QED  BY <1>1, <1>2, <1>4, <1>7, <1>9, QuietWritePreserves

\* A failed write drops the writes that depend on it.
LEMMA WriteFailsPreserves ==
    ASSUME StoreInv, WriteFails, UNCHANGED faults
    PROVE  StoreInv'
<1>1. /\ Doing("PutBlock") \/ Doing("SetCanonical") \/ Doing("SetHeads") \/ Doing("FinishCheckpoint")
      /\ UNCHANGED <<vars, mode, dbVars, declared>>
      /\ ckpts' \subseteq ckpts /\ ~NoWriteFails
  BY DEF WriteFails, NoWriteFails
<1>2. mode = "up" /\ todo # << >> /\ FrontWrites /\ UNCHANGED <<blocks, head>> /\ head \in blocks
  BY <1>1, FrontWrite DEF Doing, StoreInv, StoreTypeOK, TypeOK, vars, chainVars
<1>3. Subject \in blocks  BY <1>2 DEF FrontWrites
<1>4. todo' = << >> \/ \E b \in blocks : todo' = <<W("CheckpointIfFinalized", b)>>
  <2>1. CASE Doing("PutBlock") /\ todo' = << >>  BY <2>1
  <2>2. CASE Doing("SetCanonical") /\ Head(Tail(todo)).op = "SetHeads" /\ todo' = Tail(Tail(todo))
    <3>1. Tail(todo) # <<W("CheckpointGenesis", Genesis)>>
      <4>1. ASSUME Tail(todo) = <<W("CheckpointGenesis", Genesis)>>
            PROVE  Head(Tail(todo)).op = "CheckpointGenesis"
        BY <4>1, FrontOfOne
      <4> QED  BY <4>1, <2>2
    <3>2. Tail(todo) = <<W("SetHeads", head), W("CheckpointIfFinalized", head)>>
      BY <2>2, <3>1, <1>2 DEF FrontWrites
    <3>3. Tail(Tail(todo)) = <<W("CheckpointIfFinalized", head)>>
      <4> DEFINE a == W("SetHeads", head)  b == W("CheckpointIfFinalized", head)
      <4>1. Tail(todo) = <<a, b>>  BY <3>2
      <4> HIDE DEF a, b
      <4>2. \A t : t = <<a, b>> => Tail(t) = <<b>>  OBVIOUS
      <4>3. Tail(Tail(todo)) = <<b>>  BY <4>1, <4>2
      <4> QED  BY <4>3 DEF b
    <3> QED  BY <2>2, <3>3, <1>2
  <2>3. CASE Doing("SetHeads") /\ todo' = Tail(todo)  BY <2>3, <1>2, <1>3 DEF FrontWrites
  <2>4. CASE Doing("FinishCheckpoint") /\ todo' = Tail(todo)  BY <2>4, <1>2 DEF FrontWrites
  <2> QED  BY <2>1, <2>2, <2>3, <2>4 DEF WriteFails
<1>5. TodoOK' /\ ~Behind' /\ ~(todo' # << >> /\ Head(todo').op = "PutBlock")
  <2>1. CASE todo' = << >>  BY <2>1, <1>1, <1>2, QuietTodo
  <2>2. ASSUME NEW b \in blocks, todo' = <<W("CheckpointIfFinalized", b)>>
        PROVE  TodoOK' /\ ~Behind' /\ ~(todo' # << >> /\ Head(todo').op = "PutBlock")
    <3>1. todo' \in Settled(b)  BY <2>2 DEF Settled
    <3>2. Head(todo').op = "CheckpointIfFinalized"  BY <2>2, FrontOfOne
    <3> QED  BY <3>1, <3>2, <1>1, <1>2, QuietTodo
  <2> QED  BY <1>4, <2>1, <2>2
<1>6. UNCHANGED <<dBlocks, dCanonical, dHead, dSafe, dFinalized>>  BY <1>1 DEF dbVars
<1>7. StoreTypeOK'
  BY <1>1, <1>2, <1>6, WriteKeepsMemory DEF StoreInv, StoreTypeOK
<1>8. ExtendsInStep' => StoredInStep'
  BY <1>1, <1>2, <1>5, <1>6 DEF StoreInv, ExtendsInStep, StoredInStep
<1>9. ~NoWriteFails'  BY <1>1 DEF NoWriteFails
<1> QED  BY <1>1, <1>2, <1>5, <1>7, <1>8, <1>9, WriteKeepsMemory DEF StoreInv
-----------------------------------------------------------------------------
(***************************************************************************)
(* The handlers.                                                           *)
(***************************************************************************)
\* A block whose parent is in memory extends the tree.
LEMMA ImportExtendsTree ==
    ASSUME TypeOK, MemoryIsATree, NEW b \in Blocks, b \notin blocks, Parent(b) \in blocks,
           blocks' = blocks \cup {b}, canonical' = canonical
    PROVE  MemoryIsATree'
<1>1. PICK base \in blocks : IsBase(base)  BY DEF MemoryIsATree
<1>2. Number(b) \in Nat /\ b # Genesis
  <2>1. Parent(Genesis) = Genesis  BY DEF Parent, Anc, Genesis
  <2> QED  BY <2>1, NumbersAreNat
<1>3. Number(b) - 1 \in 0 .. Number(b) /\ Number(b) - 1 \in Nat
  BY <1>2, HeightsClosed DEF Number
<1>4. Parent(b) = Anc(b, Number(b) - 1) /\ Number(Parent(b)) = Number(b) - 1
  BY <1>3, AncIsBlock DEF Parent, Number
<1>5. base \in Blocks /\ Parent(b) \in Blocks /\ Number(base) \in Nat
  BY NumbersAreNat DEF TypeOK
<1>6. OnChainOf(Parent(b), b)  BY <1>3, <1>4, AncOnChain
<1>7. OnChainOf(base, b)  BY <1>1, <1>5, <1>6, OnChainTransitive DEF IsBase
<1>8. ASSUME NEW n \in Number(base) .. Number(b)  PROVE Anc(b, n) \in blocks'
  <2>1. CASE n = Number(b)  BY <2>1, AncSelf DEF Number
  <2>2. CASE n # Number(b)
    <3>1. n \in Number(base) .. Number(Parent(b)) /\ n \in 0 .. Number(Parent(b))
      BY <2>2, <1>2, <1>4, <1>5
    <3>2. Anc(b, n) = Anc(Parent(b), n)  BY <3>1, <1>5, <1>6, SharesAncestors
    <3> QED  BY <3>1, <3>2, <1>1 DEF IsBase
  <2> QED  BY <2>1, <2>2
<1>9. IsBase(base)'
  BY <1>1, <1>7, <1>8 DEF IsBase, IsChain
<1> QED  BY <1>9 DEF MemoryIsATree

\* ImportPayload: the block joins the tree, and its writes are queued.
LEMMA StoreImportPreserves ==
    ASSUME StoreInv, NEW b \in Blocks, StoreImport(b), UNCHANGED faults, ExtendsInStep => InStep
    PROVE  StoreInv'
<1>1. /\ Idle /\ ImportReplay(b)
      /\ \/ todo' = <<W("PutBlock", b), W("Checkpoint", b)>>
         \/ todo' = <<W("PutBlock", b)>>
      /\ UNCHANGED <<mode, diskVars, declared>>
  BY DEF StoreImport
<1>2. /\ mode = "up" /\ todo = << >> /\ mode' = "up"
      /\ b \notin blocks /\ Parent(b) \in blocks
      /\ blocks' = blocks \cup {b}
      /\ UNCHANGED <<canonical, head, safe, finalized, highest, pending>>
      /\ UNCHANGED <<dBlocks, dCanonical, dHead, dSafe, dFinalized, ckpts>>
  BY <1>1 DEF Idle, ImportReplay, Commit, diskVars, dbVars
<1>3. ~Behind  BY <1>2, QuietLists DEF Behind
<1>4. TypeOK'
  <2>1. TypeOK  BY DEF StoreInv, StoreTypeOK
  <2>2. Parent(b) \in Snapshots /\ b # Genesis
    BY <1>1, GenesisIsItsParent DEF ImportReplay
  <2>3. machines[Parent(b)] \in Seq(Payload)  BY <2>1, <2>2 DEF TypeOK
  <2>4. Executed(machines[Parent(b)], b) \in Seq(Payload)  BY <2>2, <2>3, ExecutedIsMachine
  <2> QED  BY <1>1, <1>2, <2>1, <2>4, CommitKeepsTypes DEF ImportReplay
<1>5. StoreTypeOK'  BY <1>1, <1>2, <1>4 DEF StoreInv, StoreTypeOK
<1>6. MemoryIsATree'  BY <1>2, ImportExtendsTree DEF StoreInv, StoreTypeOK
<1>7. todo' \in Settled(b) /\ b \in blocks'  BY <1>1, <1>2 DEF Settled
<1>8. TodoOK' /\ ~Behind'  BY <1>2, <1>7, QuietTodo
<1>9. Head(todo').block = b
  BY <1>1, FrontOfOne, FrontOfTwo
<1>10. NoWriteFails' => StoredAsWritten'
  <2>1. SUFFICES ASSUME NoWriteFails PROVE StoredAsWritten'  BY DEF NoWriteFails
  <2>2. StoredAsWritten /\ dHead = head  BY <2>1, <1>2, <1>3 DEF StoreInv, StoredAsWritten
  <2>3. head \in blocks /\ head # None  BY ChainAssumption DEF StoreInv, StoreTypeOK, TypeOK
  <2> QED  BY <2>2, <2>3, <1>2, <1>8 DEF StoredAsWritten, IsChain
<1>11. ExtendsInStep' => StoredInStep'
  <2>1. SUFFICES ASSUME ExtendsInStep PROVE StoredInStep'  BY DEF ExtendsInStep
  <2>2. StoredInStep  BY <2>1 DEF StoreInv
  <2>3. \A d \in dBlocks : Comparable(d, b)
    BY <2>1, <1>2 DEF InStep, Comparable
  <2>4. \A d \in dBlocks' \ blocks', e \in blocks' : Comparable(d, e)
    BY <2>2, <2>3, <1>2 DEF StoredInStep
  <2>5. \A d \in dBlocks' : Comparable(d, Subject')  BY <2>3, <1>2, <1>9 DEF Subject
  <2> QED  BY <2>2, <2>4, <2>5, <1>2 DEF StoredInStep
<1>12. DownIsEmpty'  BY <1>2 DEF DownIsEmpty
<1> QED  BY <1>5, <1>6, <1>8, <1>10, <1>11, <1>12 DEF StoreInv

\* A reorg inside memory keeps memory a tree.
LEMMA ReorgKeepsTree ==
    ASSUME TypeOK, MemoryIsATree, NEW h \in blocks, blocks' = blocks, canonical' = ReorgTo(h)
    PROVE  MemoryIsATree' /\ canonical' \in [Heights -> Hashes]
<1>1. PICK base \in blocks : IsBase(base)  BY DEF MemoryIsATree
<1>2. IsChain(canonical', base, h) /\ canonical' \in [Heights -> Hashes]
  BY <1>1, ReorgIsChain
<1>3. IsBase(base)'  BY <1>1, <1>2 DEF IsBase, IsChain
<1> QED  BY <1>2, <1>3 DEF MemoryIsATree

\* ForkchoiceUpdated, accepted: the head moves in memory, the mapping and the
\* heads are queued behind it.
LEMMA StoreForkchoicePreserves ==
    ASSUME StoreInv, NEW h \in blocks, NEW s \in Hashes, NEW f \in Hashes,
           StoreForkchoice(h, s, f), UNCHANGED faults, ExtendsInStep => InStep
    PROVE  StoreInv'
<1>1. /\ Idle /\ ForkchoiceOnly(h, s, f, StoredCanonical)
      /\ todo' = <<W("SetCanonical", h), W("SetHeads", h), W("CheckpointIfFinalized", h)>>
      /\ declared' = Moved(declared, f)
      /\ UNCHANGED <<mode, diskVars>>
  BY DEF StoreForkchoice
<1>2. /\ mode = "up" /\ todo = << >> /\ mode' = "up"
      /\ canonical' = ReorgTo(h) /\ blocks' = blocks /\ head' = h
      /\ safe' = Moved(safe, s) /\ finalized' = Moved(finalized, f)
      /\ machines' = [b \in Retained(Snapshots, h, safe', finalized') |-> machines[b]]
      /\ highest' = IF Number(h) > highest THEN Number(h) ELSE highest
      /\ pending' = StillBuildable(h)
      /\ UNCHANGED <<dBlocks, dCanonical, dHead, dSafe, dFinalized, ckpts>>
  BY <1>1 DEF Idle, ForkchoiceOnly, ForkchoiceAccepted, diskVars, dbVars
<1>3. ~Behind  BY <1>2, QuietLists DEF Behind
<1>4. TypeOK /\ MemoryIsATree /\ h \in Blocks /\ head \in Blocks /\ Number(h) \in Nat
  BY NumbersAreNat DEF StoreInv, StoreTypeOK, TypeOK
<1>5. MemoryIsATree' /\ canonical' \in [Heights -> Hashes]  BY <1>2, <1>4, ReorgKeepsTree
<1>6. StoreTypeOK'
  <2>1. safe' \in Blocks /\ finalized' \in Blocks /\ declared' \in Blocks
    BY <1>1, <1>2 DEF Moved, Hashes, StoreInv, StoreTypeOK, TypeOK
  <2>2. pending' \subseteq PendingPayload  BY <1>2, <1>4 DEF StillBuildable, TypeOK
  <2>a. Retained(Snapshots, h, safe', finalized') \subseteq Snapshots  BY DEF Retained
  <2>b. Snapshots' \subseteq blocks' /\ machines' \in [Snapshots' -> Seq(Payload)]
    BY <1>2, <1>4, <2>a, PruneKeepsTypes
  <2>3. TypeOK'  BY <2>1, <2>2, <2>b, <1>2, <1>4, <1>5 DEF TypeOK
  <2> QED  BY <2>1, <2>3, <1>2 DEF StoreInv, StoreTypeOK
<1>7. todo' \in Moving(head')  BY <1>1, <1>2 DEF Moving
<1>8. TodoOK' /\ Behind'  BY <1>2, <1>7 DEF TodoOK, Behind
<1>9. ~(todo' # << >> /\ Head(todo').op = "PutBlock")
  <2>1. Head(todo') = W("SetCanonical", h)
    <3> DEFINE a == W("SetCanonical", h)  b == W("SetHeads", h)  c == W("CheckpointIfFinalized", h)
    <3>1. todo' = <<a, b, c>>  BY <1>1
    <3> HIDE DEF a, b, c
    <3>2. Head(todo') = a  BY <3>1, FrontAndRest
    <3> QED  BY <3>2 DEF a
  <2> QED  BY <2>1 DEF W
<1>10. NoWriteFails' => StoredAsWritten'
  BY <1>2, <1>3, <1>8 DEF StoreInv, NoWriteFails, StoredAsWritten, IsChain
<1>11. ExtendsInStep' => StoredInStep'
  <2>1. SUFFICES ASSUME ExtendsInStep PROVE StoredInStep'  BY DEF ExtendsInStep
  <2>2. StoredInStep  BY <2>1 DEF StoreInv
  <2>3. OnChainOf(head, h)  BY <2>1, <1>2 DEF InStep
  <2>4. dHead # None => OnChainOf(dHead, h)
    BY <2>2, <2>3, <1>2, <1>4, OnChainTransitive DEF StoredInStep, StoreInv, StoreTypeOK, Hashes
  <2> QED  BY <2>2, <2>4, <1>2, <1>9 DEF StoredInStep
<1>12. DownIsEmpty'  BY <1>2 DEF DownIsEmpty
<1> QED  BY <1>5, <1>6, <1>8, <1>10, <1>11, <1>12 DEF StoreInv

\* ForkchoiceUpdated, refused after the reorg in memory.
LEMMA StoreInvalidPreserves ==
    ASSUME StoreInv, NEW h \in blocks, NEW s \in Hashes, NEW f \in Hashes,
           StoreForkchoiceInvalid(h, s, f), UNCHANGED faults
    PROVE  StoreInv'
<1>1. /\ mode = "up" /\ todo = << >> /\ mode' = "up" /\ todo' = todo
      /\ canonical' = ReorgTo(h)
      /\ safe' = safe \/ safe' = Moved(safe, s)
      /\ UNCHANGED <<blocks, machines, pending, head, finalized, highest>>
      /\ UNCHANGED <<dBlocks, dCanonical, dHead, dSafe, dFinalized, ckpts, declared>>
  BY DEF StoreForkchoiceInvalid, Idle, ForkchoiceInvalid, diskVars, dbVars
<1>2. TypeOK /\ MemoryIsATree  BY DEF StoreInv, StoreTypeOK
<1>3. MemoryIsATree' /\ canonical' \in [Heights -> Hashes]  BY <1>1, <1>2, ReorgKeepsTree
<1>4. safe' \in Blocks  BY <1>1, <1>2 DEF Moved, Hashes, TypeOK
<1>5. StoreTypeOK'  BY <1>1, <1>3, <1>4 DEF StoreInv, StoreTypeOK, TypeOK
<1>6. TodoOK' /\ DownIsEmpty' /\ (Behind' <=> Behind)  BY <1>1 DEF TodoOK, DownIsEmpty, Behind
<1>7. NoWriteFails' => StoredAsWritten'
  BY <1>1, <1>6 DEF StoreInv, NoWriteFails, StoredAsWritten, IsChain
<1>8. ExtendsInStep' => StoredInStep'
  BY <1>1 DEF StoreInv, ExtendsInStep, StoredInStep
<1> QED  BY <1>3, <1>5, <1>6, <1>7, <1>8 DEF StoreInv
-----------------------------------------------------------------------------
(***************************************************************************)
(* Stopping and starting.                                                  *)
(***************************************************************************)
\* An empty memory holds genesis alone, which is a tree.
LEMMA EmptyMemory ==
    ASSUME MemoryLost
    PROVE  TypeOK' /\ MemoryIsATree'
<1> USE DEF MemoryLost
<1>1. \A n \in Heights : canonical'[n] \in Hashes
  BY ChainAssumption DEF Hashes
<1>2. canonical' \in [Heights -> Hashes]  BY <1>1
<1>3. TypeOK'
  <2>1. machines' \in [{Genesis} -> Seq(Payload)] /\ Snapshots' = {Genesis}
    BY DEF GenesisMachine
  <2> QED  BY <1>2, <2>1, ChainAssumption DEF TypeOK
<1>4. /\ Genesis \in Blocks /\ Number(Genesis) = 0 /\ OnChainOf(Genesis, Genesis)
      /\ Anc(Genesis, 0) = Genesis
  BY ChainAssumption, GenesisOnChain, AncSelf DEF Number
<1>5. \A n : n \in 0 .. 0 <=> n = 0  OBVIOUS
<1>6. IsChain(canonical', Genesis, Genesis)  BY <1>4, <1>5 DEF IsChain
<1>7. IsBase(Genesis)'  BY <1>4, <1>5, <1>6 DEF IsBase, IsChain
<1> QED  BY <1>3, <1>7 DEF MemoryIsATree

\* A crash, wherever in a handler it comes, loses memory and nothing else.
LEMMA CrashPreserves ==
    ASSUME StoreInv, Crash, UNCHANGED faults
    PROVE  StoreInv'
<1>1. /\ MemoryLost /\ mode' = "down" /\ todo' = << >>
      /\ UNCHANGED <<dBlocks, dCanonical, dHead, dSafe, dFinalized, ckpts, declared>>
  BY DEF Crash, diskVars, dbVars
<1>2. StoreTypeOK'  BY <1>1, EmptyMemory DEF StoreInv, StoreTypeOK
<1>3. TodoOK' /\ DownIsEmpty'  BY <1>1 DEF TodoOK, DownIsEmpty, MemoryLost
<1>4. NoWriteFails' => StoredAsWritten'
  BY <1>1 DEF StoreInv, NoWriteFails, StoredAsWritten, IsChain
<1>5. ExtendsInStep' => StoredInStep'
  BY <1>1 DEF StoreInv, ExtendsInStep, StoredInStep
<1> QED  BY <1>1, <1>2, <1>3, <1>4, <1>5, EmptyMemory DEF StoreInv

\* Close writes the heads once more before memory goes.
LEMMA ClosePreserves ==
    ASSUME StoreInv, Close, UNCHANGED faults
    PROVE  StoreInv'
<1>1. /\ MemoryLost /\ mode = "up" /\ mode' = "down" /\ todo = << >> /\ todo' = << >>
      /\ dHead' = head /\ dSafe' = safe /\ dFinalized' = finalized
      /\ UNCHANGED <<dBlocks, dCanonical, ckpts, declared>>
  BY DEF Close, Idle, WriteHeads
<1>2. head \in Blocks /\ head # None /\ Number(head) \in Nat
  BY NumbersAreNat, ChainAssumption DEF StoreInv, StoreTypeOK, TypeOK
<1>3. StoreTypeOK'
  <2>1. dHead' \in Hashes /\ dSafe' \in Hashes /\ dFinalized' \in Hashes
    BY <1>1, <1>2 DEF StoreInv, StoreTypeOK, TypeOK, Hashes
  <2> QED  BY <2>1, <1>1, EmptyMemory DEF StoreInv, StoreTypeOK
<1>4. TodoOK' /\ DownIsEmpty'  BY <1>1 DEF TodoOK, DownIsEmpty, MemoryLost
<1>5. NoWriteFails' => StoredAsWritten'
  <2>1. SUFFICES ASSUME NoWriteFails PROVE StoredAsWritten'  BY DEF NoWriteFails
  <2>2. ~Behind  BY <1>1, QuietLists DEF Behind
  <2>3. dHead = head /\ IsChain(dCanonical, Genesis, head)
    BY <2>1, <2>2, <1>1, <1>2 DEF StoreInv, StoredAsWritten
  <2> QED  BY <2>3, <1>1, <1>2 DEF StoredAsWritten, IsChain
<1>6. ExtendsInStep' => StoredInStep'
  <2>1. SUFFICES ASSUME ExtendsInStep PROVE StoredInStep'  BY DEF ExtendsInStep
  <2>2. StoredInStep  BY <2>1 DEF StoreInv
  <2>3. dHead # None => Number(dHead) \in Nat /\ Number(dHead) <= Number(head)
    BY <2>2, <1>1, NumbersAreNat DEF StoredInStep, OnChainOf, Number, StoreInv, StoreTypeOK, Hashes
  <2>4. \A n \in Heights : dCanonical'[n] # None =>
            Number(dCanonical'[n]) = n /\ dHead' # None /\ n <= Number(dHead')
    BY <2>2, <2>3, <1>1, <1>2, HeightsClosed DEF StoredInStep
  <2> QED  BY <2>2, <2>4, <1>1 DEF StoredInStep
<1> QED  BY <1>1, <1>3, <1>4, <1>5, <1>6, EmptyMemory DEF StoreInv

\* A fresh start has genesis in memory and all of Adopt's writes to make.
LEMMA StartFreshPreserves ==
    ASSUME StoreInv, StartFresh, UNCHANGED faults
    PROVE  StoreInv'
<1>1. /\ mode = "down" /\ dHead = None /\ mode' = "up"
      /\ todo' = <<W("PutBlock", Genesis), W("SetCanonical", Genesis), W("CheckpointGenesis", Genesis)>>
      /\ UNCHANGED <<vars, blocks, canonical, machines, pending, head, safe, finalized, highest>>
      /\ UNCHANGED <<dBlocks, dCanonical, dHead, dSafe, dFinalized, ckpts, declared>>
  BY DEF StartFresh, vars, chainVars, diskVars, dbVars
<1>2. blocks = {Genesis} /\ head = Genesis  BY <1>1 DEF StoreInv, DownIsEmpty
<1>3. StoreTypeOK'  BY <1>1 DEF StoreInv, StoreTypeOK, TypeOK
<1>4. MemoryIsATree'  BY <1>1 DEF StoreInv, MemoryIsATree, IsBase, IsChain
<1>5. todo' \in Adopting  BY <1>1 DEF Adopting
<1>6. TodoOK' /\ DownIsEmpty' /\ Behind'
  BY <1>1, <1>2, <1>5 DEF TodoOK, DownIsEmpty, Behind
<1>7. NoWriteFails' => StoredAsWritten'
  BY <1>1, <1>2, <1>6 DEF StoreInv, NoWriteFails, StoredAsWritten, IsChain
<1>8. Head(todo').block = Genesis
  <2> DEFINE a == W("PutBlock", Genesis)  b == W("SetCanonical", Genesis)  c == W("CheckpointGenesis", Genesis)
  <2>1. todo' = <<a, b, c>>  BY <1>1
  <2>2. a.block = Genesis  BY DEF W
  <2> HIDE DEF a, b, c
  <2> QED  BY <2>1, <2>2, FrontAndRest
<1>9. ExtendsInStep' => StoredInStep'
  <2>1. SUFFICES ASSUME ExtendsInStep PROVE StoredInStep'  BY DEF ExtendsInStep
  <2>2. StoredInStep /\ dBlocks \subseteq Blocks  BY <2>1 DEF StoreInv, StoreTypeOK
  <2>3. \A d \in dBlocks : Comparable(d, Genesis)
    BY <2>2, GenesisOnChain DEF Comparable
  <2>4. mode' = "up" /\ dHead' # None => OnChainOf(dHead', head')  BY <1>1
  <2>5. \A d \in dBlocks' \ blocks', b \in blocks' : Comparable(d, b)  BY <2>3, <1>1, <1>2
  <2>6. Subject' = Genesis  BY <1>8 DEF Subject
  <2> QED  BY <2>2, <2>3, <2>4, <2>5, <2>6, <1>1 DEF StoredInStep
<1> QED  BY <1>3, <1>4, <1>6, <1>7, <1>9 DEF StoreInv

\* A restart that fails changes nothing.
LEMMA RestoreFailsPreserves ==
    ASSUME StoreInv, RestoreFails, UNCHANGED faults
    PROVE  StoreInv'
<1>1. /\ mode = "down" /\ mode' = "failed" /\ todo' = todo
      /\ UNCHANGED <<blocks, canonical, machines, pending, head, safe, finalized, highest>>
      /\ UNCHANGED <<dBlocks, dCanonical, dHead, dSafe, dFinalized, ckpts, declared>>
  BY DEF RestoreFails, vars, chainVars, diskVars, dbVars
<1>2. StoreTypeOK' /\ MemoryIsATree'
  <2>1. StoreTypeOK'  BY <1>1 DEF StoreInv, StoreTypeOK, TypeOK
  <2>2. MemoryIsATree'  BY <1>1 DEF StoreInv, MemoryIsATree, IsBase, IsChain
  <2> QED  BY <2>1, <2>2
<1>3. TodoOK' /\ DownIsEmpty'
  BY <1>1 DEF StoreInv, TodoOK, DownIsEmpty
<1>4. NoWriteFails' => StoredAsWritten'
  BY <1>1 DEF StoreInv, NoWriteFails, StoredAsWritten, IsChain
<1>5. ExtendsInStep' => StoredInStep'
  BY <1>1 DEF StoreInv, ExtendsInStep, StoredInStep, Subject
<1> QED  BY <1>2, <1>3, <1>4, <1>5 DEF StoreInv

\* The blocks Restore serves are the stored head's ancestors from the
\* checkpoint up: by the mapping while no write fails, and because all stored
\* blocks are of one line while op-node is in step.
LEMMA ServedAreAncestors ==
    ASSUME StoreInv, Tame, dHead # None, NEW c \in Latest(Number(dHead)), RestoreOk(c)
    PROVE  /\ dHead \in dBlocks /\ dHead \in Blocks /\ c \in ckpts /\ c.full
           /\ Number(c.block) \in 0 .. Number(dHead) /\ Number(dHead) \in Nat
           /\ c.block = dCanonical[Number(c.block)]
           /\ \A n \in Number(c.block) .. Number(dHead) :
                 dCanonical[n] = Anc(dHead, n) /\ dCanonical[n] \in dBlocks /\ Number(dCanonical[n]) = n
<1> DEFINE lo == Number(c.block)  hi == Number(dHead)  base == dCanonical[lo]
<1>1. c \in ckpts /\ lo <= hi  BY DEF Latest
<1>2. /\ dHead \in dBlocks /\ base \in dBlocks /\ c.full /\ c.block = base
      /\ \A n \in Number(base) + 1 .. hi : dCanonical[n] \in dBlocks
  BY DEF RestoreOk
<1>3. dHead \in Blocks /\ dBlocks \subseteq Blocks /\ hi \in Nat
  BY <1>2, NumbersAreNat DEF StoreInv, StoreTypeOK
<1>4. Number(base) = lo /\ lo \in Nat /\ base = dCanonical[lo]  BY <1>2, <1>3, NumbersAreNat
<1>a. IsChain(dCanonical, Genesis, dHead) => \A n \in Heights : n \in 0 .. hi => dCanonical[n] = Anc(dHead, n)
  BY <1>3, GenesisOnChain DEF IsChain
<1>b. \A b \in Blocks : Comparable(b, dHead) /\ Number(b) <= hi => OnChainOf(b, dHead)
  BY <1>3, LowerOnChain
<1>c. 0 .. hi \subseteq Heights  BY <1>3, HeightsBelow
<1>d. \A n \in 0 .. hi : Len(Anc(dHead, n)) = n /\ Anc(dHead, n) \in Blocks
  BY <1>3, AncIsBlock DEF Number
<1> HIDE DEF lo, hi, base
<1>5. ASSUME NEW n \in lo .. hi
      PROVE  dCanonical[n] = Anc(dHead, n) /\ dCanonical[n] \in dBlocks /\ Number(dCanonical[n]) = n
  <2>1. dCanonical[n] \in dBlocks
    <3>1. n = lo \/ n \in lo + 1 .. hi  BY <1>3, <1>4
    <3>2. \A k \in lo + 1 .. hi : dCanonical[k] \in dBlocks  BY <1>2, <1>4
    <3> QED  BY <3>1, <3>2, <1>2, <1>4
  <2>2. n \in 0 .. hi /\ n \in Heights  BY <1>3, <1>4, <1>c
  <2>4. CASE NoWriteFails
    <3>1. IsChain(dCanonical, Genesis, dHead)  BY <2>4 DEF StoreInv, StoredAsWritten
    <3>2. dCanonical[n] = Anc(dHead, n)  BY <3>1, <2>2, <1>a
    <3> QED  BY <3>2, <2>1, <2>2, <1>d DEF Number
  <2>5. CASE ExtendsInStep
    <3>1. StoredInStep  BY <2>5 DEF StoreInv
    <3>2. dCanonical[n] # None /\ dCanonical[n] \in Blocks  BY <2>1, <1>3, ChainAssumption
    <3>3. Number(dCanonical[n]) = n  BY <3>1, <3>2, <2>2 DEF StoredInStep
    <3>4. Comparable(dCanonical[n], dHead)  BY <3>1, <2>1, <1>2 DEF StoredInStep
    <3>5. OnChainOf(dCanonical[n], dHead)  BY <3>2, <3>3, <3>4, <2>2, <1>3, <1>b
    <3> QED  BY <3>3, <3>5, <2>1 DEF OnChainOf, Number
  <2> QED  BY <2>4, <2>5 DEF Tame
<1>6. lo \in 0 .. hi  BY <1>1, <1>3, <1>4
<1> QED  BY <1>1, <1>2, <1>3, <1>4, <1>5, <1>6 DEF lo, hi

\* Restore: memory is again a tree, from the checkpoint to the stored head.
LEMMA RestorePreserves ==
    ASSUME StoreInv, Tame, dHead # None, NEW c \in Latest(Number(dHead)), Restore(c), UNCHANGED faults
    PROVE  StoreInv'
<1> DEFINE lo == Number(c.block)  hi == Number(dHead)  base == dCanonical[lo]
           served == {dCanonical[n] : n \in lo .. hi}
<1>1. /\ mode = "down" /\ RestoreOk(c) /\ mode' = "up"
      /\ blocks' = served
      /\ canonical' = [n \in Heights |-> IF n \in lo .. hi THEN dCanonical[n] ELSE None]
      /\ head' = dCanonical[hi]
      /\ safe' = IF dSafe \in served THEN dSafe ELSE base
      /\ finalized' = IF dFinalized \in served THEN dFinalized ELSE base
      /\ machines' = [b \in Retained(served, head', safe', finalized') |-> Claimed[b]]
      /\ pending' = {} /\ highest' = hi /\ todo' = todo
      /\ UNCHANGED <<dBlocks, dCanonical, dHead, dSafe, dFinalized, ckpts, declared>>
  BY DEF Restore, diskVars, dbVars
<1>2. /\ dHead \in dBlocks /\ dHead \in Blocks /\ lo \in 0 .. hi /\ hi \in Nat
      /\ \A n \in lo .. hi :
            dCanonical[n] = Anc(dHead, n) /\ dCanonical[n] \in dBlocks /\ Number(dCanonical[n]) = n
  BY <1>1, ServedAreAncestors
<1>3. todo' = << >> /\ ~Behind'
  BY <1>1, QuietLists DEF StoreInv, DownIsEmpty, Behind
<1>a. hi = Len(dHead) /\ \A k \in 0 .. hi : \A n \in 0 .. k : Anc(Anc(dHead, k), n) = Anc(dHead, n)
  BY <1>2, AncThrough DEF Number
<1> HIDE DEF lo, hi
<1>4. dBlocks \subseteq Blocks  BY DEF StoreInv, StoreTypeOK
<1>5. served \subseteq dBlocks /\ served \subseteq Blocks  BY <1>2, <1>4
<1>6. lo \in lo .. hi /\ hi \in lo .. hi  BY <1>2
<1>7. base \in served /\ Number(base) = lo /\ base = Anc(dHead, lo)  BY <1>2, <1>6
<1>8. head' = dHead /\ dHead \in served
  <2>1. Anc(dHead, hi) = dHead  BY <1>2, <1>a, AncSelf
  <2> QED  BY <2>1, <1>1, <1>2, <1>6
<1>9. TypeOK'
  <2>1. safe' \in Blocks /\ finalized' \in Blocks  BY <1>1, <1>5, <1>7
  <2>2. \A n \in Heights : canonical'[n] \in Hashes
    BY <1>1, <1>2, <1>4 DEF Hashes
  <2>3. canonical' \in [Heights -> Hashes]  BY <1>1, <2>2
  <2>4. Snapshots' \subseteq blocks' /\ machines' \in [Snapshots' -> Seq(Payload)]
    <3>1. Retained(served, head', safe', finalized') \subseteq served  BY DEF Retained
    <3>2. \A b \in served : Claimed[b] \in Seq(Payload)  BY <1>5, ChainAssumption
    <3> HIDE DEF served
    <3> QED  BY <1>1, <3>1, <3>2
  <2> QED  BY <2>1, <2>3, <2>4, <1>1, <1>2, <1>5, <1>8 DEF TypeOK
<1>10. StoreTypeOK'  BY <1>1, <1>9 DEF StoreInv, StoreTypeOK
<1>11. MemoryIsATree'
  <2>1. ASSUME NEW b \in served
        PROVE  /\ OnChainOf(base, b)
               /\ \A n \in Number(base) .. Number(b) : Anc(b, n) \in served
    <3>1. PICK k \in lo .. hi : b = dCanonical[k]  OBVIOUS
    <3> HIDE DEF base
    <3>a. k \in 0 .. hi /\ lo \in 0 .. k /\ k \in Nat /\ hi \in Nat /\ lo \in Nat  BY <1>2
    <3>2. b = Anc(dHead, k) /\ Number(b) = k /\ b \in dBlocks  BY <3>1, <1>2
    <3>3. \A n \in 0 .. k : Anc(b, n) = Anc(dHead, n)  BY <3>2, <3>a, <1>a
    <3>4. Anc(b, lo) = base  BY <3>3, <3>a, <1>7
    <3>5. OnChainOf(base, b)  BY <3>2, <3>4, <3>a, <1>7 DEF OnChainOf, Number
    <3>6. ASSUME NEW n \in Number(base) .. Number(b)  PROVE Anc(b, n) \in served
      <4>0. n \in lo .. k  BY <3>2, <1>7
      <4>1. n \in lo .. hi /\ n \in 0 .. k  BY <4>0, <3>a
      <4>2. Anc(b, n) = dCanonical[n]  BY <4>1, <3>3, <1>2
      <4> QED  BY <4>1, <4>2
    <3> QED  BY <3>5, <3>6
  <2>2. IsChain(canonical', base, dHead)
    BY <1>1, <1>2, <1>7 DEF IsChain, hi
  <2>3. IsBase(base)'
    BY <2>1, <2>2, <1>1, <1>7, <1>8 DEF IsBase, IsChain
  <2> QED  BY <2>3, <1>1, <1>7 DEF MemoryIsATree
<1>12. TodoOK' /\ DownIsEmpty'  BY <1>1, <1>3 DEF TodoOK, DownIsEmpty
<1>13. NoWriteFails' => StoredAsWritten'
  BY <1>1, <1>8 DEF StoreInv, NoWriteFails, StoredAsWritten, IsChain
<1>14. ExtendsInStep' => StoredInStep'
  <2>1. SUFFICES ASSUME ExtendsInStep PROVE StoredInStep'  BY DEF ExtendsInStep
  <2>2. StoredInStep  BY <2>1 DEF StoreInv
  <2>3. \A d \in dBlocks, e \in served : Comparable(d, e)  BY <2>2, <1>5 DEF StoredInStep
  <2>4. OnChainOf(dHead, dHead)  BY <1>2, GenesisOnChain
  <2> QED  BY <2>2, <2>3, <2>4, <1>1, <1>3, <1>8 DEF StoredInStep
<1> QED  BY <1>10, <1>11, <1>12, <1>13, <1>14 DEF StoreInv

\* The first start finds nothing on disk.
LEMMA InitStoreInv == StoreInit => StoreInv
<1> SUFFICES ASSUME StoreInit PROVE StoreInv  OBVIOUS
<1> USE DEF StoreInit
<1>1. TypeOK  BY InitIInv DEF IInv
<1>2. \A n \in Heights : dCanonical[n] = None  OBVIOUS
<1>3. dCanonical \in [Heights -> Hashes]  BY <1>2 DEF Hashes
<1>4. StoreTypeOK  BY <1>1, <1>3, ChainAssumption DEF StoreTypeOK, Hashes
<1>5. MemoryIsATree
  <2>1. /\ Genesis \in Blocks /\ Number(Genesis) = 0 /\ OnChainOf(Genesis, Genesis)
        /\ Anc(Genesis, 0) = Genesis
    BY ChainAssumption, GenesisOnChain, AncSelf DEF Number
  <2>2. \A n : n \in 0 .. 0 <=> n = 0  OBVIOUS
  <2>3. IsChain(canonical, Genesis, Genesis)  BY <2>1, <2>2 DEF IsChain, Init
  <2>4. IsBase(Genesis)  BY <2>1, <2>2, <2>3 DEF IsBase, Init
  <2> QED  BY <2>4 DEF MemoryIsATree, Init
<1>6. TodoOK /\ DownIsEmpty  BY DEF TodoOK, DownIsEmpty, Init
<1>7. StoredAsWritten  BY <1>2 DEF StoredAsWritten
<1>8. StoredInStep  BY <1>2 DEF StoredInStep
<1> QED  BY <1>4, <1>5, <1>6, <1>7, <1>8 DEF StoreInv

\* Stuttering.
LEMMA StoreStutterPreserves == StoreInv /\ UNCHANGED storeVars => StoreInv'
<1> SUFFICES ASSUME StoreInv, UNCHANGED storeVars PROVE StoreInv'  OBVIOUS
<1>1. /\ UNCHANGED <<blocks, canonical, machines, pending, head, safe, finalized, highest>>
      /\ UNCHANGED <<dBlocks, dCanonical, dHead, dSafe, dFinalized, ckpts, declared, mode, todo, faults>>
  BY DEF storeVars, vars, chainVars, diskVars, dbVars
<1>2. StoreTypeOK' /\ MemoryIsATree'
  <2>1. StoreTypeOK'  BY <1>1 DEF StoreInv, StoreTypeOK, TypeOK
  <2>2. MemoryIsATree'  BY <1>1 DEF StoreInv, MemoryIsATree, IsBase, IsChain
  <2> QED  BY <2>1, <2>2
<1>3. TodoOK' /\ DownIsEmpty' /\ (Behind' <=> Behind)
  BY <1>1 DEF StoreInv, TodoOK, DownIsEmpty, Behind
<1>4. NoWriteFails' => StoredAsWritten'
  BY <1>1, <1>3 DEF StoreInv, NoWriteFails, StoredAsWritten, IsChain
<1>5. ExtendsInStep' => StoredInStep'
  BY <1>1 DEF StoreInv, ExtendsInStep, StoredInStep, Subject
<1> QED  BY <1>2, <1>3, <1>4, <1>5 DEF StoreInv

\* Every step of handlers, writes, crashes and restarts preserves it.
LEMMA NextStoreInv == StoreInv /\ Tame /\ [StoreNext]_storeVars => StoreInv'
<1> SUFFICES ASSUME StoreInv, Tame, StoreNext PROVE StoreInv'  BY StoreStutterPreserves
<1>1. StoreStep /\ (ExtendsInStep => InStep) /\ UNCHANGED faults
  BY DEF StoreNext, ExtendsInStep
<1>2. ASSUME NEW b \in Blocks, StoreImport(b)  PROVE StoreInv'
  BY <1>1, <1>2, StoreImportPreserves
<1>3. ASSUME NEW h \in blocks, NEW s \in Hashes, NEW f \in Hashes,
             StoreForkchoice(h, s, f) \/ StoreForkchoiceInvalid(h, s, f)
      PROVE  StoreInv'
  BY <1>1, <1>3, StoreForkchoicePreserves, StoreInvalidPreserves
<1>4. CASE StoreWrite
  BY <1>1, <1>4, PutBlockPreserves, SetCanonicalPreserves, SetHeadsPreserves, IfFinalizedPreserves,
     CheckpointPreserves, WriteFailsPreserves DEF StoreWrite
<1>5. CASE Crash  BY <1>1, <1>5, CrashPreserves
<1>6. CASE Close  BY <1>1, <1>6, ClosePreserves
<1>7. CASE StartFresh  BY <1>1, <1>7, StartFreshPreserves
<1>8. ASSUME dHead # None, NEW c \in Latest(Number(dHead)), Restore(c)  PROVE StoreInv'
  BY <1>1, <1>8, RestorePreserves
<1>9. CASE RestoreFails  BY <1>1, <1>9, RestoreFailsPreserves
<1> QED  BY <1>1, <1>2, <1>3, <1>4, <1>5, <1>6, <1>7, <1>8, <1>9 DEF StoreStep

-----------------------------------------------------------------------------
\* What may go wrong in a behaviour is settled when it begins.
LEMMA FaultsAreFixed == StoreSpec => [](faults \in FaultSets)
<1>1. StoreInit => faults \in FaultSets  BY DEF StoreInit
<1>2. faults \in FaultSets /\ [StoreNext]_storeVars => (faults \in FaultSets)'
  BY DEF StoreNext, storeVars
<1> QED  BY <1>1, <1>2, PTL DEF StoreSpec

\* The invariant holds whenever reorgs and failing writes do not meet.
LEMMA TameInvariant == StoreSpec => [](Tame => StoreInv)
<1>1. StoreInit => (Tame => StoreInv)  BY InitStoreInv
<1>2. (Tame => StoreInv) /\ [StoreNext]_storeVars => (Tame => StoreInv)'
  <2>1. [StoreNext]_storeVars => (Tame' <=> Tame)
    BY DEF StoreNext, storeVars, Tame, NoWriteFails, ExtendsInStep
  <2> QED  BY <2>1, NextStoreInv
<1> QED  BY <1>1, <1>2, PTL DEF StoreSpec

\* Wherever the process dies, and whatever reorgs came before, the stored head's
\* whole ancestry is the stored canonical chain while no write has failed.
THEOREM HeadAncestryDurable == StoreSpec => []HeadAncestryIsDurable
<1>1. (Tame => StoreInv) => HeadAncestryIsDurable
  <2>1. SUFFICES ASSUME Tame => StoreInv, dHead # None, NoWriteFails, NEW n \in Heights
                 PROVE  dCanonical[n] = IF n <= Number(dHead) THEN Anc(dHead, n) ELSE None
    BY DEF HeadAncestryIsDurable, NoWriteFails
  <2>2. StoreInv  BY <2>1 DEF Tame
  <2>3. IsChain(dCanonical, Genesis, dHead) /\ dHead \in Blocks
    BY <2>1, <2>2 DEF StoreInv, StoredAsWritten, StoreTypeOK, Hashes
  <2>4. Number(Genesis) = 0 /\ Number(dHead) \in Nat /\ n \in Nat
    BY <2>3, GenesisOnChain, NumbersAreNat, HeightsClosed
  <2> QED  BY <2>3, <2>4 DEF IsChain
<1> QED  BY <1>1, TameInvariant, PTL
\* Reorgs and failing writes do not meet in one behaviour.
FaultsApart == \A f \in FaultSets : ~({"reorg", "write error"} \subseteq f)

\* Where they do not, the invariant holds throughout.
LEMMA StoreInvariant == ASSUME FaultsApart PROVE StoreSpec => [](StoreInv /\ Tame)
<1>1. faults \in FaultSets => Tame  BY DEF FaultsApart, Tame, NoWriteFails, ExtendsInStep
<1> QED  BY <1>1, FaultsAreFixed, TameInvariant, PTL

\* Every restart that succeeds serves exactly the stored head and its
\* ancestors, from a complete checkpoint, with a machine for every block of the
\* window.
THEOREM RestoreServes == ASSUME FaultsApart PROVE StoreSpec => RestoreServesStoredChain
<1> DEFINE Serves ==
         mode = "down" /\ mode' = "up" /\ dHead # None =>
         /\ head' = dHead
         /\ \A b \in blocks' : OnChainOf(b, dHead) /\ b \in dBlocks
         /\ \A b \in blocks' : Number(b) + MaxSnapshots >= Number(dHead) => b \in Snapshots'
         /\ \E c \in Latest(Number(dHead)) :
               /\ c.full /\ c.block \in blocks'
               /\ \A b \in blocks' : Number(c.block) <= Number(b)
<1>1. StoreInv /\ Tame /\ [StoreNext]_storeVars => [Serves]_storeVars
  <2>1. SUFFICES ASSUME StoreInv, Tame, StoreNext, mode = "down", mode' = "up", dHead # None
                 PROVE  Serves
    OBVIOUS
  <2>2. PICK c \in Latest(Number(dHead)) : Restore(c)
    BY <2>1 DEF StoreNext, StoreStep, StoreImport, StoreForkchoice, StoreForkchoiceInvalid, Idle,
       StoreWrite, PutBlock, SetCanonical, SetHeads, CheckpointIfFinalized, TakeCheckpoint,
       FinishCheckpoint, WriteFails, Doing, Crash, Close, StartFresh, RestoreFails
  <2> DEFINE lo == Number(c.block)  hi == Number(dHead)
             served == {dCanonical[n] : n \in lo .. hi}
  <2>3. /\ RestoreOk(c) /\ blocks' = served /\ head' = dCanonical[hi]
        /\ Snapshots' = Retained(served, head', safe', finalized')
    BY <2>2 DEF Restore
  <2>4. /\ dHead \in dBlocks /\ dHead \in Blocks /\ c.full
        /\ lo \in 0 .. hi /\ hi \in Nat /\ c.block = dCanonical[lo]
        /\ \A n \in lo .. hi :
              dCanonical[n] = Anc(dHead, n) /\ dCanonical[n] \in dBlocks /\ Number(dCanonical[n]) = n
    BY <2>1, <2>3, ServedAreAncestors
  <2>a. Anc(dHead, hi) = dHead  BY <2>4, AncSelf DEF Number
  <2>b. Cutoff(dHead) = IF hi > MaxSnapshots THEN hi - MaxSnapshots ELSE 0  BY DEF Cutoff
  <2>c. \A n \in 0 .. hi : OnChainOf(Anc(dHead, n), dHead)  BY <2>4, AncOnChain
  <2>d. lo \in Nat /\ hi \in Nat /\ lo <= hi  BY <2>4
  <2> HIDE DEF lo, hi, served
  <2>e. \A n \in lo .. hi : dCanonical[n] = Anc(dHead, n) /\ dCanonical[n] \in dBlocks
                             /\ Number(dCanonical[n]) = n
    BY <2>4
  <2>5. head' = dHead
    <3>1. hi \in lo .. hi  BY <2>d
    <3> QED  BY <3>1, <2>3, <2>a, <2>e
  <2>6. ASSUME NEW b \in blocks'
        PROVE  /\ OnChainOf(b, dHead) /\ b \in dBlocks /\ lo <= Number(b)
               /\ Number(b) + MaxSnapshots >= hi => b \in Snapshots'
    <3>1. PICK n \in lo .. hi : b = dCanonical[n]  BY <2>3 DEF served
    <3>a. n \in 0 .. hi /\ lo <= n  BY <2>d
    <3>2. b = Anc(dHead, n) /\ b \in dBlocks /\ Number(b) = n  BY <3>1, <2>e
    <3>3. OnChainOf(b, dHead)  BY <3>2, <3>a, <2>c
    <3>4. ASSUME Number(b) + MaxSnapshots >= hi  PROVE Number(b) >= Cutoff(head')
      <4>1. MaxSnapshots \in Nat  BY ChainAssumption
      <4>2. n + MaxSnapshots >= hi  BY <3>2, <3>4
      <4>3. n >= Cutoff(dHead)  BY <4>1, <4>2, <3>a, <2>b, <2>d
      <4> QED  BY <3>2, <4>3, <2>5
    <3>5. lo <= Number(b)  BY <3>2, <3>a
    <3>6. b \in served  BY <2>3
    <3>7. Number(b) + MaxSnapshots >= hi => b \in Snapshots'  BY <3>4, <3>6, <2>3 DEF Retained
    <3> QED  BY <3>2, <3>3, <3>5, <3>7
  <2>7. c.block \in blocks'
    <3>1. lo \in lo .. hi  BY <2>d
    <3> QED  BY <3>1, <2>3, <2>4 DEF served
  <2> QED  BY <2>2, <2>4, <2>5, <2>6, <2>7 DEF lo, hi
<1> QED  BY <1>1, StoreInvariant, PTL DEF StoreSpec, RestoreServesStoredChain

\* A block the store answers for, because it is below what memory holds, is an
\* ancestor of every block in memory at its height or above.
LEMMA StoredIsBelow ==
    ASSUME StoreInv, Tame, Idle, NEW f \in StoredCanonical, f \notin blocks, NEW h \in blocks,
           ExtendsInStep => OnChainOf(head, h)
    PROVE  OnChainOf(f, h)
<1>1. mode = "up" /\ ~Behind  BY QuietLists DEF Idle, Behind
<1>2. f \in dBlocks /\ dCanonical[Number(f)] = f  BY DEF StoredCanonical
<1>3. /\ f \in Blocks /\ h \in Blocks /\ head \in blocks /\ head \in Blocks /\ f # None
      /\ Number(f) \in Nat /\ Number(h) \in Nat /\ Number(head) \in Nat
  BY <1>2, NumbersAreNat, ChainAssumption DEF StoreInv, StoreTypeOK, TypeOK
<1>4. Number(f) \in Heights  BY <1>3, HeightsClosed DEF Number
<1>5. CASE NoWriteFails
  <2>1. StoredAsWritten  BY <1>5 DEF StoreInv
  <2>2. dHead = head /\ dHead # None
    BY <2>1, <1>1, <1>3, ChainAssumption DEF StoredAsWritten
  <2>3. IsChain(dCanonical, Genesis, head)  BY <2>1, <2>2 DEF StoredAsWritten
  <2>4. Number(f) \in 0 .. Number(head) /\ f = Anc(head, Number(f))
    BY <2>3, <1>2, <1>3, <1>4, GenesisOnChain DEF IsChain
  <2>5. PICK base \in blocks : IsBase(base)  BY DEF StoreInv, MemoryIsATree
  <2>6. base \in Blocks /\ Number(base) \in Nat
    BY NumbersAreNat DEF StoreInv, StoreTypeOK, TypeOK
  <2>7. ~(Number(f) \in Number(base) .. Number(head))  BY <2>4, <2>5, <1>3 DEF IsBase
  <2>8. Number(f) \in 0 .. Number(base)  BY <2>4, <2>6, <2>7, <1>3
  <2>9. OnChainOf(base, head) /\ OnChainOf(base, h)  BY <2>5, <1>3 DEF IsBase
  <2>10. Anc(h, Number(f)) = Anc(base, Number(f)) /\ Anc(head, Number(f)) = Anc(base, Number(f))
    BY <2>6, <2>8, <2>9, <1>3, SharesAncestors
  <2>11. Number(f) <= Number(h)  BY <2>6, <2>8, <2>9, <1>3 DEF OnChainOf, Number
  <2> QED  BY <2>4, <2>10, <2>11 DEF OnChainOf, Number
<1>6. CASE ExtendsInStep
  <2>1. StoredInStep  BY <1>6 DEF StoreInv
  <2>2. dHead # None /\ Number(f) <= Number(dHead)
    BY <2>1, <1>2, <1>3, <1>4 DEF StoredInStep
  <2>3. OnChainOf(dHead, head) /\ OnChainOf(head, h)
    BY <2>1, <2>2, <1>1, <1>6 DEF StoredInStep
  <2>4. Number(dHead) \in Nat
    BY <2>2, NumbersAreNat DEF StoreInv, StoreTypeOK, Hashes
  <2>5. Number(f) <= Number(h)  BY <2>2, <2>3, <2>4, <1>3 DEF OnChainOf, Number
  <2>6. Comparable(f, h)  BY <2>1, <1>1, <1>2 DEF StoredInStep
  <2> QED  BY <2>5, <2>6, <1>3, LowerOnChain
<1> QED  BY <1>5, <1>6 DEF Tame

\* The finalized pointer only ever moves to an ancestor of the head it is given
\* with, also when the block lies below the restored base.
THEOREM FinalizedOnChain == ASSUME FaultsApart PROVE StoreSpec => FinalizedIsAncestor
<1> DEFINE Lands == mode = "up" /\ mode' = "up" /\ finalized' # finalized => OnChainOf(finalized', head')
<1>1. StoreInv /\ Tame /\ [StoreNext]_storeVars => [Lands]_storeVars
  <2>1. SUFFICES ASSUME StoreInv, Tame, StoreNext, mode = "up", mode' = "up", finalized' # finalized
                 PROVE  OnChainOf(finalized', head')
    OBVIOUS
  <2>2. PICK h \in blocks, s \in Hashes, f \in Hashes : StoreForkchoice(h, s, f)
    BY <2>1 DEF StoreNext, StoreStep, StoreImport, ImportReplay, Commit,
       StoreForkchoiceInvalid, ForkchoiceInvalid,
       StoreWrite, PutBlock, SetCanonical, SetHeads, CheckpointIfFinalized, TakeCheckpoint,
       FinishCheckpoint, WriteFails, vars, chainVars, Crash, Close, StartFresh, Restore, RestoreFails
  <2>3. /\ Idle /\ Acceptable(ReorgTo(h), f, StoredCanonical)
        /\ head' = h /\ finalized' = Moved(finalized, f)
    BY <2>2 DEF StoreForkchoice, ForkchoiceOnly, ForkchoiceAccepted
  <2>4. finalized' = f /\ f # None /\ f \in Blocks /\ IsCanonical(ReorgTo(h), f, StoredCanonical)
    BY <2>1, <2>3 DEF Moved, Acceptable, Hashes
  <2>5. CASE f \in blocks
    <3>1. PICK base \in blocks : IsBase(base)  BY <2>1 DEF StoreInv, MemoryIsATree
    <3>2. IsChain(ReorgTo(h), base, h)  BY <2>1, <3>1, ReorgIsChain DEF StoreInv, StoreTypeOK
    <3>3. ReorgTo(h)[Number(f)] = f  BY <2>4, <2>5 DEF IsCanonical
    <3>4. Number(f) \in Heights  BY <2>4, HeightsClosed DEF Number
    <3>5. Number(f) \in Number(base) .. Number(h) /\ f = Anc(h, Number(f))
      BY <2>4, <3>2, <3>3, <3>4 DEF IsChain
    <3>6. Number(h) \in Nat /\ Number(f) \in Nat /\ Number(base) \in Nat
      BY <2>1, <2>4, NumbersAreNat DEF StoreInv, StoreTypeOK, TypeOK
    <3> QED  BY <2>3, <2>4, <3>5, <3>6 DEF OnChainOf, Number
  <2>6. CASE f \notin blocks
    <3>1. f \in StoredCanonical  BY <2>4, <2>6 DEF IsCanonical
    <3>2. ExtendsInStep => OnChainOf(head, h)
      BY <2>1, <2>3 DEF StoreNext, InStep, ExtendsInStep
    <3> QED  BY <2>1, <2>3, <2>4, <2>6, <3>1, <3>2, StoredIsBelow
  <2> QED  BY <2>5, <2>6
<1> QED  BY <1>1, StoreInvariant, PTL DEF StoreSpec, FinalizedIsAncestor
=============================================================================
