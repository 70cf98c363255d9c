----------------------------- MODULE ChainProofs -----------------------------
(***************************************************************************)
(* Safety of Chain for every set of blocks, attributes and every retention *)
(* window.  Apart from its type, the only strengthening the invariants     *)
(* need is that the block tree in memory is closed under parents: New puts *)
(* genesis in it and ImportPayload asks for the parent first.              *)
(***************************************************************************)
EXTENDS Chain, TLAPS

ParentsKnown == \A b \in blocks : b # Genesis => Parent(b) \in blocks

USE ChainAssumption

\* The ancestor of block h at height n is a block of that height.
LEMMA AncIsBlock ==
    ASSUME NEW h \in Blocks, NEW n \in 0 .. Len(h)
    PROVE  Anc(h, n) \in Blocks /\ Len(Anc(h, n)) = n
<1>1. h \in Seq(Payload)  OBVIOUS
<1>2. Anc(h, n) \in Blocks  OBVIOUS
<1>3. Len(SubSeq(h, 1, n)) = n  BY <1>1
<1> QED  BY <1>2, <1>3 DEF Anc

\* The parent of the ancestor at height n is the ancestor at height n - 1.
LEMMA AncOfAnc ==
    ASSUME NEW h \in Blocks, NEW n \in 1 .. Len(h)
    PROVE  Parent(Anc(h, n)) = Anc(h, n - 1)
<1>1. h \in Seq(Payload)  OBVIOUS
<1>2. Len(SubSeq(h, 1, n)) = n  BY <1>1
<1>3. SubSeq(SubSeq(h, 1, n), 1, n - 1) = SubSeq(h, 1, n - 1)  BY <1>1
<1> QED  BY <1>2, <1>3 DEF Parent, Anc

\* A block is its own ancestor at its own height.
LEMMA AncSelf ==
    ASSUME NEW h \in Blocks
    PROVE  Anc(h, Len(h)) = h
<1>1. h \in Seq(Payload)  OBVIOUS
<1> QED  BY <1>1 DEF Anc

\* Heights are natural numbers and closed downwards.
LEMMA HeightsClosed ==
    /\ Heights \subseteq Nat
    /\ \A n \in Heights : n > 0 => n - 1 \in Heights
    /\ \A b \in Blocks : Len(b) \in Heights /\ (Len(b) = 0 <=> b = Genesis)
<1>1. \A b \in Blocks : b \in Seq(Payload)  OBVIOUS
<1>2. Heights \subseteq Nat  BY <1>1 DEF Heights, Number
<1>3. ASSUME NEW n \in Heights, n > 0  PROVE n - 1 \in Heights
  <2>1. PICK b \in Blocks : n = Len(b)  BY DEF Heights, Number
  <2>2. Len(b) \in Nat  BY <1>1
  <2>3. n - 1 \in 0 .. Len(b)  BY <2>1, <2>2, <1>3
  <2>4. Anc(b, n - 1) \in Blocks /\ Len(Anc(b, n - 1)) = n - 1  BY <2>3, AncIsBlock
  <2> QED  BY <2>4 DEF Heights, Number
<1>4. \A b \in Blocks : Len(b) \in Heights  BY DEF Heights, Number
<1>5. \A b \in Blocks : Len(b) = 0 <=> b = Genesis  BY <1>1 DEF Genesis
<1> QED  BY <1>2, <1>3, <1>4, <1>5

-----------------------------------------------------------------------------
\* reorgTo keeps the mapping one chain: where its walk stops, because a number
\* already agrees, everything below agrees too.
LEMMA ReorgKeepsOneChain ==
    ASSUME TypeOK, CanonicalIsOneChain, ParentsKnown, NEW h \in blocks
    PROVE  /\ ReorgTo(h) \in [Heights -> Hashes]
           /\ \A n \in Heights : ReorgTo(h)[n] # None =>
                /\ ReorgTo(h)[n] \in blocks
                /\ Number(ReorgTo(h)[n]) = n
                /\ n > 0 => \/ ReorgTo(h)[n - 1] = Parent(ReorgTo(h)[n])
                            \/ Parent(ReorgTo(h)[n]) \notin blocks
<1> DEFINE c == ReorgTo(h)
<1>1. h \in Blocks /\ Len(h) \in Nat  BY HeightsClosed DEF TypeOK
<1>2. \A n \in Heights : c[n] = IF n > Len(h) THEN None
                                ELSE IF Rewrites(canonical, h, n) THEN Anc(h, n) ELSE canonical[n]
  BY DEF ReorgTo, Number
<1>3. \A n \in Heights : n <= Len(h) => Anc(h, n) \in Blocks /\ Len(Anc(h, n)) = n
  BY <1>1, AncIsBlock, HeightsClosed
<1>4. \A n \in Heights : n <= Len(h) /\ Rewrites(canonical, h, n) => Anc(h, n) \in blocks
  BY <1>1, HeightsClosed DEF Rewrites, Number
<1>5. c \in [Heights -> Hashes]
  <2>1. \A n \in Heights : canonical[n] \in Hashes  BY DEF TypeOK
  <2>2. ASSUME NEW n \in Heights  PROVE c[n] \in Hashes
    <3>1. n \in Nat  BY HeightsClosed
    <3>2. CASE n > Len(h)  BY <3>2, <1>2 DEF Hashes
    <3>3. CASE ~(n > Len(h)) /\ Rewrites(canonical, h, n)
      BY <3>1, <3>3, <1>1, <1>2, <1>3 DEF Hashes
    <3>4. CASE ~(n > Len(h)) /\ ~Rewrites(canonical, h, n)
      BY <3>4, <1>2, <2>1
    <3> QED  BY <3>2, <3>3, <3>4
  <2>3. c = [n \in Heights |-> c[n]]  BY DEF ReorgTo
  <2> QED  BY <2>2, <2>3
<1>6. ASSUME NEW n \in Heights, c[n] # None
      PROVE  /\ c[n] \in blocks
             /\ Number(c[n]) = n
             /\ n > 0 => c[n - 1] = Parent(c[n]) \/ Parent(c[n]) \notin blocks
  <2>0. n \in Nat /\ n <= Len(h)  BY <1>1, <1>2, <1>6, HeightsClosed
  <2>1. CASE Rewrites(canonical, h, n)
    <3>1. c[n] = Anc(h, n)  BY <1>1, <1>2, <2>0, <2>1
    <3>2. c[n] \in blocks /\ Number(c[n]) = n  BY <3>1, <2>0, <2>1, <1>3, <1>4 DEF Number
    <3>3. ASSUME n > 0, Parent(c[n]) \in blocks  PROVE c[n - 1] = Parent(c[n])
      <4>1. n - 1 \in Heights /\ n \in 1 .. Len(h)  BY <3>3, <2>0, <1>1, HeightsClosed
      <4>2. Parent(c[n]) = Anc(h, n - 1)  BY <3>1, <4>1, <1>1, AncOfAnc
      <4>3. CASE canonical[n - 1] = Anc(h, n - 1)
        <5>1. ~Rewrites(canonical, h, n - 1)  BY <4>1, <4>3, <1>1 DEF Rewrites, Number
        <5> QED  BY <5>1, <4>1, <4>2, <4>3, <1>1, <1>2
      <4>4. CASE canonical[n - 1] # Anc(h, n - 1)
        <5>1. Anc(h, n - 1) \in blocks  BY <4>2, <3>3
        <5>2. \A k \in n - 1 .. Len(h) : k = n - 1 \/ k \in n .. Len(h)  BY <2>0, <1>1
        <5>3. Rewrites(canonical, h, n - 1)
          BY <5>1, <5>2, <4>4, <2>1 DEF Rewrites, Number
        <5> QED  BY <5>3, <4>1, <4>2, <1>1, <1>2
      <4> QED  BY <4>3, <4>4
    <3> QED  BY <3>2, <3>3
  <2>2. CASE ~Rewrites(canonical, h, n)
    <3>1. c[n] = canonical[n]  BY <1>1, <1>2, <2>0, <2>2
    <3>2. c[n] \in blocks /\ Number(c[n]) = n  BY <3>1, <1>6 DEF CanonicalIsOneChain
    <3>3. ASSUME n > 0  PROVE c[n - 1] = Parent(c[n]) \/ Parent(c[n]) \notin blocks
      <4>1. n - 1 \in Heights /\ n - 1 <= Len(h)  BY <3>3, <2>0, <1>1, HeightsClosed
      <4>2. ~Rewrites(canonical, h, n - 1)
        <5>1. n .. Len(h) \subseteq n - 1 .. Len(h)  BY <2>0, <1>1
        <5> QED  BY <5>1, <2>2 DEF Rewrites, Number
      <4>3. c[n - 1] = canonical[n - 1]  BY <4>1, <4>2, <1>1, <1>2, HeightsClosed
      <4> QED  BY <3>1, <3>3, <4>3, <1>6 DEF CanonicalIsOneChain
    <3> QED  BY <3>2, <3>3
  <2> QED  BY <2>1, <2>2
<1> QED  BY <1>5, <1>6

-----------------------------------------------------------------------------
(***************************************************************************)
(* The inductive invariant and its preservation, action by action.         *)
(***************************************************************************)
IInv == /\ TypeOK
        /\ ParentsKnown
        /\ CanonicalIsOneChain
        /\ WindowHasSnapshots
        /\ PendingIsAboveHead
        /\ MachinesMatchBlocks

\* New establishes the invariant: genesis is its own canonical chain.
LEMMA InitIInv == Init => IInv
<1> SUFFICES ASSUME Init PROVE IInv  OBVIOUS
<1> USE DEF Init, GenesisMachine
<1>1. TypeOK
  <2>1. \A n \in Heights : (IF n = 0 THEN Genesis ELSE None) \in Hashes  BY DEF Hashes
  <2>2. canonical \in [Heights -> Hashes]  BY <2>1
  <2>3. Snapshots = {Genesis} /\ machines \in [{Genesis} -> Seq(Payload)]  BY DEF Snapshots
  <2> QED  BY <2>2, <2>3 DEF TypeOK
<1>2. ParentsKnown  BY DEF ParentsKnown
<1>3. CanonicalIsOneChain
  BY HeightsClosed DEF CanonicalIsOneChain, Number
<1>4. WindowHasSnapshots  BY DEF WindowHasSnapshots, Snapshots
<1>5. PendingIsAboveHead  BY DEF PendingIsAboveHead
<1>6. MachinesMatchBlocks  BY DEF MachinesMatchBlocks, Snapshots, Genesis
<1> QED  BY <1>1, <1>2, <1>3, <1>4, <1>5, <1>6 DEF IInv

\* A block known to the chain has a natural number of ancestors.
LEMMA NumbersAreNat == \A b \in Blocks : Number(b) \in Nat
  BY HeightsClosed DEF Number

\* A refused forkchoice rewrites the mapping and may move safe, no more.
LEMMA InvalidPreserves ==
    ASSUME IInv, NEW h \in blocks, NEW s \in Hashes, NEW f \in Hashes,
           ForkchoiceInvalid(h, s, f, NoStore)
    PROVE  IInv'
<1>1. canonical' = ReorgTo(h)  BY DEF ForkchoiceInvalid
<1>2. UNCHANGED <<blocks, machines, Snapshots, pending, head, finalized, highest>>
  BY DEF ForkchoiceInvalid, Snapshots
<1>3. safe' \in Blocks
  BY DEF ForkchoiceInvalid, Moved, Hashes, IInv, TypeOK
<1>4. TypeOK'  BY <1>1, <1>2, <1>3, ReorgKeepsOneChain DEF IInv, TypeOK
<1>5. CanonicalIsOneChain'
  BY <1>1, <1>2, ReorgKeepsOneChain DEF IInv, CanonicalIsOneChain
<1> QED  BY <1>2, <1>4, <1>5 DEF IInv, ParentsKnown, WindowHasSnapshots,
                                 PendingIsAboveHead, MachinesMatchBlocks

\* prune keeps some of the snapshots, each with its machine.
LEMMA PruneKeepsTypes ==
    ASSUME TypeOK, NEW keep \in SUBSET Snapshots, machines' = [b \in keep |-> machines[b]]
    PROVE  /\ Snapshots' = keep /\ keep \subseteq blocks
           /\ machines' \in [Snapshots' -> Seq(Payload)]
           /\ \A b \in Snapshots' : machines'[b] = machines[b]
<1>1. Snapshots' = keep  BY DEF Snapshots
<1>2. Snapshots \subseteq blocks /\ \A b \in Snapshots : machines[b] \in Seq(Payload)
  BY DEF TypeOK
<1>3. machines' \in [keep -> Seq(Payload)]  BY <1>2
<1> QED  BY <1>1, <1>2, <1>3

\* An accepted forkchoice: prune keeps the whole window below the head it set.
LEMMA AcceptedPreserves ==
    ASSUME IInv, NEW h \in blocks, NEW s \in Hashes, NEW f \in Hashes,
           ForkchoiceAccepted(h, s, f, NoStore)
    PROVE  /\ ParentsKnown' /\ CanonicalIsOneChain' /\ WindowHasSnapshots'
           /\ Snapshots' \subseteq Snapshots
           /\ \A b \in Snapshots' : machines'[b] = machines[b]
           /\ (pending \subseteq PendingPayload)' => TypeOK'
<1>1. /\ canonical' = ReorgTo(h) /\ blocks' = blocks /\ head' = h
      /\ safe' = Moved(safe, s) /\ finalized' = Moved(finalized, f)
      /\ machines' = [b \in Retained(Snapshots, h, safe', finalized') |-> machines[b]]
      /\ highest' = IF Number(h) > highest THEN Number(h) ELSE highest
  BY DEF ForkchoiceAccepted
<1>2. h \in Blocks /\ Number(h) \in Nat /\ highest \in Nat
  BY NumbersAreNat DEF IInv, TypeOK
<1>3. safe' \in Blocks /\ finalized' \in Blocks
  BY <1>1 DEF Moved, Hashes, IInv, TypeOK
<1>4. /\ Snapshots' = Retained(Snapshots, h, safe', finalized')
      /\ Snapshots' \subseteq Snapshots /\ Snapshots' \subseteq blocks'
      /\ \A b \in Snapshots' : machines'[b] = machines[b]
      /\ machines' \in [Snapshots' -> Seq(Payload)]
  <2>1. Retained(Snapshots, h, safe', finalized') \subseteq Snapshots  BY DEF Retained
  <2> QED  BY <1>1, <2>1, PruneKeepsTypes DEF IInv
<1>5. CanonicalIsOneChain'
  BY <1>1, ReorgKeepsOneChain DEF IInv, CanonicalIsOneChain
<1>6. WindowHasSnapshots'
  <2>1. SUFFICES ASSUME NEW b \in blocks, Number(b) + MaxSnapshots >= highest'
                 PROVE  b \in Snapshots'
    BY <1>1 DEF WindowHasSnapshots
  <2>2. Number(b) \in Nat /\ MaxSnapshots \in Nat  BY NumbersAreNat DEF IInv, TypeOK
  <2>3. highest' >= Number(h) /\ highest' >= highest /\ highest' \in Nat  BY <1>1, <1>2
  <2>4. b \in Snapshots  BY <2>1, <2>2, <2>3, <1>2 DEF IInv, WindowHasSnapshots
  <2>5. Number(b) >= Cutoff(h)  BY <2>1, <2>2, <2>3, <1>2 DEF Cutoff
  <2> QED  BY <2>4, <2>5, <1>4 DEF Retained
<1>7. ParentsKnown'  BY <1>1 DEF ParentsKnown, IInv
<1>8. (pending \subseteq PendingPayload)' => TypeOK'
  BY <1>1, <1>2, <1>3, <1>4, ReorgKeepsOneChain DEF IInv, TypeOK
<1> QED  BY <1>4, <1>5, <1>6, <1>7, <1>8

\* What prune leaves of the pending payloads lies above the new head.
LEMMA PrunedPending ==
    ASSUME IInv, NEW h \in blocks
    PROVE  /\ StillBuildable(h) \subseteq pending
           /\ StillBuildable(h) \subseteq PendingPayload
           /\ \A p \in StillBuildable(h) : Number(p.block) > Number(h)
  BY DEF StillBuildable, IInv, TypeOK

\* A forkchoice without a build preserves the invariant.
LEMMA OnlyPreserves ==
    ASSUME IInv, NEW h \in blocks, NEW s \in Hashes, NEW f \in Hashes,
           ForkchoiceOnly(h, s, f, NoStore)
    PROVE  IInv'
<1>1. ForkchoiceAccepted(h, s, f, NoStore) /\ pending' = StillBuildable(h)
  BY DEF ForkchoiceOnly
<1>2. blocks' = blocks /\ head' = h  BY <1>1 DEF ForkchoiceAccepted
<1>3. PendingIsAboveHead'
  BY <1>1, <1>2, PrunedPending DEF IInv, PendingIsAboveHead
<1>4. MachinesMatchBlocks'
  BY <1>1, <1>2, PrunedPending, AcceptedPreserves DEF IInv, MachinesMatchBlocks
<1> QED  BY <1>1, <1>3, <1>4, AcceptedPreserves, PrunedPending DEF IInv

\* Executing a block's payload on a machine that has executed its parent's
\* ancestry is executing the block's.
LEMMA ExecutedOnParent ==
    ASSUME NEW b \in Blocks \ {Genesis}
    PROVE  Executed(Parent(b), b) = b
<1>1. b \in Seq(Payload) /\ b # << >>  BY DEF Genesis
<1>2. Append(SubSeq(b, 1, Len(b) - 1), b[Len(b)]) = b  BY <1>1
<1> QED  BY <1>2 DEF Executed, Parent, Anc

\* A build adds one payload, one above the head and under a fresh id.
LEMMA BuildPreserves ==
    ASSUME IInv, NEW h \in blocks, NEW s \in Hashes, NEW f \in Hashes,
           NEW a \in Attrs, NEW b \in Children(h),
           ForkchoiceBuild(h, s, f, a, b, NoStore)
    PROVE  IInv'
<1> DEFINE new == [attrs |-> a, block |-> b, machine |-> Executed(machines'[h], b)]
<1>1. /\ ForkchoiceAccepted(h, s, f, NoStore)
      /\ pending' = StillBuildable(h) \cup {new}
      /\ h \in Snapshots'
      /\ ~\E p \in StillBuildable(h) : p.attrs = a /\ Parent(p.block) = h
  BY DEF ForkchoiceBuild
<1>2. blocks' = blocks /\ head' = h  BY <1>1 DEF ForkchoiceAccepted
<1>3. b \in Blocks \ {Genesis} /\ Parent(b) = h  BY DEF Children
<1>4. Number(b) = Number(h) + 1 /\ Number(h) \in Nat
  <2>1. Len(b) \in Nat \ {0}  BY <1>3, HeightsClosed
  <2>2. Len(b) - 1 \in 0 .. Len(b)  BY <2>1
  <2>3. Len(Anc(b, Len(b) - 1)) = Len(b) - 1  BY <2>2, <1>3, AncIsBlock
  <2> QED  BY <2>1, <2>3, <1>3 DEF Parent, Number
<1>5. new.machine = b /\ Claimed[b] = b /\ new \in PendingPayload
  <2>1. machines'[h] = h  BY <1>1, AcceptedPreserves DEF IInv, MachinesMatchBlocks
  <2>2. new.machine = b /\ Claimed[b] = b
    BY <2>1, <1>3, ExecutedOnParent DEF ForkchoiceBuild
  <2>3. b \in Seq(Payload)  BY <1>3
  <2> QED  BY <2>2, <2>3, <1>3 DEF PendingPayload
<1>6. PendingIsAboveHead'
  <2>1. \A p \in pending' : Number(p.block) > Number(h)
    BY <1>1, <1>4, PrunedPending
  <2>2. \A p, q \in StillBuildable(h) :
            p.attrs = q.attrs /\ Parent(p.block) = Parent(q.block) => p = q
    BY PrunedPending DEF IInv, PendingIsAboveHead
  <2>3. \A p \in StillBuildable(h) : ~(p.attrs = new.attrs /\ Parent(p.block) = Parent(new.block))
    BY <1>1, <1>3
  <2>4. \A p, q \in pending' : p.attrs = q.attrs /\ Parent(p.block) = Parent(q.block) => p = q
    BY <2>2, <2>3, <1>1
  <2> QED  BY <2>1, <2>4, <1>2 DEF PendingIsAboveHead
<1>7. MachinesMatchBlocks'
  BY <1>1, <1>2, <1>5, PrunedPending, AcceptedPreserves DEF IInv, MachinesMatchBlocks
<1> QED  BY <1>1, <1>5, <1>6, <1>7, AcceptedPreserves, PrunedPending DEF IInv

\* A commit files one more machine and leaves the others where they are.
LEMMA CommitKeepsTypes ==
    ASSUME TypeOK, NEW b \in Blocks, NEW m \in Seq(Payload), Commit(b, m), pending' \subseteq pending
    PROVE  TypeOK'
<1>1. /\ blocks' = blocks \cup {b}
      /\ machines' = [x \in Snapshots \cup {b} |-> IF x = b THEN m ELSE machines[x]]
      /\ Snapshots' = Snapshots \cup {b}
      /\ UNCHANGED <<canonical, head, safe, finalized, highest>>
  BY DEF Commit, Snapshots
<1>2. \A x \in Snapshots : machines[x] \in Seq(Payload)  BY DEF TypeOK
<1>3. machines' \in [Snapshots' -> Seq(Payload)]  BY <1>1, <1>2
<1> QED  BY <1>1, <1>3 DEF TypeOK

\* The payload of a block other than genesis runs on any machine.
LEMMA ExecutedIsMachine ==
    ASSUME NEW b \in Blocks \ {Genesis}, NEW m \in Seq(Payload)
    PROVE  Executed(m, b) \in Seq(Payload)
<1>1. b \in Seq(Payload) /\ b # << >>  BY DEF Genesis
<1>2. b[Len(b)] \in Payload  BY <1>1
<1> QED  BY <1>2 DEF Executed

\* Committing a new block whose parent is known preserves what is about blocks.
LEMMA CommitPreserves ==
    ASSUME IInv, NEW b \in Blocks, b \notin blocks, Parent(b) \in blocks, Commit(b, b),
           Claimed[b] = b, pending' \subseteq pending
    PROVE  IInv'
<1>1. /\ blocks' = blocks \cup {b}
      /\ machines' = [x \in Snapshots \cup {b} |-> IF x = b THEN b ELSE machines[x]]
      /\ Snapshots' = Snapshots \cup {b}
      /\ UNCHANGED <<canonical, head, safe, finalized, highest>>
  BY DEF Commit, Snapshots
<1>2. TypeOK'
  <2>1. b \in Seq(Payload)  OBVIOUS
  <2> QED  BY <2>1, CommitKeepsTypes DEF IInv
<1>3. ParentsKnown'  BY <1>1 DEF IInv, ParentsKnown
<1>4. CanonicalIsOneChain'
  <2>1. SUFFICES ASSUME NEW n \in Heights, canonical[n] # None
                 PROVE  /\ canonical[n] \in blocks'
                        /\ Number(canonical[n]) = n
                        /\ n > 0 => canonical[n - 1] = Parent(canonical[n])
    BY <1>1 DEF CanonicalIsOneChain
  <2>2. canonical[n] \in blocks /\ Number(canonical[n]) = n
    BY <2>1 DEF IInv, CanonicalIsOneChain
  <2>3. n > 0 => canonical[n] # Genesis  BY <2>2 DEF Number, Genesis
  <2>4. n > 0 => Parent(canonical[n]) \in blocks  BY <2>2, <2>3 DEF IInv, ParentsKnown
  <2> QED  BY <2>1, <2>2, <2>4, <1>1 DEF IInv, CanonicalIsOneChain
<1>5. WindowHasSnapshots'  BY <1>1 DEF IInv, WindowHasSnapshots
<1>6. PendingIsAboveHead'  BY <1>1 DEF IInv, PendingIsAboveHead
<1>7. MachinesMatchBlocks'
  BY <1>1 DEF IInv, MachinesMatchBlocks
<1> QED  BY <1>2, <1>3, <1>4, <1>5, <1>6, <1>7 DEF IInv

\* Genesis is where walks to the parent end.
LEMMA GenesisIsItsParent == Parent(Genesis) = Genesis
  BY DEF Parent, Anc, Genesis

\* ImportPayload preserves the invariant, whichever way it answers.
LEMMA ImportPreserves ==
    ASSUME IInv, NEW b \in Blocks, ImportPayload(b)
    PROVE  IInv'
<1>1. CASE ImportAdopt(b)
  <2>1. PICK p \in BuiltHere(b) : pending' = pending \ {p} /\ Commit(b, p.machine)
    BY <1>1 DEF ImportAdopt
  <2>2. p \in pending /\ p.block = b  BY DEF BuiltHere
  <2>3. p.machine = b /\ Claimed[b] = b  BY <2>2 DEF IInv, MachinesMatchBlocks
  <2> QED  BY <1>1, <2>1, <2>3, CommitPreserves DEF ImportAdopt
<1>2. CASE ImportReplay(b)
  <2>1. Parent(b) \in Snapshots /\ b # Genesis
    BY <1>2, GenesisIsItsParent DEF ImportReplay
  <2>2. machines[Parent(b)] = Parent(b)  BY <2>1 DEF IInv, MachinesMatchBlocks
  <2>3. Executed(machines[Parent(b)], b) = b  BY <2>1, <2>2, ExecutedOnParent
  <2> QED  BY <1>2, <2>3, CommitPreserves DEF ImportReplay
<1>3. CASE ImportRefused(b)
  BY <1>3 DEF ImportRefused, vars, chainVars, IInv, TypeOK, ParentsKnown, CanonicalIsOneChain,
              WindowHasSnapshots, PendingIsAboveHead, MachinesMatchBlocks, Snapshots
<1> QED  BY <1>1, <1>2, <1>3 DEF ImportPayload

\* Steps that leave everything as it was.
LEMMA StutterPreserves == IInv /\ UNCHANGED vars => IInv'
  BY DEF vars, chainVars, IInv, TypeOK, ParentsKnown, CanonicalIsOneChain,
         WindowHasSnapshots, PendingIsAboveHead, MachinesMatchBlocks, Snapshots

\* Every handler preserves the invariant.
LEMMA NextIInv == IInv /\ [Next]_vars => IInv'
<1> SUFFICES ASSUME IInv, [Next]_vars PROVE IInv'  OBVIOUS
<1>1. CASE UNCHANGED vars  BY <1>1, StutterPreserves
<1>2. CASE ForkchoiceUpdated(NoStore)
  <2>1. CASE ForkchoiceSyncing  BY <2>1, StutterPreserves DEF ForkchoiceSyncing
  <2>2. ASSUME NEW h \in blocks, NEW s \in Hashes, NEW f \in Hashes,
               \/ ForkchoiceInvalid(h, s, f, NoStore)
               \/ ForkchoiceOnly(h, s, f, NoStore)
               \/ \E a \in Attrs, b \in Children(h) : ForkchoiceBuild(h, s, f, a, b, NoStore)
        PROVE  IInv'
    BY <2>2, InvalidPreserves, OnlyPreserves, BuildPreserves
  <2> QED  BY <1>2, <2>1, <2>2 DEF ForkchoiceUpdated
<1>3. CASE \E b \in Blocks : ImportPayload(b)  BY <1>3, ImportPreserves
<1> QED  BY <1>1, <1>2, <1>3 DEF Next

-----------------------------------------------------------------------------
\* The maps and pointers of Chain keep their types, and every snapshot belongs
\* to a known block.
THEOREM TypeCorrect == Spec => []TypeOK
<1>1. IInv => TypeOK  BY DEF IInv
<1> QED  BY <1>1, InitIInv, NextIInv, PTL DEF Spec

\* Whatever reorgs and refused forkchoice calls come, Chain.canonical is one
\* chain of known blocks.
THEOREM OneChain == Spec => []CanonicalIsOneChain
<1>1. IInv => CanonicalIsOneChain  BY DEF IInv
<1> QED  BY <1>1, InitIInv, NextIInv, PTL DEF Spec

\* prune never closes a machine within MaxSnapshots of the highest head.
THEOREM WindowKept == Spec => []WindowHasSnapshots
<1>1. IInv => WindowHasSnapshots  BY DEF IInv
<1> QED  BY <1>1, InitIInv, NextIInv, PTL DEF Spec

\* Pending payloads stay above the head, one per payload id.
THEOREM PendingAbove == Spec => []PendingIsAboveHead
<1>1. IInv => PendingIsAboveHead  BY DEF IInv
<1> QED  BY <1>1, InitIInv, NextIInv, PTL DEF Spec

\* Every machine, kept for a block or waiting with a payload, has executed
\* exactly that block's ancestry, and every known header claims what it
\* reached: adoption by hash, reorgs and prunes never mix machines up.
THEOREM MachinesMatch == Spec => []MachinesMatchBlocks
<1>1. IInv => MachinesMatchBlocks  BY DEF IInv
<1> QED  BY <1>1, InitIInv, NextIInv, PTL DEF Spec

\* prune protects the blocks the forkchoice pointers name after the call.
THEOREM PointersKeepThem == Spec => PointersKeepSnapshots
<1>1. Next => \A b \in {head', safe', finalized'} : b \in Snapshots => b \in Snapshots'
  <2> SUFFICES ASSUME Next, NEW b \in {head', safe', finalized'}, b \in Snapshots
               PROVE  b \in Snapshots'
    OBVIOUS
  <2>1. ASSUME NEW h \in blocks, NEW s \in Hashes, NEW f \in Hashes,
               ForkchoiceAccepted(h, s, f, NoStore)
        PROVE  b \in Snapshots'
    <3>1. head' = h /\ Snapshots' = Retained(Snapshots, h, safe', finalized')
      BY <2>1 DEF ForkchoiceAccepted, Snapshots
    <3> QED  BY <3>1 DEF Retained
  <2>2. CASE ForkchoiceUpdated(NoStore)
    <3>1. CASE ForkchoiceSyncing
      BY <3>1 DEF ForkchoiceSyncing, vars, chainVars, Snapshots
    <3>2. ASSUME NEW h \in blocks, NEW s \in Hashes, NEW f \in Hashes,
                 \/ ForkchoiceInvalid(h, s, f, NoStore)
                 \/ ForkchoiceOnly(h, s, f, NoStore)
                 \/ \E a \in Attrs, c \in Children(h) : ForkchoiceBuild(h, s, f, a, c, NoStore)
          PROVE  b \in Snapshots'
      BY <2>1, <3>2 DEF ForkchoiceInvalid, ForkchoiceOnly, ForkchoiceBuild, Snapshots
    <3> QED  BY <2>2, <3>1, <3>2 DEF ForkchoiceUpdated
  <2>3. CASE \E c \in Blocks : ImportPayload(c)
    BY <2>3 DEF ImportPayload, ImportAdopt, ImportReplay, ImportRefused, Commit, vars, chainVars,
              Snapshots
  <2> QED  BY <2>2, <2>3 DEF Next
<1> QED  BY <1>1, PTL DEF Spec, PointersKeepSnapshots

\* After reorgTo(h) the mapping names h at h's own height.
LEMMA ReorgReachesHead ==
    ASSUME TypeOK, NEW h \in blocks
    PROVE  ReorgTo(h)[Number(h)] = h
<1>1. h \in Blocks /\ Len(h) \in Nat /\ Len(h) \in Heights  BY HeightsClosed DEF TypeOK
<1>2. Anc(h, Len(h)) = h  BY <1>1, AncSelf
<1>3. CASE Rewrites(canonical, h, Len(h))
  BY <1>1, <1>2, <1>3 DEF ReorgTo, Number
<1>4. CASE ~Rewrites(canonical, h, Len(h))
  <2>1. \A k \in Len(h) .. Len(h) : k = Len(h)  BY <1>1
  <2>2. canonical[Len(h)] = h  BY <1>2, <1>4, <2>1 DEF Rewrites, Number
  <2> QED  BY <1>1, <1>4, <2>2 DEF ReorgTo, Number
<1> QED  BY <1>3, <1>4

\* A forkchoice pointer moves only to a block that is canonical in the state
\* it moves in, also when the call is refused.
THEOREM PointersMove == Spec => PointersMoveToCanonical
<1> DEFINE Lands(old, new) == new # old => canonical'[Number(new)] = new
<1> DEFINE AllLand == Lands(head, head') /\ Lands(safe, safe') /\ Lands(finalized, finalized')
<1>1. TypeOK /\ Next => AllLand
  <2> SUFFICES ASSUME TypeOK, Next PROVE AllLand  OBVIOUS
  <2>1. ASSUME NEW h \in blocks, NEW s \in Hashes, NEW ptr,
               Acceptable(ReorgTo(h), s, NoStore), Moved(ptr, s) # ptr
        PROVE  ReorgTo(h)[Number(Moved(ptr, s))] = Moved(ptr, s)
    BY <2>1 DEF Acceptable, IsCanonical, NoStore, Moved
  <2>2. ASSUME NEW h \in blocks, NEW s \in Hashes, NEW f \in Hashes,
               ForkchoiceAccepted(h, s, f, NoStore)
        PROVE  AllLand
    <3>1. /\ Acceptable(ReorgTo(h), s, NoStore) /\ Acceptable(ReorgTo(h), f, NoStore)
          /\ canonical' = ReorgTo(h) /\ head' = h
          /\ safe' = Moved(safe, s) /\ finalized' = Moved(finalized, f)
      BY <2>2 DEF ForkchoiceAccepted
    <3> QED  BY <3>1, <2>1, ReorgReachesHead
  <2>3. ASSUME NEW h \in blocks, NEW s \in Hashes, NEW f \in Hashes,
               ForkchoiceInvalid(h, s, f, NoStore)
        PROVE  AllLand
    <3>1. /\ canonical' = ReorgTo(h) /\ head' = head /\ finalized' = finalized
          /\ safe' = IF Acceptable(ReorgTo(h), s, NoStore) THEN Moved(safe, s) ELSE safe
      BY <2>3 DEF ForkchoiceInvalid
    <3> QED  BY <3>1, <2>1
  <2>4. CASE ForkchoiceUpdated(NoStore)
    <3>1. CASE ForkchoiceSyncing  BY <3>1 DEF ForkchoiceSyncing, vars, chainVars
    <3>2. ASSUME NEW h \in blocks, NEW s \in Hashes, NEW f \in Hashes,
                 \/ ForkchoiceInvalid(h, s, f, NoStore)
                 \/ ForkchoiceOnly(h, s, f, NoStore)
                 \/ \E a \in Attrs, c \in Children(h) : ForkchoiceBuild(h, s, f, a, c, NoStore)
          PROVE  AllLand
      BY <2>2, <2>3, <3>2 DEF ForkchoiceOnly, ForkchoiceBuild
    <3> QED  BY <2>4, <3>1, <3>2 DEF ForkchoiceUpdated
  <2>5. CASE \E c \in Blocks : ImportPayload(c)
    BY <2>5 DEF ImportPayload, ImportAdopt, ImportReplay, ImportRefused, Commit, vars, chainVars
  <2> QED  BY <2>4, <2>5 DEF Next
<1> QED  BY <1>1, TypeCorrect, PTL DEF Spec, PointersMoveToCanonical
=============================================================================
