------------------------ MODULE ChainRecoveryProofs -------------------------
(***************************************************************************)
(* Without any fault the chain can be restarted wherever the process dies. *)
(* That needs the checkpoints: they are complete, of stored blocks, and at *)
(* most one height above the stored head, so pruning to two or more never  *)
(* drops the last one Restore could use.                                   *)
(***************************************************************************)
EXTENDS ChainStoreProofs, FiniteSetTheorems, WellFoundedInduction

USE DEF Snapshots

Fresh == todo \in Adopting \/ todo = <<W("CheckpointGenesis", Genesis)>>

\* Everything in memory but the block being written is stored.
MemoryIsStored ==
    mode = "up" => \A b \in blocks : b \in dBlocks \/ (todo # << >> /\ Head(todo) = W("PutBlock", b))

\* Stored blocks have their ancestry stored.
AncestryIsStored ==
    /\ \A d \in dBlocks : \A n \in 0 .. Number(d) : Anc(d, n) \in dBlocks
    /\ dHead # None => dHead \in dBlocks
    /\ todo # << >> /\ Head(todo).op = "PutBlock" => Subject = Genesis \/ Parent(Subject) \in dBlocks

CheckpointsReachHead ==
    /\ \A c \in ckpts : /\ c.full /\ c.block \in dBlocks
                        /\ dHead # None /\ Number(c.block) <= Number(dHead) + 1
    /\ ckpts # {} => \E c \in ckpts : Number(c.block) <= Number(dHead)
    /\ IsFiniteSet(ckpts)
    /\ mode = "up" /\ ckpts = {} =>
          /\ Genesis \in Snapshots
          /\ Fresh \/ todo = <<W("FinishCheckpoint", Genesis)>>

Complete ==
    /\ MemoryIsStored
    /\ AncestryIsStored
    /\ \A b \in blocks : Number(b) <= Number(head) + 1
    /\ CheckpointsReachHead

\* What Adopt's list begins with, and what follows.
LEMMA AdoptingSteps ==
    ASSUME NEW t \in Adopting
    PROVE  /\ t # << >>
           /\ \/ Head(t).op = "PutBlock" /\ Tail(t) \in Adopting
              \/ Head(t).op = "SetCanonical" /\ Tail(t) = <<W("CheckpointGenesis", Genesis)>>
<1> DEFINE a == W("PutBlock", Genesis)  b == W("SetCanonical", Genesis)  c == W("CheckpointGenesis", Genesis)
<1>1. a.op = "PutBlock" /\ b.op = "SetCanonical"  BY DEF W
<1>2. t = <<a, b, c>> \/ t = <<b, c>>  BY DEF Adopting
<1>3. <<b, c>> \in Adopting  BY DEF Adopting
<1> HIDE DEF a, b, c
<1>4. CASE t = <<a, b, c>>  BY <1>1, <1>3, <1>4, FrontAndRest
<1>5. CASE t = <<b, c>>
  <2>1. t # << >> /\ Head(t) = b /\ Tail(t) = <<c>>  BY <1>5, FrontAndRest
  <2> QED  BY <1>1, <2>1 DEF c
<1> QED  BY <1>2, <1>4, <1>5

\* While there is no checkpoint the front write is one of Adopt's.
LEMMA FreshFront ==
    ASSUME Fresh \/ todo = <<W("FinishCheckpoint", Genesis)>>
    PROVE  /\ todo # << >>
           /\ \/ Head(todo).op = "PutBlock" /\ Tail(todo) \in Adopting
              \/ Head(todo).op = "SetCanonical" /\ Tail(todo) = <<W("CheckpointGenesis", Genesis)>>
              \/ Head(todo).op = "CheckpointGenesis" /\ Subject = Genesis
              \/ Head(todo).op = "FinishCheckpoint" /\ Subject = Genesis
<1>1. CASE todo \in Adopting  BY <1>1, AdoptingSteps
<1>2. CASE todo = <<W("CheckpointGenesis", Genesis)>>  BY <1>2, FrontOfOne DEF Subject
<1>3. CASE todo = <<W("FinishCheckpoint", Genesis)>>  BY <1>3, FrontOfOne DEF Subject
<1> QED  BY <1>1, <1>2, <1>3 DEF Fresh

\* A step that keeps memory and the database, and leaves no block to write.
LEMMA CompleteKept ==
    ASSUME StoreInv, Complete, UNCHANGED <<blocks, machines, head, dBlocks, dHead, ckpts, mode>>,
           MemoryIsStored', ~(todo' # << >> /\ Head(todo').op = "PutBlock"),
           mode = "up" /\ ckpts = {} => Fresh' \/ todo' = <<W("FinishCheckpoint", Genesis)>>
    PROVE  Complete'
<1>1. AncestryIsStored'  BY DEF Complete, AncestryIsStored
<1>2. CheckpointsReachHead'  BY DEF Complete, CheckpointsReachHead
<1> QED  BY <1>1, <1>2 DEF Complete

\* PutBlock stores a block whose parent is stored.
LEMMA PutBlockCompletes ==
    ASSUME StoreInv, Complete, PutBlock, StoreInv'
    PROVE  Complete'
<1>1. /\ Doing("PutBlock") /\ dBlocks' = dBlocks \cup {Subject} /\ todo' = Tail(todo)
      /\ UNCHANGED <<blocks, machines, head, mode, dHead, ckpts>>
  BY DEF PutBlock, vars, chainVars
<1>2. mode = "up" /\ todo # << >> /\ Head(todo).op = "PutBlock" /\ FrontWrites
  BY <1>1, FrontWrite DEF Doing, StoreInv
<1>3. Subject \in Blocks /\ dBlocks \subseteq Blocks /\ Number(Subject) \in Nat
  BY <1>2, NumbersAreNat DEF FrontWrites, StoreInv, StoreTypeOK, TypeOK
<1>4. ~(todo' # << >> /\ Head(todo').op = "PutBlock")
  <2>1. CASE Tail(todo) = << >>  BY <2>1, <1>1
  <2>2. CASE Tail(todo) = <<W("Checkpoint", Subject)>>
    <3>1. Head(todo').op = "Checkpoint"  BY <2>2, <1>1, FrontOfOne
    <3> QED  BY <3>1
  <2>3. CASE Tail(todo) = <<W("SetCanonical", Genesis), W("CheckpointGenesis", Genesis)>>
    <3>1. todo' = <<W("SetCanonical", Genesis), W("CheckpointGenesis", Genesis)>>  BY <2>3, <1>1
    <3> QED  BY <3>1, FrontOfTwo
  <2> QED  BY <1>1, <1>2, <2>1, <2>2, <2>3 DEF FrontWrites
<1>5. MemoryIsStored'
  <2>1. \A b \in blocks : Head(todo) = W("PutBlock", b) => b = Subject  BY DEF W, Subject
  <2> QED  BY <2>1, <1>1, <1>2 DEF Complete, MemoryIsStored
<1>6. AncestryIsStored'
  <2>1. ASSUME NEW n \in 0 .. Number(Subject)  PROVE Anc(Subject, n) \in dBlocks'
    <3>1. CASE n = Number(Subject)  BY <3>1, <1>1, <1>3, AncSelf DEF Number
    <3>2. CASE n # Number(Subject)
      <4>1. Number(Subject) - 1 \in 0 .. Number(Subject) /\ n \in 0 .. Number(Subject) - 1
        BY <3>2, <1>3
      <4>2. Subject # Genesis  BY <4>1, <1>3, HeightsClosed DEF Number
      <4>3. Parent(Subject) \in dBlocks  BY <4>2, <1>2 DEF Complete, AncestryIsStored
      <4>4. Parent(Subject) = Anc(Subject, Number(Subject) - 1)
        BY DEF Parent, Number
      <4>5. Number(Parent(Subject)) = Number(Subject) - 1
        BY <4>1, <4>4, <1>3, AncIsBlock DEF Number
      <4>6. Anc(Parent(Subject), n) \in dBlocks
        BY <4>1, <4>3, <4>5 DEF Complete, AncestryIsStored
      <4>7. Anc(Parent(Subject), n) = Anc(Subject, n)  BY <4>1, <4>4, <1>3, AncThrough
      <4> QED  BY <4>6, <4>7, <1>1
    <3> QED  BY <3>1, <3>2
  <2> QED  BY <2>1, <1>1, <1>4 DEF Complete, AncestryIsStored
<1>7. CheckpointsReachHead'
  <2>1. mode = "up" /\ ckpts = {} => Tail(todo) \in Adopting
    BY <1>2, FreshFront DEF Complete, CheckpointsReachHead
  <2> QED  BY <2>1, <1>1 DEF Complete, CheckpointsReachHead, Fresh
<1> QED  BY <1>1, <1>5, <1>6, <1>7 DEF Complete

\* SetCanonical moves the stored head up the line.
LEMMA SetCanonicalCompletes ==
    ASSUME StoreInv, Complete, SetCanonical, faults = {}, StoreInv'
    PROVE  Complete'
<1>1. /\ Doing("SetCanonical") /\ dHead' = Subject /\ todo' = Tail(todo)
      /\ UNCHANGED <<blocks, machines, head, mode, dBlocks, ckpts>>
  BY DEF SetCanonical, vars, chainVars
<1>2. mode = "up" /\ todo # << >> /\ Head(todo).op = "SetCanonical" /\ FrontWrites
  BY <1>1, FrontWrite DEF Doing, StoreInv
<1>3. Subject = head /\ head \in blocks /\ head \in Blocks /\ Number(head) \in Nat /\ head # None
  BY <1>1, <1>2, NumbersAreNat, ChainAssumption DEF FrontWrites, StoreInv, StoreTypeOK, TypeOK
<1>4. ~(todo' # << >> /\ Head(todo').op = "PutBlock")
  <2>1. CASE Tail(todo) = <<W("SetHeads", head), W("CheckpointIfFinalized", head)>>
    <3>1. todo' = <<W("SetHeads", head), W("CheckpointIfFinalized", head)>>  BY <2>1, <1>1
    <3> QED  BY <3>1, FrontOfTwo
  <2>2. CASE Tail(todo) = <<W("CheckpointGenesis", Genesis)>>
    <3>1. Head(todo').op = "CheckpointGenesis"  BY <2>2, <1>1, FrontOfOne
    <3> QED  BY <3>1
  <2> QED  BY <1>1, <1>2, <2>1, <2>2 DEF FrontWrites
<1>5. \A b \in blocks : b \in dBlocks
  <2>1. \A b : Head(todo) # W("PutBlock", b)  BY <1>2 DEF W
  <2> QED  BY <2>1, <1>2 DEF Complete, MemoryIsStored
<1>6. AncestryIsStored' /\ MemoryIsStored'
  BY <1>1, <1>3, <1>4, <1>5 DEF Complete, AncestryIsStored, MemoryIsStored
<1>7. dHead # None => Number(dHead) \in Nat /\ Number(dHead) <= Number(head)
  BY <1>2, NumbersAreNat
     DEF StoreInv, ExtendsInStep, StoredInStep, OnChainOf, Number, StoreTypeOK, Hashes
<1>8. CheckpointsReachHead'
  <2>1. mode = "up" /\ ckpts = {} => Tail(todo) = <<W("CheckpointGenesis", Genesis)>>
    BY <1>2, FreshFront DEF Complete, CheckpointsReachHead
  <2>2. \A c \in ckpts : Number(c.block) \in Nat
    BY NumbersAreNat DEF StoreInv, StoreTypeOK, Checkpoint
  <2>3. \A c \in ckpts : /\ c.full /\ c.block \in dBlocks
                         /\ dHead # None /\ Number(c.block) <= Number(dHead) + 1
    BY DEF Complete, CheckpointsReachHead
  <2>4. \A c \in ckpts : Number(c.block) <= Number(head) + 1  BY <2>2, <2>3, <1>3, <1>7
  <2>5. ckpts # {} => \E c \in ckpts : Number(c.block) <= Number(head)
    <3>1. ckpts # {} => \E c \in ckpts : Number(c.block) <= Number(dHead)
      BY DEF Complete, CheckpointsReachHead
    <3> QED  BY <3>1, <2>2, <2>3, <1>3, <1>7
  <2> QED  BY <2>1, <2>3, <2>4, <2>5, <1>1, <1>3 DEF Complete, CheckpointsReachHead, Fresh
<1> QED  BY <1>1, <1>6, <1>8 DEF Complete
\* SetHeads and CheckpointIfFinalized find the head stored, and ask for nothing
\* that is not in memory.
LEMMA QuietWriteCompletes ==
    ASSUME StoreInv, Complete, SetHeads \/ CheckpointIfFinalized, faults = {}, StoreInv'
    PROVE  Complete'
<1>1. /\ Doing("SetHeads") \/ Doing("CheckpointIfFinalized")
      /\ UNCHANGED <<blocks, machines, head, mode, dBlocks, ckpts>>
      /\ dHead' = dHead \/ dHead' = head
  BY DEF SetHeads, WriteHeads, CheckpointIfFinalized, diskVars, dbVars, vars, chainVars
<1>2. mode = "up" /\ todo # << >> /\ FrontWrites /\ ~Behind
      /\ Head(todo).op \in {"SetHeads", "CheckpointIfFinalized"}
  BY <1>1, FrontWrite DEF Doing, StoreInv, FrontWrites
<1>3. dHead' = dHead
  BY <1>1, <1>2 DEF StoreInv, NoWriteFails, StoredAsWritten
<1>4. ckpts # {}
  BY <1>2, FreshFront DEF Complete, CheckpointsReachHead
<1>5. ~(todo' # << >> /\ Head(todo').op = "PutBlock")
  <2>1. CASE SetHeads
    <3>1. todo' = <<W("CheckpointIfFinalized", Subject)>>
      BY <2>1, <1>2 DEF SetHeads, FrontWrites
    <3>2. Head(todo').op = "CheckpointIfFinalized"  BY <3>1, FrontOfOne
    <3> QED  BY <3>2
  <2>2. CASE CheckpointIfFinalized
    <3>1. todo' = << >> \/ todo' = <<W("Checkpoint", finalized)>>
      BY <2>2 DEF CheckpointIfFinalized
    <3>2. todo' = <<W("Checkpoint", finalized)>> => Head(todo').op = "Checkpoint"  BY FrontOfOne
    <3> QED  BY <3>1, <3>2
  <2> QED  BY <2>1, <2>2
<1>6. MemoryIsStored'
  <2>1. \A b : Head(todo) # W("PutBlock", b)  BY <1>2 DEF W
  <2> QED  BY <2>1, <1>1, <1>2 DEF Complete, MemoryIsStored
<1> QED  BY <1>1, <1>3, <1>4, <1>5, <1>6, CompleteKept

\* Taking a checkpoint creates nothing yet, and is never skipped for genesis.
LEMMA TakeCheckpointCompletes ==
    ASSUME StoreInv, Complete, TakeCheckpoint, faults = {}, StoreInv'
    PROVE  Complete'
<1>1. /\ Doing("Checkpoint") \/ Doing("CheckpointGenesis")
      /\ UNCHANGED <<blocks, machines, head, mode, dBlocks, dHead>>
      /\ ckpts' = ckpts
      /\ todo' = Tail(todo) \/ todo' = <<W("FinishCheckpoint", Subject)>> \o Tail(todo)
      /\ CanCheckpoint(Subject) => todo' = <<W("FinishCheckpoint", Subject)>> \o Tail(todo)
  BY DEF TakeCheckpoint, StartCheckpoint, dbVars, vars, chainVars
<1>2. mode = "up" /\ todo # << >> /\ FrontWrites /\ Tail(todo) = << >>
      /\ Head(todo).op \in {"Checkpoint", "CheckpointGenesis"}
  BY <1>1, FrontWrite DEF Doing, StoreInv, FrontWrites
<1>3. <<W("FinishCheckpoint", Subject)>> \o << >> = <<W("FinishCheckpoint", Subject)>>
  <2>1. \A a : <<a>> \o << >> = <<a>>  OBVIOUS
  <2> QED  BY <2>1
<1>4. todo' = << >> \/ todo' = <<W("FinishCheckpoint", Subject)>>  BY <1>1, <1>2, <1>3
<1>5. ~(todo' # << >> /\ Head(todo').op = "PutBlock")
  <2>1. todo' = <<W("FinishCheckpoint", Subject)>> => Head(todo').op = "FinishCheckpoint"  BY FrontOfOne
  <2> QED  BY <2>1, <1>4
<1>6. MemoryIsStored'
  <2>1. \A b : Head(todo) # W("PutBlock", b)  BY <1>2 DEF W
  <2> QED  BY <2>1, <1>1, <1>2 DEF Complete, MemoryIsStored
<1>7. ASSUME ckpts = {}  PROVE todo' = <<W("FinishCheckpoint", Genesis)>>
  <2>1. Genesis \in Snapshots /\ Subject = Genesis
    BY <1>2, <1>7, FreshFront DEF Complete, CheckpointsReachHead
  <2>2. CanCheckpoint(Subject)  BY <2>1, <1>7 DEF CanCheckpoint, HasDir
  <2> QED  BY <2>1, <2>2, <1>1, <1>2, <1>3
<1> QED  BY <1>1, <1>5, <1>6, <1>7, CompleteKept

\* Pruning to two or more keeps a checkpoint at or below n, when all checkpoints
\* above n would be of one block.
LEMMA PruneKeepsOne ==
    ASSUME NEW cs, IsFiniteSet(cs), NEW n \in Nat, CheckpointRetention >= 2,
           \A c \in cs : Number(c.block) \in Nat,
           \A c, d \in cs : Number(c.block) > n /\ Number(d.block) > n => c = d,
           \E c \in cs : Number(c.block) <= n,
           NEW k \in Kept(cs, CheckpointRetention)
    PROVE  k \subseteq cs /\ \E c \in k : Number(c.block) <= n
<1>1. CASE Cardinality(cs) <= CheckpointRetention  BY <1>1 DEF Kept
<1>2. CASE ~(Cardinality(cs) <= CheckpointRetention)
  <2>1. k \subseteq cs /\ Cardinality(k) = CheckpointRetention  BY <1>2 DEF Kept
  <2>2. SUFFICES ASSUME \A c \in k : Number(c.block) > n  PROVE FALSE
    BY <2>1
  <2>3. CheckpointRetention \in Nat  BY StoreAssumption
  <2>4. CASE k = {}  BY <2>1, <2>3, <2>4, FS_EmptySet
  <2>5. ASSUME NEW x \in k  PROVE FALSE
    <3>1. k = {x}  BY <2>1, <2>2
    <3>2. Cardinality({x}) = 1  BY FS_Singleton
    <3> QED  BY <3>1, <3>2, <2>1, <2>3
  <2> QED  BY <2>4, <2>5
<1> QED  BY <1>1, <1>2

\* Finishing a checkpoint: of a stored block at most one above the stored head.
LEMMA FinishCompletes ==
    ASSUME StoreInv, Complete, FinishCheckpoint, faults = {}, CheckpointRetention >= 2, StoreInv'
    PROVE  Complete'
<1> DEFINE new == [block |-> Subject, full |-> TRUE]
           done == (ckpts \ {[block |-> Subject, full |-> FALSE]}) \cup {new}
<1>1. /\ Doing("FinishCheckpoint")
      /\ UNCHANGED <<blocks, machines, head, mode, dBlocks, dHead>>
      /\ todo' = Tail(todo)
      /\ IF Subject = Genesis THEN ckpts' = done ELSE ckpts' \in Kept(done, CheckpointRetention)
  BY DEF FinishCheckpoint, dbVars, vars, chainVars
<1>2. mode = "up" /\ todo # << >> /\ FrontWrites /\ Tail(todo) = << >> /\ ~Behind
      /\ Head(todo).op = "FinishCheckpoint"
  BY <1>1, FrontWrite DEF Doing, StoreInv, FrontWrites
<1>3. \A b \in blocks : b \in dBlocks
  <2>1. \A b : Head(todo) # W("PutBlock", b)  BY <1>2 DEF W
  <2> QED  BY <2>1, <1>2 DEF Complete, MemoryIsStored
<1>4. /\ dHead = head /\ dHead # None /\ head \in Blocks /\ Number(head) \in Nat
      /\ Subject \in blocks /\ Subject \in Blocks /\ Number(Subject) <= Number(dHead) + 1
      /\ dBlocks \subseteq Blocks
  BY <1>2, NumbersAreNat, ChainAssumption
     DEF StoreInv, NoWriteFails, StoredAsWritten, FrontWrites, StoreTypeOK, TypeOK, Complete
<1>5. \A c \in ckpts : c \in Checkpoint /\ c.full /\ c.block \in dBlocks /\ Number(c.block) <= Number(dHead) + 1
  BY DEF Complete, CheckpointsReachHead, StoreInv, StoreTypeOK
<1>6. new \in Checkpoint /\ new.full /\ new.block = Subject  BY <1>4 DEF Checkpoint
<1>7. \A c \in done : c \in Checkpoint /\ c.full /\ c.block \in dBlocks /\ Number(c.block) <= Number(dHead) + 1
  <2>1. \A c \in done : c \in ckpts \/ c = new  OBVIOUS
  <2> HIDE DEF new, done
  <2> QED  BY <2>1, <1>3, <1>4, <1>5, <1>6
<1>8. \A c \in done : c.block \in Blocks /\ Number(c.block) \in Nat
  BY <1>4, <1>7, NumbersAreNat
<1>9. \A c, d \in done : c.block = d.block => c = d
  <2>1. \A c \in Checkpoint : c.full => c = [block |-> c.block, full |-> TRUE]
    <3>1. \A c \in Checkpoint : c = [block |-> c.block, full |-> c.full] /\ c.full \in BOOLEAN
      BY DEF Checkpoint
    <3> QED  BY <3>1, Zenon
  <2> HIDE DEF done
  <2> QED  BY <2>1, <1>7
<1>10. \A c, d \in done : Number(c.block) > Number(dHead) /\ Number(d.block) > Number(dHead) => c = d
  <2>1. SUFFICES ASSUME NEW c \in done, NEW d \in done,
                        Number(c.block) > Number(dHead), Number(d.block) > Number(dHead)
                 PROVE  c.block = d.block
    BY <1>9
  <2>2. Number(c.block) = Number(d.block)  BY <2>1, <1>4, <1>7, <1>8
  <2>3. Comparable(c.block, d.block)
    BY <2>1, <1>7 DEF StoreInv, ExtendsInStep, StoredInStep
  <2> QED  BY <2>2, <2>3, <1>8, LowerOnChain
<1>11. IsFiniteSet(done)
  <2>1. IsFiniteSet(ckpts \ {[block |-> Subject, full |-> FALSE]})
    BY FS_Subset DEF Complete, CheckpointsReachHead
  <2> QED  BY <2>1, FS_AddElement
<1>12. ckpts \subseteq done
  <2>1. \A c \in ckpts : c # [block |-> Subject, full |-> FALSE]
    <3>1. ~[block |-> Subject, full |-> FALSE].full  BY Zenon
    <3> QED  BY <3>1, <1>5
  <2> QED  BY <2>1
<1>13. \E c \in done : Number(c.block) <= Number(dHead)
  <2>1. CASE ckpts # {}
    <3>1. PICK c \in ckpts : Number(c.block) <= Number(dHead)
      BY <2>1 DEF Complete, CheckpointsReachHead
    <3> QED  BY <3>1, <1>12
  <2>2. CASE ckpts = {}
    <3>1. Subject = Genesis  BY <2>2, <1>2, FreshFront DEF Complete, CheckpointsReachHead
    <3>2. Number(Subject) = 0  BY <3>1, <1>4, GenesisOnChain
    <3>3. Number(new.block) <= Number(dHead)  BY <3>2, <1>4, <1>6
    <3>4. new \in done  OBVIOUS
    <3> QED  BY <3>3, <3>4
  <2> QED  BY <2>1, <2>2
<1>14. ckpts' \subseteq done /\ \E c \in ckpts' : Number(c.block) <= Number(dHead)
  <2> HIDE DEF done
  <2>1. CASE ckpts' = done  BY <2>1, <1>13
  <2>2. CASE ckpts' \in Kept(done, CheckpointRetention)
    BY <2>2, <1>4, <1>8, <1>10, <1>11, <1>13, PruneKeepsOne
  <2> QED  BY <2>1, <2>2, <1>1
<1>15. CheckpointsReachHead'
  <2> HIDE DEF done
  <2>1. IsFiniteSet(ckpts')  BY <1>11, <1>14, FS_Subset
  <2> QED  BY <2>1, <1>1, <1>4, <1>7, <1>14 DEF CheckpointsReachHead
<1>16. MemoryIsStored'  BY <1>1, <1>3 DEF MemoryIsStored
<1>17. AncestryIsStored'  BY <1>1, <1>2 DEF Complete, AncestryIsStored
<1> QED  BY <1>1, <1>15, <1>16, <1>17 DEF Complete
\* A handler runs only when nothing is left to write, so the first checkpoint
\* exists and all of memory is stored.
LEMMA IdleIsStored ==
    ASSUME Complete, Idle
    PROVE  ckpts # {} /\ blocks \subseteq dBlocks
<1>1. mode = "up" /\ todo = << >>  BY DEF Idle
<1>2. ckpts # {}  BY <1>1, FreshFront DEF Complete, CheckpointsReachHead
<1> QED  BY <1>1, <1>2 DEF Complete, MemoryIsStored

\* ImportPayload in step: the new block is the head's child.
LEMMA StoreImportCompletes ==
    ASSUME StoreInv, Complete, NEW b \in Blocks, StoreImport(b), InStep
    PROVE  Complete'
<1>1. /\ Idle /\ mode' = "up" /\ mode = "up"
      /\ \/ todo' = <<W("PutBlock", b), W("Checkpoint", b)>>
         \/ todo' = <<W("PutBlock", b)>>
      /\ b \notin blocks /\ Parent(b) \in blocks
      /\ blocks' = blocks \cup {b}
      /\ UNCHANGED <<head, dBlocks, dHead, ckpts>>
  BY DEF StoreImport, Idle, ImportReplay, Commit, diskVars, dbVars
<1>2. ckpts # {} /\ blocks \subseteq dBlocks  BY <1>1, IdleIsStored
<1>3. Parent(b) = head  BY <1>1 DEF InStep
<1>4. Number(b) = Number(head) + 1 /\ Number(head) \in Nat
  <2>1. b # Genesis
    <3>1. Parent(Genesis) = Genesis  BY DEF Parent, Anc, Genesis
    <3> QED  BY <3>1, <1>1
  <2>2. Number(b) \in Nat \ {0}  BY <2>1, HeightsClosed DEF Number
  <2>3. Number(b) - 1 \in 0 .. Number(b)  BY <2>2
  <2>4. Number(Parent(b)) = Number(b) - 1  BY <2>3, AncIsBlock DEF Parent, Number
  <2> QED  BY <2>2, <2>4, <1>3
<1>5. Head(todo') = W("PutBlock", b) /\ todo' # << >>
  <2> DEFINE a == W("PutBlock", b)  c == W("Checkpoint", b)
  <2>1. todo' = <<a, c>> \/ todo' = <<a>>  BY <1>1
  <2> HIDE DEF a, c
  <2>2. Head(todo') = a /\ todo' # << >>  BY <2>1, FrontAndRest
  <2> QED  BY <2>2 DEF a
<1>6. Subject' = b  BY <1>5 DEF Subject, W
<1>7. MemoryIsStored'  BY <1>1, <1>2, <1>5 DEF MemoryIsStored
<1>8. AncestryIsStored'  BY <1>1, <1>2, <1>6 DEF Complete, AncestryIsStored
<1>9. CheckpointsReachHead'  BY <1>1, <1>2 DEF Complete, CheckpointsReachHead
<1>10. \A d \in blocks' : Number(d) <= Number(head') + 1  BY <1>1, <1>4 DEF Complete
<1> QED  BY <1>7, <1>8, <1>9, <1>10 DEF Complete

\* ForkchoiceUpdated in step: the head moves up or stays.
LEMMA StoreForkchoiceCompletes ==
    ASSUME StoreInv, Complete, NEW h \in blocks, NEW s \in Hashes, NEW f \in Hashes,
           StoreForkchoice(h, s, f), InStep
    PROVE  Complete'
<1>1. /\ Idle /\ mode' = "up" /\ mode = "up"
      /\ todo' = <<W("SetCanonical", h), W("SetHeads", h), W("CheckpointIfFinalized", h)>>
      /\ blocks' = blocks /\ head' = h
      /\ UNCHANGED <<dBlocks, dHead, ckpts>>
  BY DEF StoreForkchoice, Idle, ForkchoiceOnly, ForkchoiceAccepted, diskVars, dbVars
<1>2. ckpts # {} /\ blocks \subseteq dBlocks  BY <1>1, IdleIsStored
<1>3. Number(head) <= Number(h)  BY <1>1 DEF InStep, OnChainOf, Number
<1>4. \A b \in blocks : Number(b) \in Nat  BY NumbersAreNat DEF StoreInv, StoreTypeOK, TypeOK
<1>5. head \in blocks  BY DEF StoreInv, StoreTypeOK, TypeOK
<1>6. Head(todo').op = "SetCanonical"
  <2> DEFINE a == W("SetCanonical", h)  b == W("SetHeads", h)  c == W("CheckpointIfFinalized", h)
  <2>1. a.op = "SetCanonical"  BY DEF W
  <2>2. todo' = <<a, b, c>>  BY <1>1
  <2> HIDE DEF a, b, c
  <2> QED  BY <2>1, <2>2, FrontAndRest
<1>7. MemoryIsStored'  BY <1>1, <1>2 DEF MemoryIsStored
<1>8. AncestryIsStored'  BY <1>1, <1>6 DEF Complete, AncestryIsStored
<1>9. CheckpointsReachHead'  BY <1>1, <1>2 DEF Complete, CheckpointsReachHead
<1>10. \A b \in blocks' : Number(b) <= Number(head') + 1  BY <1>1, <1>3, <1>4, <1>5 DEF Complete
<1> QED  BY <1>7, <1>8, <1>9, <1>10 DEF Complete

\* A refused forkchoice touches none of it.
LEMMA StoreInvalidCompletes ==
    ASSUME StoreInv, Complete, NEW h \in blocks, NEW s \in Hashes, NEW f \in Hashes,
           StoreForkchoiceInvalid(h, s, f)
    PROVE  Complete'
<1>1. /\ Idle /\ todo' = todo /\ UNCHANGED <<blocks, machines, head, dBlocks, dHead, ckpts, mode>>
  BY DEF StoreForkchoiceInvalid, ForkchoiceInvalid, diskVars, dbVars
<1>2. MemoryIsStored'  BY <1>1 DEF Complete, MemoryIsStored
<1>3. todo' = << >> /\ ckpts # {}  BY <1>1, IdleIsStored DEF Idle
<1> QED  BY <1>1, <1>2, <1>3, CompleteKept

\* The process ends, by a crash or by Close, which writes the head again.
LEMMA StopCompletes ==
    ASSUME StoreInv, Complete, Crash \/ Close, faults = {}
    PROVE  Complete'
<1>1. /\ mode' = "down" /\ todo' = << >> /\ UNCHANGED <<dBlocks, ckpts>>
      /\ blocks' = {Genesis} /\ head' = Genesis
  BY DEF Crash, Close, Idle, MemoryLost, diskVars, dbVars
<1>2. dHead' = dHead
  <2>1. CASE Crash  BY <2>1 DEF Crash, diskVars, dbVars
  <2>2. CASE Close
    <3>1. mode = "up" /\ todo = << >> /\ dHead' = head  BY <2>2 DEF Close, Idle, WriteHeads
    <3>2. ~Behind  BY <3>1, QuietLists DEF Behind
    <3> QED  BY <3>1, <3>2 DEF StoreInv, NoWriteFails, StoredAsWritten
  <2> QED  BY <2>1, <2>2
<1>3. MemoryIsStored' /\ AncestryIsStored'
  BY <1>1, <1>2 DEF Complete, MemoryIsStored, AncestryIsStored
<1>4. CheckpointsReachHead'  BY <1>1, <1>2 DEF Complete, CheckpointsReachHead
<1>5. Number(Genesis) = 0  BY GenesisOnChain, ChainAssumption
<1> QED  BY <1>1, <1>3, <1>4, <1>5 DEF Complete

\* A fresh start has no checkpoint yet, and writes genesis first.
LEMMA StartFreshCompletes ==
    ASSUME StoreInv, Complete, StartFresh
    PROVE  Complete'
<1>1. /\ mode = "down" /\ dHead = None /\ mode' = "up"
      /\ todo' = <<W("PutBlock", Genesis), W("SetCanonical", Genesis), W("CheckpointGenesis", Genesis)>>
      /\ UNCHANGED <<blocks, machines, head, dBlocks, dHead, ckpts>>
  BY DEF StartFresh, vars, chainVars, diskVars, dbVars
<1>2. blocks = {Genesis} /\ machines = GenesisMachine  BY <1>1 DEF StoreInv, DownIsEmpty
<1>3. Head(todo') = W("PutBlock", Genesis) /\ todo' # << >>
  <2> DEFINE a == W("PutBlock", Genesis)  b == W("SetCanonical", Genesis)  c == W("CheckpointGenesis", Genesis)
  <2>1. todo' = <<a, b, c>>  BY <1>1
  <2> HIDE DEF a, b, c
  <2>2. Head(todo') = a /\ todo' # << >>  BY <2>1, FrontAndRest
  <2> QED  BY <2>2 DEF a
<1>4. MemoryIsStored'  BY <1>1, <1>2, <1>3 DEF MemoryIsStored
<1>5. Subject' = Genesis  BY <1>3 DEF Subject, W
<1>6. AncestryIsStored'  BY <1>1, <1>5 DEF Complete, AncestryIsStored
<1>7. Fresh'  BY <1>1 DEF Fresh, Adopting
<1>8. CheckpointsReachHead'  BY <1>1, <1>2, <1>7 DEF Complete, CheckpointsReachHead, GenesisMachine
<1>9. \A b \in blocks' : Number(b) <= Number(head') + 1  BY <1>1 DEF Complete
<1> QED  BY <1>4, <1>6, <1>8, <1>9 DEF Complete

\* Restore serves only what is stored, up to the stored head.
LEMMA RestoreCompletes ==
    ASSUME StoreInv, Complete, dHead # None, NEW c \in Latest(Number(dHead)), Restore(c), faults = {}
    PROVE  Complete'
<1> DEFINE lo == Number(c.block)  hi == Number(dHead)
<1>1. /\ RestoreOk(c) /\ mode = "down" /\ mode' = "up" /\ todo' = todo
      /\ blocks' = {dCanonical[n] : n \in lo .. hi}
      /\ head' = dCanonical[hi]
      /\ UNCHANGED <<dBlocks, dHead, ckpts>>
  BY DEF Restore, diskVars, dbVars
<1>2. /\ lo \in 0 .. hi /\ hi \in Nat /\ c \in ckpts
      /\ \A n \in lo .. hi : dCanonical[n] \in dBlocks /\ Number(dCanonical[n]) = n
  BY <1>1, ServedAreAncestors DEF Tame, NoWriteFails
<1>3. todo' = << >>  BY <1>1 DEF StoreInv, DownIsEmpty
<1>4. MemoryIsStored'  BY <1>1, <1>2 DEF MemoryIsStored
<1>5. AncestryIsStored'  BY <1>1, <1>3 DEF Complete, AncestryIsStored
<1>6. CheckpointsReachHead'  BY <1>1, <1>2 DEF Complete, CheckpointsReachHead
<1>7. Number(head') = hi  BY <1>1, <1>2
<1>8. \A b \in blocks' : Number(b) <= hi + 1  BY <1>1, <1>2
<1> QED  BY <1>4, <1>5, <1>6, <1>7, <1>8 DEF Complete

\* A step that changes none of it.
LEMMA CompleteUnchanged ==
    ASSUME Complete, UNCHANGED <<blocks, machines, head, dBlocks, dHead, ckpts, todo>>,
           mode' = "up" => mode = "up"
    PROVE  Complete'
<1>1. MemoryIsStored' /\ AncestryIsStored'
  BY DEF Complete, MemoryIsStored, AncestryIsStored, Subject
<1>2. CheckpointsReachHead'  BY DEF Complete, CheckpointsReachHead, Fresh
<1> QED  BY <1>1, <1>2 DEF Complete

RInv == StoreInv /\ (faults = {} => Complete)

\* Every step preserves it, when pruning keeps two checkpoints or more.
LEMMA NextRInv ==
    ASSUME CheckpointRetention >= 2
    PROVE  RInv /\ Tame /\ [StoreNext]_storeVars => RInv'
<1> SUFFICES ASSUME RInv, Tame, [StoreNext]_storeVars PROVE RInv'  OBVIOUS
<1>1. StoreInv /\ StoreInv'  BY NextStoreInv DEF RInv
<1>2. faults' = faults  BY DEF StoreNext, storeVars
<1>3. SUFFICES ASSUME faults = {} PROVE Complete'  BY <1>1, <1>2 DEF RInv
<1>4. Complete  BY <1>3 DEF RInv
<1>5. CASE UNCHANGED storeVars
  BY <1>4, <1>5, CompleteUnchanged DEF storeVars, vars, chainVars, diskVars, dbVars
<1>6. CASE StoreNext
  <2>1. StoreStep /\ InStep  BY <1>3, <1>6 DEF StoreNext
  <2>2. ASSUME NEW b \in Blocks, StoreImport(b)  PROVE Complete'
    BY <1>1, <1>4, <2>1, <2>2, StoreImportCompletes
  <2>3. ASSUME NEW h \in blocks, NEW s \in Hashes, NEW f \in Hashes,
               StoreForkchoice(h, s, f) \/ StoreForkchoiceInvalid(h, s, f)
        PROVE  Complete'
    BY <1>1, <1>4, <2>1, <2>3, StoreForkchoiceCompletes, StoreInvalidCompletes
  <2>4. CASE StoreWrite
    <3>1. ~WriteFails  BY <1>3 DEF WriteFails
    <3>2. CASE PutBlock  BY <1>1, <1>4, <3>2, PutBlockCompletes
    <3>3. CASE SetCanonical  BY <1>1, <1>3, <1>4, <3>3, SetCanonicalCompletes
    <3>4. CASE SetHeads \/ CheckpointIfFinalized  BY <1>1, <1>3, <1>4, <3>4, QuietWriteCompletes
    <3>5. CASE TakeCheckpoint  BY <1>1, <1>3, <1>4, <3>5, TakeCheckpointCompletes
    <3>6. CASE FinishCheckpoint  BY <1>1, <1>3, <1>4, <3>6, FinishCompletes
    <3> QED  BY <2>4, <3>1, <3>2, <3>3, <3>4, <3>5, <3>6 DEF StoreWrite
  <2>5. CASE Crash \/ Close  BY <1>1, <1>3, <1>4, <2>5, StopCompletes
  <2>6. CASE StartFresh  BY <1>1, <1>4, <2>6, StartFreshCompletes
  <2>7. ASSUME dHead # None, NEW c \in Latest(Number(dHead)), Restore(c)  PROVE Complete'
    BY <1>1, <1>3, <1>4, <2>7, RestoreCompletes
  <2>8. CASE RestoreFails
    <3>1. UNCHANGED <<blocks, machines, head, dBlocks, dHead, ckpts, todo>> /\ mode' = "failed"
      BY <2>8 DEF RestoreFails, vars, chainVars, diskVars, dbVars
    <3> QED  BY <3>1, <1>4, CompleteUnchanged
  <2> QED  BY <2>1, <2>2, <2>3, <2>4, <2>5, <2>6, <2>7, <2>8 DEF StoreStep
<1> QED  BY <1>5, <1>6

\* A set of numbers has a least one.
LEMMA LeastElement ==
    ASSUME NEW T, T \subseteq Nat, T # {}
    PROVE  \E x \in T : \A y \in T : x <= y
<1> DEFINE R == OpToRel(<, Nat)
<1>1. IsWellFoundedOn(R, Nat)  BY NatLessThanWellFounded
<1>2. \A x, y \in Nat : <<y, x>> \in R <=> y < x  BY DEF OpToRel
<1> HIDE DEF R
<1>3. \E x \in T : \A y \in T : ~(<<y, x>> \in R)  BY <1>1, WFMin
<1>4. PICK x \in T : \A y \in T : ~(<<y, x>> \in R)  BY <1>3
<1>5. \A y \in T : ~(y < x)  BY <1>2, <1>4
<1> QED  BY <1>5

\* Of the checkpoints at or below a height, one is the newest.
LEMMA NewestExists ==
    ASSUME NEW n \in Nat, NEW c0 \in ckpts, Number(c0.block) <= n,
           \A c \in ckpts : Number(c.block) \in Nat
    PROVE  Latest(n) # {}
<1> DEFINE below == {c \in ckpts : Number(c.block) <= n}
           T == {n - Number(c.block) : c \in below}
<1>1. T \subseteq Nat /\ T # {}
  <2>1. c0 \in below  OBVIOUS
  <2>2. \A c \in below : n - Number(c.block) \in Nat  OBVIOUS
  <2> QED  BY <2>1, <2>2
<1>2. PICK x \in T : \A y \in T : x <= y
  <2> HIDE DEF T
  <2> QED  BY <1>1, LeastElement
<1>3. PICK c \in below : x = n - Number(c.block)  OBVIOUS
<1>4. ASSUME NEW d \in below  PROVE Number(d.block) <= Number(c.block)
  <2>1. n - Number(d.block) \in T  OBVIOUS
  <2>2. x <= n - Number(d.block)  BY <1>2, <2>1
  <2> QED  BY <2>2, <1>3
<1>5. c \in Latest(n)  BY <1>4 DEF Latest
<1> QED  BY <1>5

\* With complete checkpoints of stored blocks, one of them at or below the
\* stored head, every check of Restore succeeds.
LEMMA CompleteRestores ==
    ASSUME StoreInv, Complete, faults = {}
    PROVE  Recoverable
<1> SUFFICES ASSUME dHead # None, ckpts # {} PROVE Latest(Number(dHead)) # {} /\ \A c \in Latest(Number(dHead)) : RestoreOk(c)
  BY DEF Recoverable
<1>1. dHead \in dBlocks /\ dHead \in Blocks /\ Number(dHead) \in Nat /\ dBlocks \subseteq Blocks
  BY NumbersAreNat DEF Complete, AncestryIsStored, StoreInv, StoreTypeOK
<1>2. \A c \in ckpts : c.block \in dBlocks /\ c.block \in Blocks /\ Number(c.block) \in Nat /\ c.full
  BY <1>1, NumbersAreNat DEF Complete, CheckpointsReachHead
<1>3. Latest(Number(dHead)) # {}
  <2>1. PICK c \in ckpts : Number(c.block) <= Number(dHead)
    BY DEF Complete, CheckpointsReachHead
  <2> QED  BY <2>1, <1>1, <1>2, NewestExists
<1>4. \A n \in 0 .. Number(dHead) : dCanonical[n] = Anc(dHead, n) /\ Anc(dHead, n) \in dBlocks
  <2>1. IsChain(dCanonical, Genesis, dHead)  BY DEF StoreInv, NoWriteFails, StoredAsWritten
  <2>2. Number(Genesis) = 0  BY <1>1, GenesisOnChain
  <2>3. 0 .. Number(dHead) \subseteq Heights  BY <1>1, HeightsBelow
  <2> QED  BY <2>1, <2>2, <2>3, <1>1 DEF IsChain, Complete, AncestryIsStored
<1>5. ASSUME NEW c \in Latest(Number(dHead))  PROVE RestoreOk(c)
  <2> DEFINE lo == Number(c.block)  hi == Number(dHead)  base == dCanonical[lo]
  <2>1. c \in ckpts /\ lo <= hi  BY DEF Latest
  <2>2. c.block \in dBlocks /\ c.block \in Blocks /\ lo \in Nat /\ c.full  BY <2>1, <1>2
  <2>3. Comparable(c.block, dHead)  BY <2>2, <1>1 DEF StoreInv, ExtendsInStep, StoredInStep
  <2>4. OnChainOf(c.block, dHead)  BY <2>1, <2>2, <2>3, <1>1, LowerOnChain
  <2>5. base = c.block /\ lo \in 0 .. hi
    BY <2>1, <2>2, <2>4, <1>1, <1>4 DEF OnChainOf, Number
  <2>6. \A n \in 0 .. Number(base) : Anc(base, n) \in dBlocks
    BY <2>2, <2>5 DEF Complete, AncestryIsStored
  <2>7. ASSUME NEW n \in Number(base) + 1 .. hi
        PROVE  dCanonical[n] \in dBlocks /\ Parent(dCanonical[n]) = dCanonical[n - 1]
    <3>1. n \in 0 .. hi /\ n - 1 \in 0 .. hi /\ n - 1 \in 0 .. n  BY <2>2, <2>5, <1>1
    <3>2. dCanonical[n] = Anc(dHead, n) /\ dCanonical[n - 1] = Anc(dHead, n - 1)
      BY <3>1, <1>4
    <3>3. Len(Anc(dHead, n)) = n  BY <3>1, <1>1, AncIsBlock DEF Number
    <3>4. Anc(Anc(dHead, n), n - 1) = Anc(dHead, n - 1)  BY <3>1, <1>1, AncThrough
    <3> QED  BY <3>1, <3>2, <3>3, <3>4, <1>4 DEF Parent
  <2> QED  BY <1>1, <2>2, <2>5, <2>6, <2>7 DEF RestoreOk
<1> QED  BY <1>3, <1>5

\* Without faults, and with pruning that keeps two checkpoints or more, a
\* restart would succeed wherever the process dies: Restore finds a complete
\* checkpoint of the stored chain and every block it replays.  With one kept
\* checkpoint it would not: the checkpoint of an imported block prunes that of
\* its parent before a forkchoice has moved the stored head.
THEOREM Recovers ==
    ASSUME CheckpointRetention >= 2
    PROVE  StoreSpec => []RecoverableWithoutFaults
<1>1. StoreInit => (Tame => RInv)
  <2>1. ASSUME StoreInit  PROVE Complete
    <3> USE <2>1 DEF StoreInit
    <3>1. IsFiniteSet(ckpts)  BY FS_EmptySet
    <3>2. Number(Genesis) = 0  BY GenesisOnChain, ChainAssumption
    <3>3. MemoryIsStored /\ AncestryIsStored  BY DEF MemoryIsStored, AncestryIsStored
    <3>4. CheckpointsReachHead  BY <3>1 DEF CheckpointsReachHead
    <3> QED  BY <3>2, <3>3, <3>4 DEF Complete, Init
  <2> QED  BY <2>1, InitStoreInv DEF RInv
<1>2. (Tame => RInv) /\ [StoreNext]_storeVars => (Tame => RInv)'
  <2>1. [StoreNext]_storeVars => (Tame' <=> Tame)
    BY DEF StoreNext, storeVars, Tame, NoWriteFails, ExtendsInStep
  <2> QED  BY <2>1, NextRInv
<1>3. (Tame => RInv) => RecoverableWithoutFaults
  <2>1. faults = {} => Tame  BY DEF Tame, NoWriteFails
  <2> QED  BY <2>1, CompleteRestores DEF RInv, RecoverableWithoutFaults
<1> QED  BY <1>1, <1>2, <1>3, PTL DEF StoreSpec
=============================================================================
