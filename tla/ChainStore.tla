----------------------------- MODULE ChainStore -----------------------------
(***************************************************************************)
(* Chain with its durable half (chain/store.go, chain/persist.go): the     *)
(* pebble database, the machine checkpoint directories, crashes, and the   *)
(* restart that loads a checkpoint and replays the stored blocks after it. *)
(*                                                                         *)
(* A handler changes memory under Chain.mu and writes to disk before it    *)
(* releases it.  Its memory change is one step and its writes follow one   *)
(* at a time (todo): nothing else runs until they are done, but the        *)
(* process may die between any two.  Each rawdb batch is one write.        *)
(*                                                                         *)
(* Payloads under construction touch nothing durable and are left out.     *)
(***************************************************************************)
EXTENDS Chain, FiniteSets

CONSTANTS CheckpointInterval,   \* cfg.CheckpointInterval, after withDefaults
          CheckpointRetention,  \* cfg.CheckpointRetention, after withDefaults
          FaultSets             \* the sets of things that may go wrong in a behaviour

ASSUME StoreAssumption ==
    /\ CheckpointInterval \in Nat \ {0}
    /\ CheckpointRetention \in Nat \ {0}
    /\ FaultSets \subseteq SUBSET {"reorg", "partial store", "write error"}

VARIABLES mode,        \* "down", "up", or "failed": Restore returned an error
          todo,        \* writes the current handler has still to make
          dBlocks,     \* blocks in the database, each with its records
          dCanonical,  \* number -> hash
          dHead, dSafe, dFinalized,
          ckpts,       \* checkpoint directories; full: Store ran to its end
          faults,      \* what may go wrong in this behaviour
          declared     \* history: the block op-node last named as finalized

dbVars == <<dBlocks, dCanonical, dHead, dSafe, dFinalized>>
diskVars == <<dbVars, ckpts>>
storeVars == <<vars, mode, todo, diskVars, declared, faults>>

Checkpoint == [block : Blocks, full : BOOLEAN]
Write == [op : {"PutBlock", "Checkpoint", "FinishCheckpoint", "SetCanonical",
                "SetHeads", "CheckpointIfFinalized", "CheckpointGenesis"},
          block : Blocks]

W(op, b) == [op |-> op, block |-> b]

StoreInit ==
    /\ Init
    /\ mode = "down"
    /\ todo = << >>
    /\ dBlocks = {}
    /\ dCanonical = [n \in Heights |-> None]
    /\ dHead = None /\ dSafe = None /\ dFinalized = None
    /\ ckpts = {}
    /\ declared = Genesis
    /\ faults \in FaultSets

(***************************************************************************)
(* Handlers.  Memory changes now; the writes are queued.                   *)
(***************************************************************************)
Idle == mode = "up" /\ todo = << >>

\* Wrong: any stored block passes for canonical.
StoredAtAll == dBlocks

\* isCanonical for a block that is not in memory.
StoredCanonical == {b \in dBlocks : dCanonical[Number(b)] = b}

\* commitAndPersist: PutBlock, then a checkpoint when the height is due.
StoreImport(b) ==
    /\ Idle
    /\ ImportReplay(b)
    /\ todo' = IF Number(b) % CheckpointInterval = 0
               THEN <<W("PutBlock", b), W("Checkpoint", b)>>
               ELSE <<W("PutBlock", b)>>
    /\ UNCHANGED <<mode, diskVars, declared>>

StoreForkchoice(h, s, f) ==
    /\ Idle
    /\ ForkchoiceOnly(h, s, f, StoredCanonical)
    /\ todo' = <<W("SetCanonical", h), W("SetHeads", h), W("CheckpointIfFinalized", h)>>
    /\ declared' = Moved(declared, f)
    /\ UNCHANGED <<mode, diskVars>>

\* An InvalidForkChoiceState return reaches no write.
StoreForkchoiceInvalid(h, s, f) ==
    /\ Idle
    /\ ForkchoiceInvalid(h, s, f, StoredCanonical)
    /\ UNCHANGED <<mode, todo, diskVars, declared>>

(***************************************************************************)
(* Checkpoint directories.                                                 *)
(***************************************************************************)
\* LatestCheckpoint: the newest directory at or below n.  Two directories of
\* one height (a reorg) come in the order of their hashes, which is arbitrary.
Latest(n) ==
    LET below == {c \in ckpts : Number(c.block) <= n}
    IN  {c \in below : \A d \in below : Number(d.block) <= Number(c.block)}

\* Wrong: one checkpoint too few.
KeptOneFewer(cs, keep) ==
    {k \in SUBSET cs :
        /\ Cardinality(k) = IF Cardinality(cs) < keep THEN Cardinality(cs) ELSE keep - 1
        /\ \A c \in k, d \in cs \ k : Number(d.block) <= Number(c.block)}

\* PruneCheckpoints keeps the newest by height, whatever chain they are of.
Kept(cs, keep) ==
    IF Cardinality(cs) <= keep THEN {cs}
    ELSE {k \in SUBSET cs :
            /\ Cardinality(k) = keep
            /\ \A c \in k, d \in cs \ k : Number(d.block) <= Number(c.block)}

HasDir(b) == \E c \in ckpts : c.block = b

\* checkpoint is skipped when the block has no machine or its directory
\* exists already.  A partial directory is what a crash inside Store leaves;
\* a Store that returns an error removes it again.
CanCheckpoint(b) == b \in Snapshots /\ ~HasDir(b)

StartCheckpoint(b) ==
    /\ ckpts' = IF "partial store" \in faults
                THEN ckpts \cup {[block |-> b, full |-> FALSE]}
                ELSE ckpts
    /\ todo' = <<W("FinishCheckpoint", b)>> \o Tail(todo)

(***************************************************************************)
(* The writes, each one step.                                              *)
(***************************************************************************)
Doing(op) == mode = "up" /\ todo # << >> /\ Head(todo).op = op

Subject == Head(todo).block

PutBlock ==
    /\ Doing("PutBlock")
    /\ dBlocks' = dBlocks \cup {Subject}
    /\ todo' = Tail(todo)
    /\ UNCHANGED <<vars, mode, dCanonical, dHead, dSafe, dFinalized, ckpts, declared>>

\* Wrong: stale numbers above the new head are not deleted.
SetCanonicalKeepsAbove ==
    LET h == Subject
    IN  /\ Doing("SetCanonical")
        /\ dCanonical' = [n \in Heights |->
              IF n <= Number(h) /\ Rewrites(dCanonical, h, n) THEN Anc(h, n) ELSE dCanonical[n]]
        /\ dHead' = h
        /\ todo' = Tail(todo)
        /\ UNCHANGED <<vars, mode, dBlocks, dSafe, dFinalized, ckpts, declared>>

SetCanonical ==
    LET h == Subject
        deleted(n) == \A k \in Number(h) + 1 .. n : dCanonical[k] # None
    IN  /\ Doing("SetCanonical")
        /\ dCanonical' = [n \in Heights |->
              IF n > Number(h) THEN IF deleted(n) THEN None ELSE dCanonical[n]
              ELSE IF Rewrites(dCanonical, h, n) THEN Anc(h, n) ELSE dCanonical[n]]
        /\ dHead' = h
        /\ todo' = Tail(todo)
        /\ UNCHANGED <<vars, mode, dBlocks, dSafe, dFinalized, ckpts, declared>>

WriteHeads ==
    /\ dHead' = head
    /\ dSafe' = safe
    /\ dFinalized' = finalized

SetHeads ==
    /\ Doing("SetHeads")
    /\ WriteHeads
    /\ todo' = Tail(todo)
    /\ UNCHANGED <<vars, mode, dBlocks, dCanonical, ckpts, declared>>

CheckpointIfFinalized ==
    LET due == /\ finalized \in blocks
               /\ Number(finalized) > 0
               /\ \A c \in Latest(Number(finalized)) : Number(c.block) < Number(finalized)
    IN  /\ Doing("CheckpointIfFinalized")
        /\ todo' = IF due THEN <<W("Checkpoint", finalized)>> ELSE << >>
        /\ UNCHANGED <<vars, mode, diskVars, declared>>

TakeCheckpoint ==
    /\ Doing("Checkpoint") \/ Doing("CheckpointGenesis")
    /\ IF CanCheckpoint(Subject)
       THEN StartCheckpoint(Subject)
       ELSE ckpts' = ckpts /\ todo' = Tail(todo)
    /\ UNCHANGED <<vars, mode, dbVars, declared>>

\* Only checkpointGenesis does not prune.
FinishCheckpoint ==
    LET done == (ckpts \ {[block |-> Subject, full |-> FALSE]})
                    \cup {[block |-> Subject, full |-> TRUE]}
    IN  /\ Doing("FinishCheckpoint")
        /\ IF Subject = Genesis
           THEN ckpts' = done
           ELSE ckpts' \in Kept(done, CheckpointRetention)
        /\ todo' = Tail(todo)
        /\ UNCHANGED <<vars, mode, dbVars, declared>>

\* A write that fails is logged.  PutBlock then takes no checkpoint,
\* SetCanonical skips SetHeads, and a failed Store removes its directory.
\* Inside Adopt a failed database write ends the process, which is Crash.
WriteFails ==
    /\ "write error" \in faults
    /\ \/ Doing("PutBlock") /\ Subject # Genesis /\ todo' = << >> /\ ckpts' = ckpts
       \/ /\ Doing("SetCanonical") /\ Head(Tail(todo)).op = "SetHeads"
          /\ todo' = Tail(Tail(todo)) /\ ckpts' = ckpts
       \/ Doing("SetHeads") /\ todo' = Tail(todo) /\ ckpts' = ckpts
       \/ /\ Doing("FinishCheckpoint") /\ todo' = Tail(todo)
          /\ ckpts' = ckpts \ {[block |-> Subject, full |-> FALSE]}
    /\ UNCHANGED <<vars, mode, dbVars, declared>>

(***************************************************************************)
(* Stopping and starting.                                                  *)
(***************************************************************************)
MemoryLost ==
    /\ blocks' = {Genesis}
    /\ canonical' = [n \in Heights |-> IF n = 0 THEN Genesis ELSE None]
    /\ machines' = GenesisMachine
    /\ pending' = {}
    /\ head' = Genesis /\ safe' = Genesis /\ finalized' = Genesis
    /\ highest' = 0

Crash ==
    /\ mode # "down"
    /\ MemoryLost
    /\ mode' = "down"
    /\ todo' = << >>
    /\ UNCHANGED <<diskVars, declared>>

\* Close: a last SetHeads, and the process ends.
Close ==
    /\ Idle
    /\ WriteHeads
    /\ MemoryLost
    /\ mode' = "down"
    /\ UNCHANGED <<todo, dBlocks, dCanonical, ckpts, declared>>

\* New on an empty store, then Adopt.
StartFresh ==
    /\ mode = "down" /\ dHead = None
    /\ mode' = "up"
    /\ todo' = <<W("PutBlock", Genesis), W("SetCanonical", Genesis), W("CheckpointGenesis", Genesis)>>
    /\ UNCHANGED <<vars, diskVars, declared>>

\* Wrong: the loaded machine's root hash is not compared with the block's.
RestoreOkAnyRoot(c) ==
    LET base == dCanonical[Number(c.block)]
    IN  /\ dHead \in dBlocks
        /\ base \in dBlocks
        /\ \A n \in 0 .. Number(base) : Anc(base, n) \in dBlocks
        /\ \A n \in Number(base) + 1 .. Number(dHead) :
              dCanonical[n] \in dBlocks /\ Parent(dCanonical[n]) = dCanonical[n - 1]

\* Every check Restore makes before it serves: the head is stored, the
\* checkpoint loads to the state root of the canonical block at its height,
\* that block's lineage is stored (rebuildPasser), and each canonical block
\* after it is stored and replays on top of the one before (replayStored).
RestoreOk(c) ==
    LET base == dCanonical[Number(c.block)]
    IN  /\ dHead \in dBlocks
        /\ base \in dBlocks
        /\ c.full /\ c.block = base
        /\ \A n \in 0 .. Number(base) : Anc(base, n) \in dBlocks
        /\ \A n \in Number(base) + 1 .. Number(dHead) :
              dCanonical[n] \in dBlocks /\ Parent(dCanonical[n]) = dCanonical[n - 1]

\* The loaded machine and each one replayed on it was just found to reach what
\* its block's header claims.
Restore(c) ==
    LET lo == Number(c.block)
        hi == Number(dHead)
        base == dCanonical[lo]
        served == {dCanonical[n] : n \in lo .. hi}
    IN  /\ mode = "down" /\ dHead # None
        /\ RestoreOk(c)
        /\ mode' = "up"
        /\ blocks' = served
        /\ canonical' = [n \in Heights |-> IF n \in lo .. hi THEN dCanonical[n] ELSE None]
        /\ head' = dCanonical[hi]
        /\ safe' = IF dSafe \in served THEN dSafe ELSE base
        /\ finalized' = IF dFinalized \in served THEN dFinalized ELSE base
        /\ machines' = [b \in Retained(served, head', safe', finalized') |-> Claimed[b]]
        /\ pending' = {}
        /\ highest' = hi
        /\ UNCHANGED <<todo, diskVars, declared>>

RestoreFails ==
    /\ mode = "down" /\ dHead # None
    /\ \/ Latest(Number(dHead)) = {}
       \/ \E c \in Latest(Number(dHead)) : ~RestoreOk(c)
    /\ mode' = "failed"
    /\ UNCHANGED <<vars, todo, diskVars, declared>>

StoreWrite ==
    \/ PutBlock
    \/ SetCanonical
    \/ SetHeads
    \/ CheckpointIfFinalized
    \/ TakeCheckpoint
    \/ FinishCheckpoint
    \/ WriteFails

StoreStep ==
    \/ \E b \in Blocks : StoreImport(b)
    \/ \E h \in blocks, s \in Hashes, f \in Hashes :
          StoreForkchoice(h, s, f) \/ StoreForkchoiceInvalid(h, s, f)
    \/ StoreWrite
    \/ Crash
    \/ Close
    \/ StartFresh
    \/ dHead # None /\ \E c \in Latest(Number(dHead)) : Restore(c)
    \/ RestoreFails

\* op-node extending one chain in step: each payload it imports is a child of
\* the head and of the one chain it has ever sent, and head and finality only
\* move up the chain.
InStep ==
    mode = "up" /\ mode' = "up" =>
        /\ OnChainOf(head, head')
        /\ OnChainOf(declared, declared')
        /\ \A b \in blocks' \ blocks :
              Parent(b) = head /\ \A d \in dBlocks : OnChainOf(d, b) \/ OnChainOf(b, d)

\* Without reorgs op-node is in step.
StoreNext ==
    /\ StoreStep
    /\ "reorg" \in faults \/ InStep
    /\ UNCHANGED faults

StoreSpec == StoreInit /\ [][StoreNext]_storeVars

\* Whenever the process dies, unless a write has failed, the stored head's
\* whole ancestry is the stored canonical chain and nothing is recorded above
\* it (the reason chain.go gives for writing the canonical mapping before the
\* head pointer).
HeadAncestryIsDurable ==
    dHead # None /\ "write error" \notin faults =>
        \A n \in Heights :
            dCanonical[n] = IF n <= Number(dHead) THEN Anc(dHead, n) ELSE None

\* A restart that succeeds serves exactly the stored head, on the stored
\* chain, from a complete checkpoint of the lowest block it serves and with a
\* machine for every block of the window: never a wrong chain or state.
RestoreServesStoredChain ==
    [][mode = "down" /\ mode' = "up" /\ dHead # None =>
         /\ head' = dHead
         /\ \A b \in blocks' : OnChainOf(b, dHead) /\ b \in dBlocks
         /\ \A b \in blocks' : Number(b) + MaxSnapshots >= Number(dHead) => b \in Snapshots'
         /\ \E c \in Latest(Number(dHead)) :
               /\ c.full /\ c.block \in blocks'
               /\ \A b \in blocks' : Number(c.block) <= Number(b)]_storeVars

\* A finalized pointer the node takes over from op-node is an ancestor of the
\* head it is taken with, also when the block is below the restored base and
\* the store, not memory, answers for it.
FinalizedIsAncestor ==
    [][mode = "up" /\ mode' = "up" /\ finalized' # finalized => OnChainOf(finalized', head')]_storeVars

\* Once the first checkpoint exists, a restart would succeed: README, "The
\* chain survives a restart".
Recoverable ==
    dHead # None /\ ckpts # {} =>
        /\ Latest(Number(dHead)) # {}
        /\ \A c \in Latest(Number(dHead)) : RestoreOk(c)

\* Recoverable wherever the process dies, if op-node extends one chain in
\* step, no store is cut short and no write fails.
RecoverableWithoutFaults == faults = {} => Recoverable
=============================================================================
