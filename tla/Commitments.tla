---------------------------- MODULE Commitments ----------------------------
(***************************************************************************)
(* What a block commits to beside its state: the outputs tree and the      *)
(* withdrawal trie carried from block to block (chain/chain.go,            *)
(* chain/outputs.go, chain/passertrie.go), rebuilt on a restart            *)
(* (chain/persist.go), and the indexes and proofs the node serves from     *)
(* them (chain/outputproof.go, chain/receipts.go).                         *)
(*                                                                         *)
(* The root of the withdrawal trie stands for the trie's contents.         *)
(***************************************************************************)
EXTENDS OutputTree, FiniteSets, SequencesExt

CONSTANTS Shapes,         \* what a block's inputs may emit: sequences, one per
                          \* transaction, of sequences of output kinds
          MaxBlocks       \* bound on the height of the chain

VARIABLES chain,     \* blocks 1, 2, ... as stored: [txs, tree, withdrawalsRoot]
          base,      \* the lowest block in memory: 0, or the checkpoint restored from
          trees,     \* Chain.trees, by block number
          passers    \* Chain.passers, by block number

vars == <<chain, base, trees, passers>>

-----------------------------------------------------------------------------
(* Outputs.                                                                *)

InputsIn(blocks) == FoldLeft(LAMBDA n, b : n + Len(b.txs), 0, blocks)

(* Wrong: every withdrawal of an input has the same nonce. *)
NonceOfInput(input, emitted) == <<input, 0>>

(* versionedWithdrawalNonce: the chain-wide input index and the position    *)
(* among the input's withdrawals.                                           *)
Nonce(input, emitted) ==
  <<input, Len(SelectSeq(emitted, LAMBDA kind : kind = "withdrawal"))>>

(* The outputs of one transaction.  Only a withdrawal carries a nonce. *)
Emitted(kinds, input) ==
  [i \in DOMAIN kinds |->
     [kind  |-> kinds[i],
      nonce |-> IF kinds[i] = "withdrawal" THEN Nonce(input, SubSeq(kinds, 1, i - 1)) ELSE << >>]]

EmittedIn(shape, first) == [i \in DOMAIN shape |-> Emitted(shape[i], first + i - 1)]

OutputsOf(blocks) == FlattenSeq([i \in DOMAIN blocks |-> FlattenSeq(blocks[i].txs)])

Leaves(outputs) == [i \in DOMAIN outputs |-> OutputLeaf(outputs[i])]

(* leavesThrough: every output from genesis on, from memory or the store. *)
LeavesThrough(blocks) == Leaves(OutputsOf(blocks))

WithdrawalHashes(outputs) == {outputs[i] : i \in {j \in DOMAIN outputs : outputs[j].kind = "withdrawal"}}

-----------------------------------------------------------------------------
(* Commitments.                                                            *)

GenesisPasser == [sent |-> {}, outputsRoot |-> Root(NewOutputTree)]

ExtendTree(tree, txs) == AppendLeaves(tree, Leaves(FlattenSeq(txs)))

ExtendPasser(passer, txs, tree) ==
  [sent |-> passer.sent \cup WithdrawalHashes(FlattenSeq(txs)), outputsRoot |-> Root(tree)]

(* Wrong: the block restored from is left out of the walk. *)
RebuildPasserWithoutBase(blocks, tree) ==
  [sent |-> WithdrawalHashes(OutputsOf(SubSeq(blocks, 1, Len(blocks) - 1))), outputsRoot |-> Root(tree)]

(* rebuildPasser: from the outputs stored for every block back to genesis. *)
RebuildPasser(blocks, tree) ==
  [sent |-> WithdrawalHashes(OutputsOf(blocks)), outputsRoot |-> Root(tree)]

StoredTree(n) == IF n = 0 THEN NewOutputTree ELSE chain[n].tree

StoredRoot(n) == IF n = 0 THEN GenesisPasser ELSE chain[n].withdrawalsRoot

InMemory(n) == n \in base..Len(chain)

(* A block built or imported on a block in memory; on another than the      *)
(* head it is a reorg.                                                      *)
AddBlock(parent, shape) ==
  LET txs    == EmittedIn(shape, InputsIn(SubSeq(chain, 1, parent)))
      tree   == ExtendTree(trees[parent], txs)
      passer == ExtendPasser(passers[parent], txs, tree)
      n      == parent + 1
  IN /\ InMemory(parent) /\ n <= MaxBlocks
     /\ chain' = Append(SubSeq(chain, 1, parent), [txs |-> txs, tree |-> tree, withdrawalsRoot |-> passer])
     /\ trees' = [i \in base..n |-> IF i = n THEN tree ELSE trees[i]]
     /\ passers' = [i \in base..n |-> IF i = n THEN passer ELSE passers[i]]
     /\ UNCHANGED base

(* Restore from a checkpoint at n: the accumulator is read, the withdrawal  *)
(* trie rebuilt and compared, and the blocks above replayed onto them.      *)
Restore(n) ==
  LET tree[i \in n..Len(chain)] ==
        IF i = n THEN StoredTree(n) ELSE ExtendTree(tree[i - 1], chain[i].txs)
      passer[i \in n..Len(chain)] ==
        IF i = n THEN RebuildPasser(SubSeq(chain, 1, n), StoredTree(n))
                 ELSE ExtendPasser(passer[i - 1], chain[i].txs, tree[i])
  IN /\ n \in 0..Len(chain)
     /\ \A i \in n..Len(chain) : passer[i] = StoredRoot(i)
     /\ base' = n
     /\ trees' = [i \in n..Len(chain) |-> tree[i]]
     /\ passers' = [i \in n..Len(chain) |-> passer[i]]
     /\ UNCHANGED chain

(* OutputProofAt: the proof of an index as of a block in memory is served   *)
(* only if it reproduces the block's root.                                  *)
Reproduces(index, leaves, tree) ==
  RootAfterReplacement(ProveOutput(leaves, index), index, leaves[index + 1]) = Root(tree)

CountOutputs(txs) == Len(FlattenSeq(txs))

(* TxEmissions and receiptsIn: the chain-wide index of a transaction's      *)
(* first output.                                                            *)
FirstOutputIndex(n, tx) ==
  trees[n].count - CountOutputs(chain[n].txs) + CountOutputs(SubSeq(chain[n].txs, 1, tx - 1))

Init ==
  /\ chain = << >> /\ base = 0
  /\ trees = [i \in {0} |-> NewOutputTree]
  /\ passers = [i \in {0} |-> GenesisPasser]

Next ==
  \/ \E parent \in 0..Len(chain), shape \in Shapes : AddBlock(parent, shape)
  \/ \E n \in 0..Len(chain) : Restore(n)

Spec == Init /\ [][Next]_vars

-----------------------------------------------------------------------------
(* Properties.                                                             *)

(* The frontier carried from block to block, through reorgs and restarts,   *)
(* has the root of the full zero-padded tree over every output since        *)
(* genesis (outputtree.go insert, Root).                                    *)
RootIsReference ==
  \A n \in base..Len(chain) : Root(trees[n]) = ReferenceRoot(LeavesThrough(SubSeq(chain, 1, n)))

(* Every output stays provable against every later block in memory, at the  *)
(* index that receipts and cartesi_getTransactionEmissions report for it    *)
(* (receipts.go:162): the check in OutputProofAt that a built proof         *)
(* reproduces the root never fails (outputproof.go:137).                    *)
OutputsStayProvable ==
  \A n \in base..Len(chain) :
    LET outputs == OutputsOf(SubSeq(chain, 1, n))
        leaves  == LeavesThrough(SubSeq(chain, 1, n))
    IN /\ \A i \in 0..(Len(leaves) - 1) : Reproduces(i, leaves, trees[n])
       /\ n > base => \A tx \in DOMAIN chain[n].txs : \A i \in DOMAIN chain[n].txs[tx] :
            LET at == FirstOutputIndex(n, tx) + i
            IN at \in DOMAIN outputs /\ outputs[at] = chain[n].txs[tx][i]

(* The withdrawal trie can be rebuilt from the stored outputs at every      *)
(* block, so a restart is never refused for it (passertrie.go:230).         *)
CommitmentsRebuild ==
  \A n \in 0..Len(chain) : RebuildPasser(SubSeq(chain, 1, n), StoredTree(n)) = StoredRoot(n)

(* No two withdrawals of the chain share a hash, so the portal, which pays  *)
(* once per hash, can pay each (router.ts:123).                             *)
WithdrawalsAreDistinct ==
  LET out == OutputsOf(chain) IN
  \A i, j \in DOMAIN out : out[i].kind = "withdrawal" /\ out[i] = out[j] => i = j
=============================================================================
