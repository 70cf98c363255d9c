----------------------------- MODULE Settlement -----------------------------
(***************************************************************************)
(* From an output the chain emitted to its execution on L1: op-proposer's  *)
(* proposals, the validator that opens one and the executor that runs an   *)
(* output (contracts/src/*.sol), and OptimismPortal, which pays            *)
(* withdrawals.                                                            *)
(*                                                                         *)
(* An outputs root stands for the outputs under it: that the root of a     *)
(* block's tree is the root over its outputs, and that a proof against it  *)
(* folds back to it, is the subject of Commitments.  So a proof of an      *)
(* index and an output is good for exactly the roots with that output at   *)
(* that index.  A trie root stands for the trie's contents, a machine root *)
(* for the outputs of the blocks executed, a claim for its preimage.       *)
(***************************************************************************)
EXTENDS Integers, Sequences, FiniteSets

CONSTANTS Emissions,      \* what a block may emit: sequences of output kinds
          MaxBlocks,      \* bound on the height of the chain
          MaxWrong,       \* bound on the wrong claims proposed
          MaturityDelay   \* maturityDelay, in ticks of the L1 clock

Kind == {"voucher", "notice", "withdrawal", "other"}

ASSUME EmissionsAssumption ==
  /\ Emissions \subseteq Seq(Kind)
  /\ MaturityDelay \in Nat

VARIABLES chain,     \* of blocks 1, 2, ... the outputs through that block: Chain.trees
          base,      \* the lowest block the node holds in memory
          safe,      \* op-node's safe block: it is not reorged
          strict,    \* requireDefenderWins
          games,     \* the dispute games of the factory
          accepted,  \* acceptedAtL2Block
          last,      \* lastFinalizedL2Block and lastFinalizedMachineRoot
          executed,  \* OutputExecutor.executed
          opened,    \* history: the index and bytes of every output executed
          paid       \* history: how often each payment was made on L1

nodeVars == <<chain, base, safe>>
l1Vars == <<games, accepted, last, executed, opened, paid>>
vars == <<nodeVars, strict, l1Vars>>

(* A withdrawal is told from any other by its nonce, here the block that    *)
(* emitted it.                                                              *)
Emit(kinds, n) ==
  [i \in DOMAIN kinds |-> [kind  |-> kinds[i],
                          nonce |-> IF kinds[i] = "withdrawal" THEN <<n, i>> ELSE << >>]]

OutputsThrough(blocks, n) == IF n = 0 THEN << >> ELSE blocks[n]

(* The chain to block n, and a block on it that emits kinds. *)
Extended(n, kinds) ==
  Append(SubSeq(chain, 1, n), OutputsThrough(chain, n) \o Emit(kinds, n + 1))

Withdrawals(outputs) == {outputs[i] : i \in {j \in DOMAIN outputs : outputs[j].kind = "withdrawal"}}

(* A block on any block in memory that is not below the safe one. *)
AddBlock(parent, kinds) ==
  /\ parent \in base..Len(chain) /\ parent >= safe /\ parent < MaxBlocks
  /\ chain' = Extended(parent, kinds)
  /\ UNCHANGED <<base, safe, strict, l1Vars>>

AdvanceSafe ==
  /\ safe < Len(chain)
  /\ safe' = safe + 1
  /\ UNCHANGED <<chain, base, strict, l1Vars>>

(* A restart leaves in memory the blocks from a checkpoint on. *)
Restart(n) ==
  /\ n \in (base + 1)..Len(chain)
  /\ base' = n
  /\ UNCHANGED <<chain, safe, strict, l1Vars>>

(* Wrong: the last output is out of range. *)
ServedButLast(index, n) == n \in base..Len(chain) /\ index + 1 < Len(OutputsThrough(chain, n))

(* OutputProofAt answers for a block in memory and an index below its count. *)
Served(index, n) == n \in base..Len(chain) /\ index < Len(OutputsThrough(chain, n))

-----------------------------------------------------------------------------
(* L1.                                                                     *)

IN_PROGRESS == 0
CHALLENGER_WINS == 1
DEFENDER_WINS == 2

(* What the output root of a chain's last block commits to. *)
Claim(blocks) ==
  LET outputs == OutputsThrough(blocks, Len(blocks)) IN
  [stateRoot |-> blocks,
   messagePasserStorageRoot |-> [sent |-> Withdrawals(outputs), outputsRoot |-> outputs]]

Game(type, blocks, honest) ==
  [gameType |-> type, l2BlockNumber |-> Len(blocks), rootClaim |-> Claim(blocks),
   honest |-> honest, status |-> IN_PROGRESS, age |-> 0]

(* The outputs under the root a game's claim opens to. *)
OutputsOf(game) == game.rootClaim.messagePasserStorageRoot.outputsRoot

Wrong == {g \in DOMAIN games : ~games[g].honest}

(* op-proposer: a safe block above the last proposed one, or above genesis, *)
(* the anchor at or below which a game cannot be made.                      *)
Propose(n) ==
  /\ n \in 1..safe
  /\ \A g \in DOMAIN games \ Wrong : games[g].l2BlockNumber < n
  /\ games' = Append(games, Game("ours", SubSeq(chain, 1, n), TRUE))
  /\ UNCHANGED <<nodeVars, strict, accepted, last, executed, opened, paid>>

(* A claim for a block the chain does not have.  Without                    *)
(* requireDefenderWins the games of the chain's type are made by an         *)
(* authorised proposer, so only one of another type is wrong.               *)
ProposeWrong(n, type, kinds) ==
  /\ type = "ours" => strict
  /\ n \in 1..safe /\ Extended(n - 1, kinds) # SubSeq(chain, 1, n)
  /\ Cardinality(Wrong) < MaxWrong
  /\ games' = Append(games, Game(type, Extended(n - 1, kinds), FALSE))
  /\ UNCHANGED <<nodeVars, strict, accepted, last, executed, opened, paid>>

(* A game is decided for the true claim. *)
Resolve(g) ==
  /\ games[g].status = IN_PROGRESS
  /\ games' = [games EXCEPT ![g].status = IF games[g].honest THEN DEFENDER_WINS ELSE CHALLENGER_WINS]
  /\ UNCHANGED <<nodeVars, strict, accepted, last, executed, opened, paid>>

Aged(game) == [game EXCEPT !.age = IF @ < MaturityDelay THEN @ + 1 ELSE @]

Tick ==
  /\ \E g \in DOMAIN games : games[g].age < MaturityDelay
  /\ games' = [g \in DOMAIN games |-> Aged(games[g])]
  /\ UNCHANGED <<nodeVars, strict, accepted, last, executed, opened, paid>>

(* The checks accept makes of a game. *)
Admissible(game) ==
  /\ game.gameType = "ours"
  /\ game.status # CHALLENGER_WINS
  /\ strict => game.status = DEFENDER_WINS
  /\ game.age >= MaturityDelay

AcceptedAt(root) == IF root \in DOMAIN accepted THEN accepted[root] ELSE 0

FinalizedAfter(game, proof) ==
  IF game.l2BlockNumber > last.l2Block
  THEN [l2Block |-> game.l2BlockNumber, machineRoot |-> proof.stateRoot]
  ELSE last

(* OPOutputsMerkleRootValidator.accept, with any proof somebody might bring. *)
Accept(g, proof) ==
  LET game == games[g]
      root == proof.messagePasserStorageRoot.outputsRoot
      at   == IF game.l2BlockNumber > AcceptedAt(root) THEN game.l2BlockNumber ELSE AcceptedAt(root)
  IN /\ Admissible(game)
     /\ proof = game.rootClaim
     /\ accepted' = [r \in DOMAIN accepted \cup {root} |-> IF r = root THEN at ELSE accepted[r]]
     /\ last' = FinalizedAfter(game, proof)
     /\ UNCHANGED <<nodeVars, strict, games, executed, opened, paid>>

(* The executor the validator was made for. *)
AppContract == "executor"

IsOutputsMerkleRootValid(appContract_, root) == appContract_ = AppContract /\ AcceptedAt(root) # 0

TimesPaid(e) == IF e \in DOMAIN paid THEN paid[e] ELSE 0

(* the payments p and one more *)
And(p, e) == [x \in DOMAIN p \cup {e} |-> IF x # e THEN p[x] ELSE IF e \in DOMAIN p THEN p[e] + 1 ELSE 1]

Calls(output) == output.kind = "voucher"

(* A voucher's call may fail, and then nothing happened; an output that is  *)
(* neither a voucher nor a notice is refused.                               *)
Runs(output) == output.kind \in {"voucher", "notice", "withdrawal"}

(* Wrong: the root the proof gives is not looked up. *)
ValidatesAnyRoot(outputs, index, output) == outputs[index + 1] = output

(* validateOutput: a proof reproduces the root of the outputs it was made   *)
(* from if the output is the one at its index.                              *)
Validates(outputs, index, output) ==
  /\ IsOutputsMerkleRootValid("executor", outputs)
  /\ outputs[index + 1] = output

(* the outputs there are to be executed *)
Known == UNION {{OutputsOf(games[g])[i] : i \in DOMAIN OutputsOf(games[g])} : g \in DOMAIN games}

(* the indexes there are to be executed from a game's block *)
Indexes(g) == 0..(Len(OutputsOf(games[g])) - 1)

(* The checks OutputExecutor.executeOutput makes of a proof against a       *)
(* game's block, with the indexes flagged so far: the node serves the proof *)
(* for a block it holds, whoever made a wrong claim makes its own.          *)
Executable(flagged, g, index, output) ==
  LET outputs == OutputsOf(games[g])
  IN /\ index < Len(outputs)
     /\ games[g].honest => Served(index, games[g].l2BlockNumber)
     /\ Validates(outputs, index, output)
     /\ index \notin flagged
     /\ Runs(output)

Called(p, index, output) == IF Calls(output) THEN And(p, <<"executor", index>>) ELSE p

ExecuteOutput(g, index, output) ==
  /\ Executable(executed, g, index, output)
  /\ executed' = executed \cup {index}
  /\ opened' = opened \cup {<<index, output>>}
  /\ paid' = Called(paid, index, output)
  /\ UNCHANGED <<nodeVars, strict, games, accepted, last>>

(* Wrong: an index is flagged once its call has returned. *)
FlaggedAfterCall(index) == executed

(* What is flagged while a voucher is being called. *)
FlaggedInCall(index) == executed \cup {index}

(* The contract a voucher calls calls executeOutput in turn, before the     *)
(* call returns.                                                            *)
ExecuteWithin(g, index, output) ==
  /\ Executable(executed, g, index, output) /\ Calls(output)
  /\ \E h \in DOMAIN games, nested \in Known :
       \E inner \in Indexes(h) :
         /\ Executable(FlaggedInCall(index), h, inner, nested)
         /\ executed' = executed \cup {index, inner}
         /\ opened' = opened \cup {<<index, output>>, <<inner, nested>>}
         /\ paid' = Called(Called(paid, index, output), inner, nested)
  /\ UNCHANGED <<nodeVars, strict, games, accepted, last>>

(* OptimismPortal: a withdrawal whose slot is set in the trie a resolved    *)
(* game claims is paid, once per hash.                                      *)
FinalizeWithdrawal(g, w) ==
  /\ games[g].status = DEFENDER_WINS
  /\ games[g].honest => games[g].l2BlockNumber >= base
  /\ w \in games[g].rootClaim.messagePasserStorageRoot.sent
  /\ TimesPaid(<<"portal", w>>) = 0
  /\ paid' = And(paid, <<"portal", w>>)
  /\ UNCHANGED <<nodeVars, strict, games, accepted, last, executed, opened>>

Init ==
  /\ chain = << >> /\ base = 0 /\ safe = 0
  /\ strict \in BOOLEAN
  /\ games = << >>
  /\ accepted = << >>
  /\ last = [l2Block |-> 0, machineRoot |-> << >>]
  /\ executed = {} /\ opened = {}
  /\ paid = << >>

Execute ==
  \E g \in DOMAIN games, output \in Known :
    \E index \in Indexes(g) : ExecuteOutput(g, index, output)

ExecuteTwo ==
  \E g \in DOMAIN games, output \in Known :
    \E index \in Indexes(g) : ExecuteWithin(g, index, output)

Finalize ==
  \E g \in DOMAIN games :
    \E w \in games[g].rootClaim.messagePasserStorageRoot.sent : FinalizeWithdrawal(g, w)

Next ==
  \/ \E parent \in 0..Len(chain), kinds \in Emissions : AddBlock(parent, kinds)
  \/ AdvanceSafe
  \/ \E n \in 1..Len(chain) : Restart(n)
  \/ \E n \in 1..safe : Propose(n)
  \/ \E n \in 1..safe, type \in {"ours", "other"}, kinds \in Emissions : ProposeWrong(n, type, kinds)
  \/ \E g \in DOMAIN games : Resolve(g)
  \/ Tick
  \/ \E g, h \in DOMAIN games : Accept(g, games[h].rootClaim)
  \/ Execute
  \/ ExecuteTwo
  \/ Finalize

Spec == Init /\ [][Next]_vars

(* Derivation, the proposer, the dispute game, the L1 clock and whoever     *)
(* opens the games, executes the outputs and claims withdrawals: as long as *)
(* one of them has something to do, something is done.                      *)
Progress ==
  \/ AdvanceSafe
  \/ \E n \in 1..safe : Propose(n)
  \/ \E g \in DOMAIN games : Resolve(g)
  \/ Tick
  \/ \E g \in DOMAIN games : Accept(g, games[g].rootClaim)
  \/ Execute
  \/ Finalize

FairSpec == Spec /\ WF_vars(Progress)

-----------------------------------------------------------------------------
(* Properties.                                                             *)

Canonical == OutputsThrough(chain, Len(chain))

(* L1 acts on the chain's own outputs and reports its state, though wrong   *)
(* claims are proposed beside the true ones and accepted in any order: what *)
(* ran is what the chain emitted at that index, and the machine root is     *)
(* that of the highest accepted block (OPOutputsMerkleRootValidator.sol:163, *)
(* OutputExecutor.validateOutput).                                          *)
L1FollowsTheChain ==
  /\ \A x \in opened : x[1] < Len(Canonical) /\ Canonical[x[1] + 1] = x[2]
  /\ \A r \in DOMAIN accepted : accepted[r] <= last.l2Block
  /\ last.machineRoot = SubSeq(chain, 1, last.l2Block)

(* No output is paid for twice, by the executor, the portal or both, though *)
(* what a voucher calls executes outputs itself (OutputExecutor.sol:57): a  *)
(* withdrawal in the outputs tree is a notice there (withdrawal.go:20).     *)
PaidOnce ==
  \A i \in DOMAIN Canonical :
    TimesPaid(<<"executor", i - 1>>) + TimesPaid(<<"portal", Canonical[i]>>) <= 1

(* Every voucher and notice of a safe block is executed and every           *)
(* withdrawal also paid in the end, whatever wrong claims are made beside   *)
(* the true ones and also when a restart has taken from memory the blocks   *)
(* that were proposed (outputproof.go:112): time and again the L1 has       *)
(* caught up with the safe chain.                                           *)
Settled ==
  \A i \in DOMAIN OutputsThrough(chain, safe) :
    /\ Runs(Canonical[i]) => i - 1 \in executed
    /\ Canonical[i].kind = "withdrawal" => TimesPaid(<<"portal", Canonical[i]>>) > 0

SafeOutputsSettle == []<>Settled
=============================================================================
