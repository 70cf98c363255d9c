# Verification of op-cartesi

op-cartesi is an OP Stack L2 whose execution engine is a Cartesi Machine. A Go
shim speaks the Engine API to op-node and drives the machine; a TypeScript guest
inside the machine keeps balances and bridges; contracts on L1 open proposals and
execute outputs. This directory holds TLA+ models of these parts, TLC
configurations that check them on small instances, and TLAPS proofs, for all
instances, of theorems about block handling, execution, crashes and restarts, the
mempool, the accounts table, settlement on L1 and the bring-up.

`PROJECT.json` maps every definition to the source lines it models.

## The system

| Part | State | Operations | What makes it hard |
| --- | --- | --- | --- |
| chain (`chain/chain.go`) | block tree, canonical map, machine snapshots, pending payloads, head/safe/finalized | forkchoiceUpdated, getPayload, newPayload | reorgs, side branches, refused calls, a retention window |
| execution (`chain/chain.go`, `chain/dalimit.go`) | the machine, its forks, gas and bytes used | applyBuild, replayImport | two loops that must agree; machine faults; limits changing during a build |
| store (`chain/persist.go`, `chain/store.go`) | database, checkpoint directories | persist, checkpoint, prune, Restore, Adopt, Close | crashes between and inside writes, failed writes |
| commitments (`chain/outputtree.go`, `outputproof.go`, `passertrie.go`) | frontier and withdrawal trie per block | extend, prove, rebuild | off-by-one arithmetic on bits; restarts |
| mempool (`mempool/mempool.go`) | queue and two indexes | Add, Pending, Forget, Get | two mutexes, a nonce read outside the lock, replacement |
| guest (`app/src`) | ledger, journal, caches, contract memory, manifest | boot and registration; one input at a time: deposits, transactions, calls, simulations | partial failure inside an input, rollback to marks, caches beside the journal, boots cut short |
| accounts drive (`accounts-drive`) | regions of bytes: a header, a token registry, robin-hood tables | format, open, register, get, set, remove | placement arithmetic, wrap-around, shifting, the load limit |
| ABI drive (`abi-drive`) | header, index and heap | format, open, register | counters beside what they count, repeated boots |
| L1 (`contracts/src`) | accepted roots, executed outputs | accept, executeOutput | anyone calls, in any order; two contracts pay |
| devnet (`devnet`, `compose.yaml`, `scripts`) | files left by one step for the next | deploy, genesis, engine start, scripts | killed steps, failing programs and requests, an L1 that starts over |
| RPC (`engineapi`), machine client (`machine`) | none of their own, a server connection | views; fork, advance, store | not modelled, see below |

op-node calls the chain; the chain drains the mempool, executes on the machine and
writes the store; the guest in the machine emits the outputs that the commitments
accumulate; a proposer posts the commitments on L1; users execute outputs there
with proofs the node serves. The correctness of the whole is: what the chain says
is canonical is one executed chain, survives a restart, agrees with every verifier,
conserves value, and every output of it is executed on L1 once and only once.

## Modules

| Module | Models | Runs |
| --- | --- | --- |
| `Chain` | the shim in memory; one action per handler, which holds `Chain.mu` throughout | `chain`, `chain_head_canonical` |
| `ChainStore` (extends `Chain`) | the durable half: each handler's writes follow one at a time, the process may die between and inside them | `store_crash`, `store_partial_checkpoint` |
| `Execution` | applyBuild and replayImport, input by input | `execution` |
| `Mempool` | the pool and both mutexes, goroutine step by step | `mempool` |
| `Ledger`, `Router` | the guest: journalled ledger, every handler's `advance` and `view`; one action is one input | `guest` |
| `AbiDrive` | the ABI drive: operators on its words | `guest` |
| `Application` (extends `Router`, `AbiDrive`) | boot, registration of contracts, the rollup loop; the guest's specification | `guest` |
| `TableMap` | what the accounts table promises: a bounded map | as a property |
| `AccountsTable` | the accounts table, slot by slot; implements `TableMap` | `drive` |
| `Drive` | the accounts drive over its bytes: geometry, profiles, registry, records | `layout` |
| `OutputTree`, `Commitments` | outputs tree, proofs, withdrawal trie through reorgs and restarts | `commitments` |
| `Settlement` | proposals, validator, executor, portal | `settlement` |
| `Bringup` | the devnet's compose steps and scripts over the files they share | `bringup` |
| `ChainProofs`, `ExecutionProofs`, `ChainStoreProofs`, `ChainRecoveryProofs`, `MempoolProofs`, `AccountsTableProofs`, `SettlementProofs`, `BringupProofs` | theorems about the module named | |

`MC*` modules only give constants their values.

### How state and actions correspond to the code

*Chain.* A block hash commits to the block and its ancestry, so a block is the
sequence of payloads from genesis to it: parent and number need no table. `blocks`,
`canonical`, `machines`, `pending`, `head`, `safe`, `finalized` are the fields of
`Chain`; `highest` is a history of the highest head. A machine is the list of payloads it
has executed, kept for a block or carried by a payload under construction; `Claimed` says
what each header claims of it (state root, gas, withdrawals root), rightly or wrongly. How
one payload executes is `Execution`. Receipts root, bloom and base fee are taken from the
payload as they are, by the code and the model.

*ChainStore.* `todo` is the list of writes the current handler still makes, in
program order. `Crash` may come at any time; `FaultSets` says which behaviours also
have reorgs (`reorg`), a checkpoint cut short (`partial store`) or a failing write
(`write error`). Without `reorg` the chain is extended in step: one branch, imported
and then made the head, as op-node does while nothing is disturbed.
`RestoreOk` has every check `Restore` makes. Payloads under construction touch
nothing durable and are left out. The end of `machine.store` and the pruning that follows
are one step: pruning removes the oldest directories one by one, and a crash among them
leaves more checkpoints than the retention, of which `Latest` picks the same one.

*Execution.* `Guest(m, n, tx)` is any deterministic answer of the machine in state
`m` to input `n`. `forks` counts machine servers owned. `SetMaxDASize` is two steps
(`half`). In faulty behaviours any machine call may fail, a close included.

*Mempool.* `pc` has the places in `Add` where the goroutine may be overtaken: the
gate's read of head and account under the chain's read lock, and the insertion
under the pool's. A waiting writer blocks new readers, as `sync.RWMutex` does. `Kept`
is the loop of `Forget`: the k-th entry kept is the one with k kept entries up to it.

*Ledger, Router.* `mem` is the drive and what is kept under the journal; `tokens` and
the facades are the caches beside it. A balance above `MaxUint` is refused, as the
drive refuses one that does not fit its record. Calldata is a record naming the decoded
function. An input is a deposit, a signed transaction (with its chain id and signature
good or bad), a transaction type that is not admitted, or bytes that are none of these.
`attributes` and `lastBlock` are the memory of `L1Block` and of the router that the
journal does not cover. Views are operators of the state, since they change nothing;
`InspectCall` is `Router.inspect` for a call. `InspectSimulate` runs a handler on a fork of
the parked machine that the host drops (`chain/inspect.go:33`); `result.fork` is what it
left there. Event logs and reports are left out.

*Application, AbiDrive.* `abiStore` has the words of the ABI drive, `abiDrive` the counters
the open drive keeps beside them, `device` what a host finds in the machine's state: what
was flushed before the last yield. A word that was never written is `NoByte`. A program
is the list of contracts it registers; each registration is its four writes (blob, entry,
count, heap used), one step each; one that throws ends the process (`dead`). `Reboot`
starts the process again over the drives it left, between any two of these writes; `torn`
counts the boots cut between the two counters.

*AccountsTable.* One step per slot visited. `home` is chosen in `Init`, so every
collision pattern is covered.

*Drive.* `mem` says which piece of which value each unit of four bytes holds. The header's
fields and counters lie at their offsets in `drive.ts`, records and regions where the
configuration puts them, so values written over each other are seen when they are read back;
`d` is the open drive with its own registry and column offsets; `book` is a history of
what was written last. `Format` refuses the geometries `validateConfig` refuses. Probing
is a search for the key, which `AccountsTable` refines.

*OutputTree, Commitments.* A hash is the term it hashes, so equal hashes mean equal
preimages. The Patricia trie's root stands for its contents; the conversion of the
outputs root into a trimmed RLP slot value is left out.

*Settlement.* An outputs root stands for the outputs under it; that this is right
is what `RootIsReference` and `OutputsStayProvable` show of `Commitments`. `chain[n]`
has the outputs from genesis through block n, as `Chain.trees` has their accumulator,
and a block appends its own to its parent's. `ExecuteOutput` is a transaction of its own;
in `ExecuteWithin` the contract a voucher calls calls `executeOutput` in turn, between the
flag and the return (`OutputExecutor.sol:57-64`). One level is modelled: a deeper one adds
calls of the same kind, and a call that fails takes all that happened inside it back.
op-proposer, the dispute game, the L1 clock and OptimismPortal are external: wrong
claims are made in games of another type, or, when the validator requires
`DEFENDER_WINS`, in the chain's own; without that requirement proposals are made by an
authorised proposer (`OPOutputsMerkleRootValidator.sol:72`). A game is resolved for
the true claim. Genesis is the anchor of the game factory and is not proposed.

*Bringup.* Each file the steps and scripts leave for one another is a variable: absent, or
what it says (anchor, portal, time). A compose step is the sequence of its file
operations and of the programs it runs, and may be killed between any two; `up` may be
run again at any time, and the scripts run beside it. `l1` is anvil's incarnation, its
height and what is deployed on it. An L1 restart leaves a running engine alone, as compose
does, on a chain whose L1 is gone; `Stop` is the operator's. An L1 request that fails is
taken for a missing block where the code catches it (`live.ts:38`), and ends the step where
it does not (`RequestFails`).

## Runs

| Run | Question | Instance | Distinct states |
| --- | --- | --- | --- |
| `chain` | Do the maps and pointers stay consistent under every order of handlers? | genesis and five blocks on three branches, one of which claims a wrong result; window 1 | 26,329 |
| `chain_head_canonical` | Is the head canonical? (violated) | same | |
| `store_crash` | What does a crash between or inside any writes leave, and can it be restarted from? | genesis and three blocks on two branches, interval 1, retention 2; no faults, failing writes, reorgs, or checkpoints cut short | 304,694 |
| `store_partial_checkpoint` | Can a node restart after a checkpoint was cut short? (violated) | genesis and four blocks in line | |
| `mempool` | Do the indexes and the reasons to leave survive races, and does everything leave in the end? | one client, four transactions of two accounts, two of them for one nonce; pool of 2, blocks of 1 | 48,812 |
| `execution` | Do builder and verifier agree, within budget, without leaks? | five transactions that accept, reject by state or by input number, halt, or burn the block's gas; limits 0 and 2; with and without faults | 1,080,396 |
| `guest` | Is value conserved through every outcome of every handler, do calls tell the truth, and does the host read what the guest acts on? | programs of up to two contracts; owner and user, two tokens, registry of 1, 4 accounts, 1 sparse balance, balances to 2, 4 inputs, 1 torn boot | 32,238 |
| `drive` | Is the table a map? | 4 keys, 4 slots, limit 3, homes up to rotation and naming of keys | 405,649 |
| `layout` | Do regions, columns and records ever overlap, and do two readers agree? | geometries of the three profiles that touch, overlap or leave the drive | 176,424 |
| `commitments` | Are roots, proofs, indexes and rebuilt tries right? | height 5, 4 blocks of 4 shapes | 1,593 |
| `settlement` | Is only the canonical executed, paid once, and every safe output settled in the end? | 2 blocks, 1 wrong claim, both validator modes, restarts | 116,678 |
| `bringup` | Does bring-up end, on one chain, and leave a running one alone? | one L1 restart, and two of a kill, a failing program and a failing request | 990,446 |

Properties, by module:

- **Chain**: `CanonicalIsOneChain` (every entry's parent is the entry below),
  `WindowHasSnapshots` (every block near the highest head ever set has its machine),
  `MachinesMatchBlocks` (a machine, kept or under construction, has executed its block's
  own ancestry, and a committed header claims what it reached); of every step
  `PointersMoveToCanonical` and `PointersKeepSnapshots`.
- **ChainStore**: `HeadAncestryIsDurable` (the stored head's ancestry is the stored
  canonical chain, at every instant, as long as no write fails),
  `RecoverableWithoutFaults` (every crash point of an undisturbed chain); of every
  restart `RestoreServesStoredChain` (what is served is the stored head, from a complete
  checkpoint, never another chain); of every forkchoice `FinalizedIsAncestor`.
- **Execution**: `HonestBlockIsValid` (a verifier never refuses an honest block and
  records the same results), `NoForkLeaks`, `WithinBudget`, `OnlyRefusedAreForgotten`.
- **Mempool**: `IndexesAgree`, `LeavesForAReason`; liveness `QueuedLeaves`, which a lock cycle
  would break.
- **Router**: `EtherConserved`, `TokensAreBacked`, `CachesMatchDrive`,
  `RecordedValueIsHeld` (failed messages can be replayed, contracts hold what they
  booked), `CallsForetell` (what a call reports is what a transaction then meets),
  `NoTraceLeft`, `RevertKeepsOnlyTheCharge`.
- **Application**: `HostReadsTheGuest` (the drives hold the ledger and list every routed
  contract once, wherever a boot was cut).
- **Drive**: `ReadsBack` (every read returns what was written last, whatever else was),
  `ReopenAgrees`.
- **AccountsTable**: refinement `ImplementsMap`, `RobinHood`, liveness `CallsReturn`.
- **Commitments**: `RootIsReference`, `OutputsStayProvable` (at the index reported),
  `CommitmentsRebuild`, `WithdrawalsAreDistinct`.
- **Settlement**: `L1FollowsTheChain`, `PaidOnce`; liveness `SafeOutputsSettle`.
- **Bringup**: `EngineServesOneChain`, `ScriptFilesAreCurrent`, `RunningChainIsKept`; liveness
  `BringupCompletes`.

Definitions marked *Wrong* are slips the code could plausibly contain; each property
is violated when the corresponding one takes its original's place.

### Bounds

- *Chain*: branches part at genesis and one block above it, and one is longer than the
  window, so snapshots are closed before and after a reorg.
- *ChainStore*: one checkpoint more is taken than the retention, so pruning runs. Failing
  writes, reorgs and checkpoints cut short are run one class at a time; the theorems hold
  for any of them together but reorgs with failing writes, see below.
- *Mempool*: the pool is full with a replacement in flight; a block has room for less
  than the pool.
- *Application* (`MaxTorn`): after a torn boot only inputs that change nothing are followed,
  since the loop does not touch the ABI drive.
- *Router* (`MaxInputs`, `MaxUint`, `LoadLimit`, `SparseLimit`, `RegistryCapacity`): each
  limit is reached with inputs to spare, and deposits are refused at it.
- *AbiDrive* (`AbiCapacity`, `HeapLength`): room for the built-ins, one contract and two
  letters of ABI; among the programs one meets the full index, one the full heap, one an
  address already routed and one a reserved address.
- *AccountsTable*: three records on four slots wrap around the end from any home.
- *OutputTree* (`Height`): up to sixteen outputs carry through every level below the top.
- *Settlement* (`MaxBlocks`, `MaxWrong`): two blocks are enough for proposals accepted out
  of order and for a restart above a proposed block.
- *Bringup* (`MaxRestarts`, `MaxKills`, `MaxFailures`, `MaxRpcErrors`, `MaxFaults`, `MaxHeight`): one
  fault of each kind and two in all, in any order, beside an L1 restart; two L1 heights
  tell an anchor from a later one.

Deadlock is checked everywhere but in `Settlement`, which ends when the last block is
settled.

### Fairness

- *Mempool*: goroutines are scheduled (weak fairness), Go's mutexes are not starved
  (strong fairness on the lock steps), and op-node keeps building and importing.
- *AccountsTable*: a call that has started goes on (weak fairness on its step).
- *Settlement*: as long as something can be done towards settling a safe output
  (derivation, a proposal, a game's resolution, the clock, an acceptance, an execution, a
  claim), some of it is done: weak fairness of `Progress`, the disjunction of these. New
  blocks, wrong claims and restarts are not fair.
- *Bringup*: a step that runs goes on and `up` is run again (weak fairness of `Steps`), and
  containers whose L1 is gone are stopped (weak fairness of `StopStale`). Nothing in
  `compose.yaml` stops them: without the operator an engine serves a chain of an L1 that is
  gone for ever. Kills, failures, restarts, other stops and the scripts are not fair.

## Disagreements with the documentation

- `chain_head_canonical`: `ForkchoiceUpdated` rewrites the canonical map before it
  checks the safe and finalized hashes; a refused call leaves the head off the
  canonical chain until the next accepted one, and receipts of the head's
  transactions are not found (`chain/receipts.go:124`).
- `store_partial_checkpoint`: a crash inside `machine.store` leaves a directory that
  `LatestCheckpoint` selects and `Restore` fails on; `chain/store.go:241` says a
  partially written one should not stop a restart.

Four more are premises of the properties:

- a genesis step killed after `rollup.json` and before `chain-flags`, run again after an L1
  restart, finds both files and does nothing, so the engine starts with the previous
  chain's flags; `devnet/lib/env.ts:48` calls them "the chain flags rollup.json was
  generated with" (`EngineServesOneChain` has the flags while no step was killed);
- `anchorStillOnL1` takes every failed request for a block that is gone, so `up` run again
  may deploy the suite anew under a running chain; `compose.yaml:81` says running `up`
  again does not redeploy it (`RunningChainIsKept` is for behaviours whose requests have
  all been answered);
- a boot cut between the writes of the count and of the heap used leaves an ABI drive on
  which the next blob is written over the last one, though
  `abi-drive/js/src/index.ts:185` says "boots are idempotent" (`HostReadsTheGuest` has the
  ABI while `torn` is 0; address and kind it has always);
- a simulation that sets the L1 attributes or a contract's own memory does not take them
  back, though `app/src/router.ts:468` calls it "deterministic whether or not the caller's
  machine fork is discarded": that holds of the ledger, and for the rest the host drops the
  fork (`NoTraceLeft` asks for the ledger on the fork and for everything on the machine).

The models also show these limits, stated as premises of the properties:

- one failed machine call in `replayImport` makes an honest block INVALID, and one in
  `applyBuild` drops a good transaction from the pool; a machine whose close fails stays
  (`HonestBlockIsValid`, `OnlyRefusedAreForgotten` and `NoForkLeaks` are for behaviours
  without faults);
- a checkpoint taken on a branch that was reorged out is matched with the canonical
  block of its height and stops the restart (`RecoverableWithoutFaults` is about
  a chain without reorgs);
- a crash between `SetCanonical` and the genesis checkpoint in `Adopt` leaves a head
  with no checkpoint (`Recoverable` starts with the first checkpoint);
- a failed canonical write in a reorg followed by `Close` makes the next start serve
  the old branch (forks and failing writes are checked apart);
- a node that keeps one checkpoint cannot always restart: the checkpoint of a block
  imported above the head prunes the only one at or below it before the head moves
  (`-checkpoint-retention 1` passes `chain/config.go:106`, which replaces only values
  below one; `store_crash` keeps two, and `Recovers` is proved for two or more);
- a portal registered again under another kind lets tokens leave through the other
  escrow (`TokensAreBacked` separates the escrows only while none was).

## Proofs

TLAPS checks the following for every value of the constants that satisfies the named
assumptions of the modules. Each inductive invariant was first checked by TLC on the
instance of its run.

**`ChainProofs`** rests on `ChainAssumption` (blocks are closed under prefixes, the
window is at least one). The inductive invariant `IInv` joins the type invariant,
the four state invariants of `Chain` and `ParentsKnown`: the parent of a known block
is known. `ParentsKnown` is what makes `reorgTo`'s walk end at a block already
canonical or at genesis, so `ReorgKeepsOneChain`, the central lemma, can show that
the rewritten part of the map and the part left alone meet. One lemma per handler
shows that it preserves `IInv`; the two action properties follow from it.
Theorems: `TypeCorrect`, `OneChain`, `WindowKept`, `PendingAbove`, `MachinesMatch`,
`PointersMove`, `PointersKeepThem`. `MachinesMatch` covers the three ways a block comes in:
a build forks the machine of its parent, an import replays on one and compares what it
reached with the header, and an adoption takes over the machine its payload carries.

**`ExecutionProofs`** assumes `GuestIsTyped` (the guest answers every input) and
`BlockAssumption`. `TInv` adds to the types the number of machines each side owns in
each phase, from which `ForksClosed` follows. `HInv` adds a history `trail` of the
builder's results after every inclusion: the verifier's result at position `j` is
`trail[j]`, because both take the same answer of the guest in the same state with the
same input number. At the end of the list they are equal, which is
`BuilderAndVerifierAgree`. `BInv` bounds the bytes taken from the pool by the loosest
limit seen (`LimitsHold`). `ForgetsOnlyRefused` needs no typing of the guest.

**`ChainStoreProofs`** is about any tree of blocks, interval and retention
(`StoreAssumption`). The run's property speaks of the disk; what makes it inductive is
memory and the writes still to make. `StoreInv` says that memory is a tree above one
base, from which the canonical mapping is a chain (`MemoryIsATree`); which lists of
writes a handler may still have before it (`TodoOK`); and what the disk then holds, once
for behaviours in which no write fails (`StoredAsWritten`: the stored mapping is the
stored head's ancestry, and lags memory only while a mapping is to be written) and once
for those in which op-node is in step (`StoredInStep`: the stored blocks are of one line
and the stored head is never ahead). `HeadAncestryDurable` covers reorgs,
checkpoints cut short and restarts, in behaviours in which no write fails, as its property
says. `RestoreServes` and `FinalizedOnChain` assume `FaultsApart`: no behaviour has both reorgs
and failing writes. The assumption is needed: with both, a canonical write that fails in
a reorg leaves a head off the stored mapping, and TLC finds `FinalizedIsAncestor`
violated (the limit listed above).

**`ChainRecoveryProofs`**: `Recovers` is `RecoverableWithoutFaults` for a retention of at
least two. `RInv` adds to `StoreInv`, for behaviours without faults, that memory but for
the block being written is stored, that stored blocks have their ancestry stored, that
checkpoints are complete and at most one height above the stored head, and that one of
them is at or below it. Pruning keeps the newest two, of different heights, so one of
them is at or below the head; with a retention of one it is not, as TLC shows. That the
replay from a checkpoint reaches the head is shown by a least height that it would not
reach (`LeastElement`).

**`MempoolProofs`** (`PoolAssumption`): any number of RPC goroutines, any pool size.
`IInv` has the types, `IndexesAgree`, what each goroutine holds at each place, and
`PoolMutexIsInner`: nobody inside the pool's mutex waits for the chain's. The work is in
`Forget`: lemmas on counting show that `Kept` has every entry that stays once and in
order. Theorems: `TypeCorrect`, `IndexesInStep`, `LocksAreOrdered`, `LeavesWithReason`.

**`AccountsTableProofs`** (`TableAssumption`): any capacity, load limit below it, set of
keys and hash. `RobinHood` relates neighbours, holds only between calls, and is not
inductive. `Ordered` is its global form: every slot from a record's home to its own is
taken, by a record at least as far from its home as this one would be there (`Backed`).
Lemmas on the ring (`Ahead`, `Back`, `Gap`) turn `%` into cases; `PutKeepsOrder`, `ShiftKeepsOrder` and
`ClearKeepsOrder` show that an exchange of `#insert`, a step back of `#remove` and the
clearing of the last slot keep the order. `IInv` adds that the counter counts the taken
slots, that settled keys are distinct, and what a lookup has already passed
(`Searched`), what the record in hand has passed (`Carrying`) and where the hole is
(`Shifting`). From it: a probe that misses proves the key absent (`MissMeansAbsent`),
which is what stopping early needs, and the load limit leaves an empty slot
(`EmptySlot`). `InOrder` is `RobinHood`; `TableIsMap` is the refinement: every step of
`AccountsTable` is a step of `TableMap` or leaves `Contents`, `Undecided` and `answer` as
they are, one lemma per action. An insertion changes the map when it starts, with the
record in hand; a removal when its hole is chosen.

**`SettlementProofs`** (`EmissionsAssumption`): any number of blocks, games and wrong
claims. `IInv`: the outputs through a block begin those through any later one; an honest
game is of a safe block, and safe blocks are not reorged; a wrong one never wins and is
of the chain's type only where games have to be won; what was accepted, executed and paid
is of the safe chain, each payment once and for a voucher or a withdrawal. An execution
inside a voucher's call meets that voucher's own flag (`WithinPreserves`). Theorems:
`L1Follows`, `NothingPaidTwice`. That games are decided for the true claim, and that
proposals are authorised where they need not be won, are assumptions of the model.

**`BringupProofs`** (`NoneAssumption`): any number of L1 restarts, kills, failing programs
and failing requests. `IInv` says what each step finds of the files the steps before it
left (`StepsFind`), that anchors are of blocks there are or were (`AnchorsArePast`), so
that a new deployment's anchor is new, and that whoever names one anchor names one portal
(`OnePortal`). Theorems: `TypeCorrect`, `OneChainServed`, `ScriptFilesCurrent`,
`RunningChainKept`. `OneChainServed` shows one anchor and one portal whatever was killed,
and the engine's flags only where nothing was.

### Only model-checked

- Liveness: `QueuedLeaves`, `CallsReturn`, `SafeOutputsSettle`, `BringupCompletes`. The
  provers do not reason about `ENABLED` and fairness.
- Commitments: `RootIsReference` and `OutputsStayProvable` compare a recursive tree with
  a recursive reference; `CommitmentsRebuild` and `WithdrawalsAreDistinct` rest on
  flattened sequences of sequences, which are folds. The prover can do induction over the
  naturals only through a least counterexample in a set, and cannot unfold what a
  recursive definition or a fold computes.
- The guest: `EtherConserved` and `TokensAreBacked` are sums over all accounts (folds),
  and the rollback under every property of `Router` is a recursive function over the
  journal. `HostReadsTheGuest`, `ReadsBack` and `ReopenAgrees` are about images of words
  and bytes whose layout is computed by such functions.

## Not modelled

RPC views and authentication (`engineapi`), the JSON-RPC machine client below `Fork`,
`AdvanceInput` and `Close`, account proofs and code (`chain/account*.go`,
`chain/code.go`): they change no state of the chain. The byte codecs (`evm-compat`, ABI
framing, RLP, record encodings) are pure functions of bytes, tested against vectors; a
model would repeat them. The ports of the accounts drive are compared byte by byte with
the reference by golden files. The guest's logs and reports, start-up wiring
(`cmd`, `rollup`), the user's one-shot scripts and the demo hold no state others read,
beyond the files in `Bringup`. `PROJECT.json` lists each with the reason.

## Where to go on

Proofs of `WithdrawalsAreDistinct` and `CommitmentsRebuild`, which need the outputs of a
block written without flattening; of `CachesMatchDrive` over one handler at a time; then
the machine client (`machine/jsonrpc.go`) composed with `Execution`, and requests that
read the chain more than once while it moves.
