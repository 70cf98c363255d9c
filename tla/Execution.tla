------------------------------ MODULE Execution ------------------------------
(***************************************************************************)
(* Executing one block: the sequencer's loop applyBuild, with the payload  *)
(* buildPayload makes of it, and the loop replayImport by which another    *)
(* node of the chain checks that payload in ImportPayload.                 *)
(*                                                                         *)
(* The machine is deterministic and otherwise arbitrary: Guest(m, n, tx)   *)
(* is what it does in state m with input number n of the block.  A root    *)
(* hash stands for the state it commits to.  In a faulty behaviour any     *)
(* call to the machine server may fail, a transport error or a cancelled   *)
(* request; the code does not tell such an error from the cycle limit or a *)
(* halt.                                                                   *)
(***************************************************************************)
EXTENDS Naturals, Sequences

CONSTANTS Tx, State, Emission, None,
          Guest(_, _, _),        \* [verdict, next, cycles, emits] of one AdvanceInput
          Parent,                \* the parent block's machine state
          DepositLists,          \* what attrs.Transactions may hold
          PoolLists,             \* what Pending may return
          Size,                  \* [Tx -> Nat], bytes
          GasLimit, CyclesPerGas,
          Limits                 \* data-availability limits, 0 for none

ASSUME BlockAssumption ==
    /\ Parent \in State
    /\ DepositLists \subseteq Seq(Tx) /\ PoolLists \subseteq Seq(Tx)
    /\ Size \in [Tx -> Nat]
    /\ GasLimit \in Nat /\ CyclesPerGas \in Nat \ {0}
    /\ Limits \subseteq Nat
    /\ None \notin [txs : Seq(Tx), stateRoot : State, gasUsed : Nat, leaves : Seq(Emission)]

VARIABLES deposits, poolTxs,          \* the build's inputs
          faulty,                     \* machine calls may fail
          bpc, i, exec, included,     \* applyBuild: phase, position, execResult
          dropped, daUsed, forks,     \* rejected, bytes used, machines owned
          pool,                       \* what the mempool still holds of poolTxs
          maxTxSize, maxBlockSize, half,  \* daLimits; SetMaxDASize between its stores
          payload,                    \* the pending payload's claims
          vpc, j, vexec, vforks,      \* replayImport: the same on the importing node
          trail, refused, budget         \* history, read by the properties only

daVars == <<maxTxSize, maxBlockSize, half>>
buildVars == <<bpc, i, exec, included, dropped, daUsed, forks, pool, payload, trail, refused>>
replayVars == <<vpc, j, vexec, vforks>>
inputVars == <<deposits, poolTxs, faulty>>
vars == <<inputVars, buildVars, replayVars, daVars, budget>>

Range(s) == {s[k] : k \in DOMAIN s}
Min(a, b) == IF a <= b THEN a ELSE b

\* execResult before the first input.
NoExec == [machine |-> Parent, gasUsed |-> 0, outputs |-> << >>, leaves |-> << >>]

\* collectOutputs: the provable emissions of a rejected input are dropped.
CollectOutputs(k, tx, r) ==
    [index |-> k, tx |-> tx, accepted |-> r.verdict = "accept", cycles |-> r.cycles,
     outputs |-> IF r.verdict = "accept" THEN r.emits ELSE << >>]

\* One input that ran to a yield: recorded, and its state kept if accepted.
Record(x, k, tx) ==
    LET r == Guest(x.machine, k, tx)
        o == CollectOutputs(k, tx, r)
    IN  [machine |-> IF o.accepted THEN r.next ELSE x.machine,
         gasUsed |-> x.gasUsed + r.cycles \div CyclesPerGas,
         outputs |-> Append(x.outputs, o),
         leaves  |-> x.leaves \o o.outputs]

\* Wrong: one candidate fork is left open.
CloseNothing(n) == {n}

\* The number of machines still open after one Close.
Close(n) == IF faulty THEN {n, n - 1} ELSE {n - 1}

Init ==
    /\ deposits \in DepositLists /\ poolTxs \in PoolLists /\ faulty \in BOOLEAN
    /\ bpc = "start" /\ i = 1 /\ exec = NoExec /\ included = << >>
    /\ dropped = {} /\ daUsed = 0 /\ forks = 0 /\ pool = Range(poolTxs)
    /\ maxTxSize = 0 /\ maxBlockSize = 0 /\ half = None
    /\ payload = None
    /\ vpc = "start" /\ j = 1 /\ vexec = NoExec /\ vforks = 0
    /\ trail = <<NoExec>> /\ refused = {} /\ budget = 0

(***************************************************************************)
(* buildPayload and applyBuild                                             *)
(***************************************************************************)
BuildStart ==
    /\ bpc = "start"
    /\ bpc' = "deposits" /\ forks' = 1
    /\ budget' = maxBlockSize
    /\ UNCHANGED <<inputVars, i, exec, included, dropped, daUsed, pool, payload, trail,
                   refused, replayVars, daVars>>

Answer == Guest(exec.machine, Len(included), IF bpc = "deposits" THEN deposits[i] ELSE poolTxs[i])

\* Wrong: inputs are numbered by their place in their own list.
IncludeByList(tx) ==
    /\ exec' = Record(exec, i - 1, tx)
    /\ included' = Append(included, tx)
    /\ trail' = Append(trail, exec')
    /\ daUsed' = daUsed + Size[tx]
    /\ forks' \in Close(forks + 1)
    /\ i' = i + 1

\* record, then the candidate's fork or the one before it is closed.
Include(tx) ==
    /\ exec' = Record(exec, Len(included), tx)
    /\ included' = Append(included, tx)
    /\ trail' = Append(trail, exec')
    /\ daUsed' = daUsed + Size[tx]
    /\ forks' \in Close(forks + 1)
    /\ i' = i + 1

\* Deposits are mandatory, accepted or not.
Deposit ==
    /\ bpc = "deposits" /\ i <= Len(deposits)
    /\ Answer.verdict # "error"
    /\ Include(deposits[i])
    /\ UNCHANGED <<inputVars, bpc, dropped, pool, payload, refused, replayVars, daVars, budget>>

\* A deposit that fails hard aborts the build: its candidate is closed, then
\* the machine it was forked from.
DepositFails ==
    /\ bpc = "deposits" /\ i <= Len(deposits)
    /\ Answer.verdict = "error" \/ faulty
    /\ bpc' = "failed"
    /\ \E n \in Close(forks + 1) : forks' \in Close(n)
    /\ UNCHANGED <<inputVars, i, exec, included, dropped, daUsed, pool, payload, trail,
                   refused, replayVars, daVars, budget>>

\* So does a fork that fails, of a deposit or of a pool transaction.
BuildFails ==
    /\ faulty
    /\ bpc = "run" \/ (bpc = "deposits" /\ i <= Len(deposits))
    /\ bpc' = "failed"
    /\ forks' \in Close(forks)
    /\ UNCHANGED <<inputVars, i, exec, included, dropped, daUsed, pool, payload, trail,
                   refused, replayVars, daVars, budget>>

DepositsDone ==
    /\ bpc = "deposits" /\ i > Len(deposits)
    /\ bpc' = "pool" /\ i' = 1
    /\ UNCHANGED <<inputVars, exec, included, dropped, daUsed, forks, pool, payload, trail,
                   refused, replayVars, daVars, budget>>

PoolLeft == i <= Len(poolTxs) /\ exec.gasUsed < GasLimit

Over(limit, n) == limit # 0 /\ n > limit

\* Wrong: a transaction over the limit is thrown away.
AdmitsTxDrops ==
    /\ bpc = "pool" /\ PoolLeft
    /\ IF Over(maxTxSize, Size[poolTxs[i]])
       THEN i' = i + 1 /\ dropped' = dropped \cup {poolTxs[i]} /\ UNCHANGED bpc
       ELSE bpc' = "block" /\ UNCHANGED <<i, dropped>>
    /\ UNCHANGED <<inputVars, exec, included, daUsed, forks, pool, payload, trail,
                   refused, replayVars, daVars, budget>>

\* Wrong: only the transaction, not the block so far, is held to the limit.
AdmitsBlockAlone ==
    /\ bpc = "block"
    /\ IF Over(maxBlockSize, Size[poolTxs[i]])
       THEN i' = i + 1 /\ bpc' = "pool"
       ELSE bpc' = "run" /\ UNCHANGED i
    /\ UNCHANGED <<inputVars, exec, included, dropped, daUsed, forks, pool, payload, trail,
                   refused, replayVars, daVars, budget>>

\* admits: two atomic loads, between which SetMaxDASize may store.  What does
\* not fit is skipped and stays in the pool.
AdmitsTx ==
    /\ bpc = "pool" /\ PoolLeft
    /\ IF Over(maxTxSize, Size[poolTxs[i]])
       THEN i' = i + 1 /\ UNCHANGED bpc
       ELSE bpc' = "block" /\ UNCHANGED i
    /\ UNCHANGED <<inputVars, exec, included, dropped, daUsed, forks, pool, payload, trail,
                   refused, replayVars, daVars, budget>>

AdmitsBlock ==
    /\ bpc = "block"
    /\ IF Over(maxBlockSize, daUsed + Size[poolTxs[i]])
       THEN i' = i + 1 /\ bpc' = "pool"
       ELSE bpc' = "run" /\ UNCHANGED i
    /\ UNCHANGED <<inputVars, exec, included, dropped, daUsed, forks, pool, payload, trail,
                   refused, replayVars, daVars, budget>>

PoolAccepted ==
    /\ bpc = "run"
    /\ Answer.verdict = "accept"
    /\ Include(poolTxs[i])
    /\ bpc' = "pool"
    /\ UNCHANGED <<inputVars, dropped, pool, payload, refused, replayVars, daVars, budget>>

\* A rejection and any error of the machine call are answered alike.
PoolDropped ==
    /\ bpc = "run"
    /\ Answer.verdict # "accept" \/ faulty
    /\ dropped' = dropped \cup {poolTxs[i]}
    /\ refused' = IF Answer.verdict # "accept" THEN refused \cup {poolTxs[i]} ELSE refused
    /\ forks' \in Close(forks + 1)
    /\ i' = i + 1 /\ bpc' = "pool"
    /\ UNCHANGED <<inputVars, exec, included, daUsed, pool, payload, trail, replayVars,
                   daVars, budget>>

\* Forget(dropped), then the header: stateRoot, capped gasUsed, and the
\* withdrawals root, which commits to the leaves.
BuildDone ==
    /\ bpc = "pool" /\ ~PoolLeft
    /\ pool' = pool \ dropped
    /\ \/ /\ bpc' = "done"
          /\ payload' = [txs |-> included, stateRoot |-> exec.machine,
                         gasUsed |-> Min(exec.gasUsed, GasLimit), leaves |-> exec.leaves]
          /\ UNCHANGED forks
       \/ /\ faulty     \* RootHash
          /\ bpc' = "failed"
          /\ forks' \in Close(forks)
          /\ UNCHANGED payload
    /\ UNCHANGED <<inputVars, i, exec, included, dropped, daUsed, trail, refused, replayVars,
                   daVars, budget>>

Loosest(a, b) == IF a = 0 \/ b = 0 THEN 0 ELSE IF a >= b THEN a ELSE b

\* SetMaxDASize(tx, block): two stores, no lock.
SetMaxTxSize(tx, blk) ==
    /\ half = None
    /\ maxTxSize' = tx /\ half' = blk
    /\ UNCHANGED <<inputVars, buildVars, replayVars, maxBlockSize, budget>>

SetMaxBlockSize ==
    /\ half # None
    /\ maxBlockSize' = half /\ half' = None
    /\ budget' = Loosest(budget, half)
    /\ UNCHANGED <<inputVars, buildVars, replayVars, maxTxSize>>

(***************************************************************************)
(* ImportPayload and replayImport on another node                          *)
(***************************************************************************)
ReplayStart ==
    /\ vpc = "start" /\ payload # None
    /\ vpc' = "replay" /\ vforks' = 1
    /\ UNCHANGED <<inputVars, buildVars, j, vexec, daVars, budget>>

ReplayTx ==
    /\ vpc = "replay" /\ j <= Len(payload.txs)
    /\ LET r == Guest(vexec.machine, j - 1, payload.txs[j])
       IN  \/ r.verdict # "error" /\ vexec' = Record(vexec, j - 1, payload.txs[j])
           \/ (r.verdict = "error" \/ faulty) /\ UNCHANGED vexec
    /\ vforks' \in Close(vforks + 1)
    /\ j' = j + 1
    /\ UNCHANGED <<inputVars, buildVars, vpc, daVars, budget>>

\* Fork or RootHash failing is an error to the caller, not a verdict.
ReplayFails ==
    /\ vpc = "replay" /\ faulty
    /\ vpc' = "failed"
    /\ vforks' \in Close(vforks)
    /\ UNCHANGED <<inputVars, buildVars, j, vexec, daVars, budget>>

ReplayDone ==
    /\ vpc = "replay" /\ j > Len(payload.txs)
    /\ IF /\ vexec.machine = payload.stateRoot
          /\ Min(vexec.gasUsed, GasLimit) = payload.gasUsed
          /\ vexec.leaves = payload.leaves
       THEN vpc' = "VALID" /\ UNCHANGED vforks
       ELSE vpc' = "INVALID" /\ vforks' \in Close(vforks)
    /\ UNCHANGED <<inputVars, buildVars, j, vexec, daVars, budget>>

Build == \/ BuildStart \/ Deposit \/ DepositFails \/ BuildFails \/ DepositsDone
         \/ AdmitsTx \/ AdmitsBlock \/ PoolAccepted \/ PoolDropped \/ BuildDone
Replay == ReplayStart \/ ReplayTx \/ ReplayFails \/ ReplayDone
SetMaxDASize == (\E tx, blk \in Limits : SetMaxTxSize(tx, blk)) \/ SetMaxBlockSize

Next == Build \/ Replay \/ SetMaxDASize

Spec == Init /\ [][Next]_vars

-----------------------------------------------------------------------------
ExecResult ==
    [machine : State, gasUsed : Nat, leaves : Seq(Emission),
     outputs : Seq([index : Nat, tx : Tx, accepted : BOOLEAN, cycles : Nat,
                    outputs : Seq(Emission)])]

\* Every variable stays in its domain.
TypeOK ==
    /\ deposits \in Seq(Tx) /\ poolTxs \in Seq(Tx) /\ faulty \in BOOLEAN
    /\ bpc \in {"start", "deposits", "pool", "block", "run", "done", "failed"}
    /\ vpc \in {"start", "replay", "failed", "VALID", "INVALID"}
    /\ i \in Nat \ {0} /\ j \in Nat \ {0}
    /\ exec \in ExecResult /\ vexec \in ExecResult /\ trail \in Seq(ExecResult)
    /\ included \in Seq(Tx)
    /\ dropped \subseteq Tx /\ pool \subseteq Tx /\ refused \subseteq Tx
    /\ daUsed \in Nat /\ budget \in Nat /\ forks \in Nat /\ vforks \in Nat
    /\ maxTxSize \in Nat /\ maxBlockSize \in Nat /\ half \in Nat \cup {None}
    /\ payload \in {None} \cup [txs : Seq(Tx), stateRoot : State, gasUsed : Nat,
                                leaves : Seq(Emission)]

\* The rules of replayImport mirror applyBuild's: while machine calls do not
\* fail, no verifier calls a block the sequencer built invalid, and one that
\* accepts it recorded the same gas, emissions and input numbers.
HonestBlockIsValid ==
    ~faulty => /\ vpc # "INVALID"
               /\ vpc = "VALID" => vexec = exec

\* applyBuild and replayImport end owning exactly the machine they return, and
\* none if they fail: every other fork, a server process each, was closed.
NoForkLeaks ==
    ~faulty => /\ bpc = "done" => forks = 1
               /\ bpc = "failed" => forks = 0
               /\ vpc = "VALID" => vforks = 1
               /\ vpc \in {"INVALID", "failed"} => vforks = 0

\* A block that took anything from the pool fits the loosest block limit that
\* was in force while it was built, deposits counted, however SetMaxDASize's
\* stores fell between the loads of admits.
WithinBudget ==
    budget = 0 \/ daUsed <= budget \/ Len(included) <= Len(deposits)

\* While machine calls do not fail, only transactions the guest refused are
\* forgotten by a build: one held back by the data-availability limits, or
\* never reached, stays in the pool.
OnlyRefusedAreForgotten ==
    ~faulty => Range(poolTxs) \ pool \subseteq refused
=============================================================================
