------------------------------ MODULE Bringup ------------------------------
(***************************************************************************)
(* Bringing the devnet up (devnet/compose/*.ts, devnet/deploy-l1.ts,       *)
(* devnet/deploy-outputs.ts, devnet/lib/*.ts, scripts/deposit-erc20.ts).   *)
(*                                                                         *)
(* `docker compose up` runs two steps, l1-contracts and genesis, and then  *)
(* the engine and op-node.  It may be run again at any time, and a step    *)
(* may be killed between any two of its writes.  The L1 is an anvil that   *)
(* forgets everything when it restarts; the files under devnet/ stay.      *)
(* Compose itself, op-deployer, forge and anvil are external.              *)
(*                                                                         *)
(* An L1 block is <<incarnation, number>>, which stands for its hash and   *)
(* its timestamp.  Addresses depend on the deployer's nonce alone, so a    *)
(* restarted L1 gives the same ones out again.                             *)
(***************************************************************************)
EXTENDS Naturals, FiniteSets

CONSTANTS None,          \* a file that is not there
          MaxRestarts,   \* bound on L1 restarts
          MaxHeight,     \* bound on blocks mined for their own sake
          MaxKills,      \* bound on steps killed
          MaxFailures,   \* bound on external programs that exit nonzero
          MaxRpcErrors,  \* bound on L1 requests that fail for a passing reason
          MaxFaults      \* bound on the three together

VARIABLES l1,               \* [inc, height, suites, tokens]: anvil and what is deployed on it
          l1Addresses,      \* l1-addresses.env: [portal, anchor]
          chainGenesis,     \* chain-genesis.env: the anchor block
          rollupConfig,     \* rollup.json: [anchor, portal, time]
          chainFlags,       \* chain-flags: the genesis timestamp
          outputsAddresses, \* outputs-addresses.env: [chain, late]
          tokenEnv,         \* token.env: [chain, late, address]
          step,             \* where `docker compose up` is
          deployed,         \* what op-deployer reported to the running step
          outputs,          \* what deploy-outputs.ts is about to record
          token,            \* what deposit-erc20.ts is about to record
          engine,           \* what engine and op-node were started with
          faults            \* [kill, fail, rpc]: faults so far

(* Nothing a file records or a program reports is the missing value. *)
Block == Nat \X Nat
Deployment == [portal : Nat, anchor : Block]
RollupConfig == [anchor : Block, time : Block, portal : Nat]
OutputsRecord == [chain : Block, late : BOOLEAN]
PendingToken == [chain : Block, address : Nat]
TokenRecord == [chain : Block, late : BOOLEAN, address : Nat]
Started == [flags      : Block \cup {None},
            rollup     : RollupConfig \cup {None},
            deployment : Deployment \cup {None}]

ASSUME NoneAssumption ==
  /\ None \notin Nat /\ None \notin Block
  /\ None \notin Deployment /\ None \notin RollupConfig /\ None \notin Started
  /\ None \notin OutputsRecord /\ None \notin PendingToken /\ None \notin TokenRecord

files == <<l1Addresses, chainGenesis, rollupConfig, chainFlags>>
scripts == <<outputsAddresses, tokenEnv, outputs, token>>
vars == <<l1, files, scripts, step, deployed, engine, faults>>

-----------------------------------------------------------------------------
(* L1, as viem and the deployers see it. *)

BlockAt(n) == IF n <= l1.height THEN <<l1.inc, n>> ELSE None

AnchorStillOnL1(anchor) == anchor # None /\ BlockAt(anchor[2]) = anchor

(* Wrong: nobody asks, as before compose/live.ts. *)
DeploymentStillOnL1Unasked(recorded) == FALSE

DeploymentStillOnL1(recorded) ==
  recorded # None /\ AnchorStillOnL1(recorded.anchor) /\ recorded.portal \in l1.suites

(* What the address files say, read again on every call: chain-genesis.env  *)
(* lies above l1-addresses.env.                                             *)
DeploymentVars ==
  [suite |-> IF l1Addresses # None THEN l1Addresses.portal ELSE None,
   hash  |-> IF chainGenesis # None THEN chainGenesis
             ELSE IF l1Addresses # None THEN l1Addresses.anchor ELSE None,
   time  |-> chainGenesis,
   token |-> IF tokenEnv # None THEN tokenEnv.address ELSE None]

Default(v, fallback) == IF v # None THEN v ELSE fallback

ChainParams ==
  [anchor |-> Default(DeploymentVars.hash, <<0, 0>>),
   time   |-> Default(DeploymentVars.time, <<0, 0>>),
   portal |-> Default(DeploymentVars.suite, 0)]

(* The flags genesis and run share; the others never change. *)
Flags == ChainParams.time

Addresses == [disputeGameFactory |-> DeploymentVars.suite]

Config == [l1StandardBridge |-> DeploymentVars.suite, testToken |-> DeploymentVars.token]

-----------------------------------------------------------------------------
(* docker compose up. *)

At(from, to) == step = from /\ step' = to

Fail(kind, max) ==
  /\ faults[kind] < max /\ faults.kill + faults.fail + faults.rpc < MaxFaults
  /\ faults' = [faults EXCEPT ![kind] = @ + 1]

Up == /\ At("idle", "contracts")
      /\ UNCHANGED <<l1, files, scripts, deployed, engine, faults>>

(* l1-contracts.ts: stand aside, or forget the record and deploy. *)
ContractsDone ==
  /\ At("contracts", "genesis")
  /\ DeploymentStillOnL1(l1Addresses)
  /\ UNCHANGED <<l1, files, scripts, deployed, engine, faults>>

ForgetDeployment ==
  /\ At("contracts", "apply")
  /\ \/ ~DeploymentStillOnL1(l1Addresses) /\ UNCHANGED faults
     \/ DeploymentStillOnL1(l1Addresses)  \* an error is taken for a missing block
        /\ Fail("rpc", MaxRpcErrors)
  /\ l1Addresses' = None
  /\ UNCHANGED <<l1, chainGenesis, rollupConfig, chainFlags, scripts, deployed, engine>>

Apply ==
  /\ At("apply", "record")
  /\ LET portal == Cardinality(l1.suites) + 1 IN
     /\ l1' = [l1 EXCEPT !.height = @ + 1, !.suites = @ \cup {portal}]
     /\ deployed' = [portal |-> portal, anchor |-> <<l1.inc, l1.height + 1>>]
  /\ UNCHANGED <<files, scripts, engine, faults>>

(* The scalars are read off the deployed SystemConfig before anything is    *)
(* written, which dies if the L1 that had it is gone.                       *)
RecordDeployment ==
  /\ step = "record"
  /\ IF deployed.portal \in l1.suites
     THEN l1Addresses' = deployed /\ step' = "genesis"
     ELSE step' = "idle" /\ UNCHANGED l1Addresses
  /\ UNCHANGED <<l1, chainGenesis, rollupConfig, chainFlags, scripts, deployed, engine, faults>>

(* genesis.ts: the two files are compared, not their merge. *)
AlreadyAnchored ==
  /\ rollupConfig # None /\ chainFlags # None /\ chainGenesis # None /\ l1Addresses # None
  /\ chainGenesis = l1Addresses.anchor
  /\ AnchorStillOnL1(chainGenesis)

GenesisDone ==
  /\ At("genesis", "engine")
  /\ AlreadyAnchored
  /\ UNCHANGED <<l1, files, scripts, deployed, engine, faults>>

ForgetOutputs ==
  /\ At("genesis", "forgetToken")
  /\ \/ ~AlreadyAnchored /\ UNCHANGED faults
     \/ AlreadyAnchored /\ Fail("rpc", MaxRpcErrors)
  /\ outputsAddresses' = None
  /\ UNCHANGED <<l1, files, tokenEnv, outputs, token, deployed, engine>>

(* Wrong: the recorded token outlives its chain. *)
ForgetTokenKeeps ==
  /\ At("forgetToken", "forgetRollup")
  /\ UNCHANGED <<l1, files, scripts, deployed, engine, faults>>

ForgetToken ==
  /\ At("forgetToken", "forgetRollup")
  /\ tokenEnv' = None
  /\ UNCHANGED <<l1, files, outputsAddresses, outputs, token, deployed, engine, faults>>

(* Wrong: rollup.json is left for the generator to overwrite. *)
ForgetRollupKeeps ==
  /\ At("forgetRollup", "anchor")
  /\ UNCHANGED <<l1, files, scripts, deployed, engine, faults>>

ForgetRollup ==
  /\ At("forgetRollup", "anchor")
  /\ rollupConfig' = None
  /\ UNCHANGED <<l1, l1Addresses, chainGenesis, chainFlags, scripts, deployed, engine, faults>>

(* Wrong: takes the number from the merged view, where the last chain's own *)
(* chain-genesis.env lies above the deployment.                             *)
AnchorRollupMerged ==
  /\ step = "anchor"
  /\ IF l1Addresses # None /\ BlockAt(ChainParams.anchor[2]) = l1Addresses.anchor
     THEN chainGenesis' = l1Addresses.anchor /\ step' = "generate"
     ELSE step' = "idle" /\ UNCHANGED chainGenesis
  /\ UNCHANGED <<l1, l1Addresses, rollupConfig, chainFlags, scripts, deployed, engine, faults>>

(* Dies unless the recorded block is still the block with its number. *)
AnchorRollup ==
  /\ step = "anchor"
  /\ IF l1Addresses # None /\ BlockAt(l1Addresses.anchor[2]) = l1Addresses.anchor
     THEN chainGenesis' = l1Addresses.anchor /\ step' = "generate"
     ELSE step' = "idle" /\ UNCHANGED chainGenesis
  /\ UNCHANGED <<l1, l1Addresses, rollupConfig, chainFlags, scripts, deployed, engine, faults>>

GenerateRollupConfig ==
  /\ At("generate", "flags")
  /\ rollupConfig' = [ChainParams EXCEPT !.time = Flags]
  /\ UNCHANGED <<l1, l1Addresses, chainGenesis, chainFlags, scripts, deployed, engine, faults>>

WriteChainFlags ==
  /\ At("flags", "engine")
  /\ chainFlags' = Flags
  /\ UNCHANGED <<l1, l1Addresses, chainGenesis, rollupConfig, scripts, deployed, engine, faults>>

(* engine.sh takes its flags from chain-flags, op-node its chain from       *)
(* rollup.json; containers that are running are left alone.                 *)
StartEngine ==
  /\ At("engine", "idle")
  /\ engine' = IF engine # None THEN engine
               ELSE [flags |-> chainFlags, rollup |-> rollupConfig, deployment |-> l1Addresses]
  /\ UNCHANGED <<l1, files, scripts, deployed, faults>>

(* A request whose error nothing catches, and the step exits nonzero: the   *)
(* code at the portal (asked for once its anchor was found), the reads of   *)
(* the SystemConfig, the block to anchor to.                                *)
RequestFails ==
  /\ step \in {"contracts", "record", "anchor"} /\ step' = "idle"
  /\ step = "contracts" => l1Addresses # None /\ AnchorStillOnL1(l1Addresses.anchor)
  /\ Fail("rpc", MaxRpcErrors)
  /\ UNCHANGED <<l1, files, scripts, deployed, engine>>

(* must and die: op-deployer or the generator exits nonzero. *)
ProgramFails ==
  /\ step \in {"apply", "generate"} /\ step' = "idle"
  /\ Fail("fail", MaxFailures)
  /\ UNCHANGED <<l1, files, scripts, deployed, engine>>

Kill ==
  /\ step # "idle" /\ step' = "idle"
  /\ Fail("kill", MaxKills)
  /\ UNCHANGED <<l1, files, scripts, deployed, engine>>

-----------------------------------------------------------------------------
(* The scripts, which run beside it, and the L1. *)

(* A record is late when the deployment it was made against has been        *)
(* replaced, or is being replaced, by the time it is written.               *)
Late(chain) == l1Addresses = None \/ l1Addresses.anchor # chain

DeployOutputs ==
  /\ outputs = None /\ Addresses.disputeGameFactory # None
  /\ outputs' = l1Addresses.anchor
  /\ UNCHANGED <<l1, files, outputsAddresses, tokenEnv, token, step, deployed, engine, faults>>

RecordOutputs ==
  /\ outputs # None /\ outputs' = None
  /\ outputsAddresses' = [chain |-> outputs, late |-> Late(outputs)]
  /\ UNCHANGED <<l1, files, tokenEnv, token, step, deployed, engine, faults>>

(* deposit-erc20.ts: a recorded token without code is replaced. *)
DeployToken ==
  /\ token = None
  /\ Config.l1StandardBridge \in l1.suites
  /\ Config.testToken \notin l1.tokens
  /\ LET address == Cardinality(l1.tokens) + 1 IN
     /\ l1' = [l1 EXCEPT !.tokens = @ \cup {address}]
     /\ token' = [chain |-> l1Addresses.anchor, address |-> address]
  /\ UNCHANGED <<files, outputsAddresses, tokenEnv, outputs, step, deployed, engine, faults>>

RecordToken ==
  /\ token # None /\ token' = None
  /\ tokenEnv' = IF token.address \in l1.tokens
                 THEN [chain |-> token.chain, late |-> Late(token.chain), address |-> token.address]
                 ELSE tokenEnv
  /\ UNCHANGED <<l1, files, outputsAddresses, outputs, step, deployed, engine, faults>>

Mine ==
  /\ l1.height < MaxHeight
  /\ l1' = [l1 EXCEPT !.height = @ + 1]
  /\ UNCHANGED <<files, scripts, step, deployed, engine, faults>>

(* A new, empty L1.  Compose leaves the other containers as they are, so an *)
(* engine goes on with a chain whose L1 is gone.                            *)
RestartL1 ==
  /\ l1.inc < MaxRestarts
  /\ l1' = [inc |-> l1.inc + 1, height |-> 0, suites |-> {}, tokens |-> {}]
  /\ UNCHANGED <<files, scripts, step, deployed, engine, faults>>

(* `docker compose stop` of the engine and op-node; of everything, when the *)
(* L1 restarts with it.                                                     *)
Stop ==
  /\ engine # None /\ engine' = None
  /\ UNCHANGED <<l1, files, scripts, step, deployed, faults>>

(* The engine serves a chain whose L1 is the one that is up. *)
Serving == engine # None /\ engine.deployment.anchor[1] = l1.inc

StopStale == ~Serving /\ Stop

-----------------------------------------------------------------------------
Init ==
  /\ l1 = [inc |-> 0, height |-> 0, suites |-> {}, tokens |-> {}]
  /\ l1Addresses = None /\ chainGenesis = None /\ rollupConfig = None /\ chainFlags = None
  /\ outputsAddresses = None /\ tokenEnv = None
  /\ step = "idle" /\ deployed = None /\ outputs = None /\ token = None /\ engine = None
  /\ faults = [kill |-> 0, fail |-> 0, rpc |-> 0]

Steps ==
  \/ Up \/ ContractsDone \/ ForgetDeployment \/ Apply \/ RecordDeployment
  \/ GenesisDone \/ ForgetOutputs \/ ForgetToken \/ ForgetRollup \/ AnchorRollup
  \/ GenerateRollupConfig \/ WriteChainFlags \/ StartEngine

Next ==
  \/ Steps \/ RequestFails \/ ProgramFails \/ Kill
  \/ DeployOutputs \/ RecordOutputs \/ DeployToken \/ RecordToken
  \/ Mine \/ RestartL1 \/ Stop

(* A step that can go on goes on; whoever wants a devnet runs `up` again    *)
(* until there is one, and stops the containers when their L1 is gone:      *)
(* nothing in compose.yaml does.                                            *)
Spec == Init /\ [][Next]_vars /\ WF_vars(Steps) /\ WF_vars(StopStale)

-----------------------------------------------------------------------------
(* Properties. *)

(* The L1, the files, the running step and the processes have their types. *)
TypeOK ==
  /\ l1 \in [inc : Nat, height : Nat, suites : SUBSET Nat, tokens : SUBSET Nat]
  /\ IsFiniteSet(l1.suites) /\ IsFiniteSet(l1.tokens)
  /\ l1Addresses \in Deployment \cup {None}
  /\ chainGenesis \in Block \cup {None} /\ chainFlags \in Block \cup {None}
  /\ rollupConfig \in RollupConfig \cup {None}
  /\ outputsAddresses \in OutputsRecord \cup {None} /\ tokenEnv \in TokenRecord \cup {None}
  /\ step \in {"idle", "contracts", "apply", "record", "genesis", "forgetToken",
               "forgetRollup", "anchor", "generate", "flags", "engine"}
  /\ deployed \in Deployment \cup {None}
  /\ outputs \in Block \cup {None} /\ token \in PendingToken \cup {None}
  /\ engine \in Started \cup {None}
  /\ faults \in [kill : Nat, fail : Nat, rpc : Nat]

(* The flags the engine runs with are those rollup.json was generated with  *)
(* (genesis.ts:9, env.ts:48).                                               *)
FlagsMatchRollup == engine # None => engine.flags = engine.rollup.time

(* Whatever was killed, failed or restarted before, the engine starts on    *)
(* one chain: rollup.json is anchored to the deployment l1-addresses.env    *)
(* records and names its portal (genesis.ts:40-58); and unless a step was   *)
(* killed, with the flags the config was generated with.                    *)
EngineServesOneChain ==
  engine # None =>
    /\ engine.deployment # None
    /\ engine.rollup # None
    /\ engine.rollup.anchor = engine.deployment.anchor
    /\ engine.rollup.portal = engine.deployment.portal
    /\ faults.kill = 0 => FlagsMatchRollup

(* Once rollup.json is that of the recorded deployment, the files the       *)
(* scripts read were written for it (genesis.ts:50-58): a record of the     *)
(* chain it replaced survives only if it was still being made.              *)
ScriptFilesAreCurrent ==
  rollupConfig # None /\ l1Addresses # None =>
    (rollupConfig.anchor = l1Addresses.anchor =>
       \A f \in {outputsAddresses, tokenEnv} \ {None} : f.late \/ f.chain = rollupConfig.anchor)

(* `up` run again leaves alone a chain that is being served and is still on *)
(* L1 (live.ts:3-18), as long as L1 answers.                                *)
RunningChainIsKept ==
  [][Serving /\ Serving' /\ faults'.rpc = 0 => UNCHANGED files]_vars

(* However the files were left by kills, failures and L1 restarts, and      *)
(* however often the containers are stopped, `up` run again ends with an    *)
(* engine serving a chain of the L1 that is up (live.ts:11-18, genesis.ts): *)
(* no leftover makes a step die every time, or passes for a chain already   *)
(* brought up when it is not on that L1.                                    *)
BringupCompletes == []<>Serving

=============================================================================
