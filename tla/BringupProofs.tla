--------------------------- MODULE BringupProofs ---------------------------
(***************************************************************************)
(* Safety of Bringup for every bound on restarts, kills, failures, failed  *)
(* requests and blocks.  The invariants say what each step may rely on of  *)
(* the files the earlier steps left: which of them are there, that they    *)
(* were made for one deployment, and that an anchor block is never given   *)
(* to two deployments.                                                     *)
(***************************************************************************)
EXTENDS Bringup, FiniteSetTheorems, TLAPS

AfterContracts == {"genesis", "forgetToken", "forgetRollup", "anchor",
                   "generate", "flags", "engine"}

(* What the steps of `up` find when their turn comes. *)
StepsFind ==
  /\ step = "record" =>
       deployed # None /\ (rollupConfig # None => rollupConfig.anchor # deployed.anchor)
  /\ step \in AfterContracts => l1Addresses # None
  /\ step \in {"anchor", "generate"} => rollupConfig = None
  /\ step = "generate" => chainGenesis = l1Addresses.anchor
  /\ step \in {"flags", "engine"} =>
       rollupConfig # None /\ rollupConfig.anchor = l1Addresses.anchor
  /\ step = "engine" => chainFlags # None

(* rollup.json was generated from the chain-genesis.env that is there. *)
RollupFromGenesis ==
  rollupConfig # None =>
    /\ chainGenesis # None
    /\ rollupConfig.anchor = chainGenesis /\ rollupConfig.time = chainGenesis

(* An L1 block that exists, or existed on an L1 that is gone. *)
Past(a) == a[1] < l1.inc \/ (a[1] = l1.inc /\ a[2] <= l1.height)

AnchorsArePast ==
  /\ deployed # None => Past(deployed.anchor)
  /\ l1Addresses # None => Past(l1Addresses.anchor)
  /\ rollupConfig # None => Past(rollupConfig.anchor)
  /\ engine # None => Past(engine.deployment.anchor)

(* Whoever names the same anchor block names the same portal. *)
OnePortal ==
  /\ deployed # None /\ l1Addresses # None =>
       (deployed.anchor = l1Addresses.anchor => deployed.portal = l1Addresses.portal)
  /\ deployed # None /\ rollupConfig # None =>
       (deployed.anchor = rollupConfig.anchor => deployed.portal = rollupConfig.portal)
  /\ l1Addresses # None /\ rollupConfig # None =>
       (l1Addresses.anchor = rollupConfig.anchor => l1Addresses.portal = rollupConfig.portal)

(* A deployment on the L1 that is up has its contracts there. *)
SuitesAreLive ==
  /\ deployed # None => (deployed.anchor[1] = l1.inc => deployed.portal \in l1.suites)
  /\ l1Addresses # None => (l1Addresses.anchor[1] = l1.inc => l1Addresses.portal \in l1.suites)

FlagsAgree ==
  faults.kill = 0 /\ rollupConfig # None /\ chainFlags # None /\ step # "flags" =>
    chainFlags = rollupConfig.time

(* From the removal of a script's file to the next rollup.json, whatever    *)
(* the script writes again is about the recorded deployment, or late.       *)
Current(f) == f # None => f.late \/ f.chain = l1Addresses.anchor

ScriptsStartOver ==
  /\ step \in {"forgetToken", "forgetRollup", "anchor", "generate"} => Current(outputsAddresses)
  /\ step \in {"forgetRollup", "anchor", "generate"} => Current(tokenEnv)

(* While a chain is served and L1 answers, `up` finds nothing to do. *)
ServedIsLive ==
  Serving /\ faults.rpc = 0 =>
    /\ step \in {"idle", "contracts", "genesis", "engine"}
    /\ DeploymentStillOnL1(l1Addresses) /\ AlreadyAnchored

IInv == /\ TypeOK /\ StepsFind /\ RollupFromGenesis /\ AnchorsArePast /\ OnePortal
        /\ SuitesAreLive /\ FlagsAgree /\ ScriptsStartOver /\ ServedIsLive
        /\ EngineServesOneChain /\ ScriptFilesAreCurrent

USE NoneAssumption

-----------------------------------------------------------------------------
\* A fault counted is still a number of faults.
LEMMA FaultsCount ==
    ASSUME TypeOK, NEW kind \in {"kill", "fail", "rpc"}, NEW max, Fail(kind, max)
    PROVE  /\ faults' \in [kill : Nat, fail : Nat, rpc : Nat]
           /\ faults'[kind] > 0
           /\ \A k \in {"kill", "fail", "rpc"} \ {kind} : faults'[k] = faults[k]
  BY DEF Fail, TypeOK

\* The next free address is a number, and handing it out keeps the set finite.
LEMMA NextAddress ==
    ASSUME NEW S \in SUBSET Nat, IsFiniteSet(S)
    PROVE  /\ Cardinality(S) + 1 \in Nat
           /\ S \cup {Cardinality(S) + 1} \in SUBSET Nat
           /\ IsFiniteSet(S \cup {Cardinality(S) + 1})
<1>1. Cardinality(S) \in Nat  BY FS_CardinalityType
<1>2. IsFiniteSet(S \cup {Cardinality(S) + 1})  BY FS_AddElement
<1>3. Cardinality(S) + 1 \in Nat  BY <1>1
<1>4. S \cup {Cardinality(S) + 1} \in SUBSET Nat  BY <1>3
<1> QED  BY <1>2, <1>3, <1>4

\* What the address files say has the types genesis.ts and run.ts expect.
LEMMA ParamsType ==
    ASSUME TypeOK
    PROVE  /\ ChainParams \in RollupConfig
           /\ Flags \in Block
           /\ chainGenesis # None => Flags = chainGenesis /\ ChainParams.anchor = chainGenesis
           /\ l1Addresses # None => ChainParams.portal = l1Addresses.portal
  BY DEF TypeOK, ChainParams, Flags, DeploymentVars, Default, Block, Deployment, RollupConfig

\* Every action keeps the types.
LEMMA TypeStep ==
    ASSUME TypeOK, StepsFind, Next
    PROVE  TypeOK'
<1> USE DEF TypeOK, At, files, scripts
<1>1. CASE Up \/ ContractsDone \/ GenesisDone
  BY <1>1 DEF Up, ContractsDone, GenesisDone
<1>2. CASE ForgetDeployment  BY <1>2, FaultsCount DEF ForgetDeployment
<1>3. CASE Apply
  <2> DEFINE portal == Cardinality(l1.suites) + 1
  <2>1. /\ l1' = [l1 EXCEPT !.height = @ + 1, !.suites = @ \cup {portal}]
        /\ deployed' = [portal |-> portal, anchor |-> <<l1.inc, l1.height + 1>>]
    BY <1>3 DEF Apply
  <2>2. /\ portal \in Nat /\ l1.suites \cup {portal} \in SUBSET Nat
        /\ IsFiniteSet(l1.suites \cup {portal})
    BY NextAddress
  <2> HIDE DEF portal
  <2>3. deployed' \in Deployment  BY <2>1, <2>2 DEF Deployment, Block
  <2>4. l1' \in [inc : Nat, height : Nat, suites : SUBSET Nat, tokens : SUBSET Nat]
    <3>1. l1.suites \cup {portal} \subseteq Nat  BY <2>2
    <3>2. l1.height + 1 \in Nat  OBVIOUS
    <3> QED  BY <2>1, <3>1, <3>2
  <2>5. l1'.suites = l1.suites \cup {portal} /\ l1'.tokens = l1.tokens  BY <2>1
  <2> QED  BY <1>3, <2>2, <2>3, <2>4, <2>5 DEF Apply
<1>4. CASE RecordDeployment  BY <1>4 DEF RecordDeployment, StepsFind
<1>5. CASE ForgetOutputs  BY <1>5, FaultsCount DEF ForgetOutputs
<1>6. CASE ForgetToken \/ ForgetRollup  BY <1>6 DEF ForgetToken, ForgetRollup
<1>7. CASE AnchorRollup  BY <1>7 DEF AnchorRollup, Deployment
<1>8. CASE GenerateRollupConfig
  BY <1>8, ParamsType DEF GenerateRollupConfig, RollupConfig
<1>9. CASE WriteChainFlags  BY <1>9, ParamsType DEF WriteChainFlags
<1>10. CASE StartEngine  BY <1>10 DEF StartEngine, Started
<1>11. CASE RequestFails \/ ProgramFails \/ Kill
  BY <1>11, FaultsCount DEF RequestFails, ProgramFails, Kill
<1>12. CASE DeployOutputs
  BY <1>12 DEF DeployOutputs, Addresses, DeploymentVars, Deployment
<1>13. CASE RecordOutputs  BY <1>13 DEF RecordOutputs, OutputsRecord, Late
<1>14. CASE DeployToken
  <2> DEFINE address == Cardinality(l1.tokens) + 1
  <2>1. /\ l1' = [l1 EXCEPT !.tokens = @ \cup {address}]
        /\ token' = [chain |-> l1Addresses.anchor, address |-> address]
    BY <1>14 DEF DeployToken
  <2>2. /\ address \in Nat /\ l1.tokens \cup {address} \in SUBSET Nat
        /\ IsFiniteSet(l1.tokens \cup {address})
    BY NextAddress
  <2>3. l1Addresses # None  BY <1>14 DEF DeployToken, Config, DeploymentVars
  <2> HIDE DEF address
  <2>4. token' \in PendingToken  BY <2>1, <2>2, <2>3 DEF PendingToken, Deployment
  <2>5. l1' \in [inc : Nat, height : Nat, suites : SUBSET Nat, tokens : SUBSET Nat]
    BY <2>1, <2>2
  <2>6. l1'.tokens = l1.tokens \cup {address} /\ l1'.suites = l1.suites  BY <2>1
  <2>7. UNCHANGED <<files, outputsAddresses, tokenEnv, outputs, step, deployed, engine, faults>>
    BY <1>14 DEF DeployToken
  <2> QED  BY <2>2, <2>4, <2>5, <2>6, <2>7
<1>15. CASE RecordToken
  BY <1>15 DEF RecordToken, PendingToken, TokenRecord, Late
<1>16. CASE Mine  BY <1>16 DEF Mine
<1>17. CASE RestartL1
  <2>1. IsFiniteSet({})  BY FS_EmptySet
  <2> QED  BY <1>17, <2>1 DEF RestartL1
<1>18. CASE Stop  BY <1>18 DEF Stop
<1> QED  BY <1>1, <1>2, <1>3, <1>4, <1>5, <1>6, <1>7, <1>8, <1>9, <1>10, <1>11, <1>12,
            <1>13, <1>14, <1>15, <1>16, <1>17, <1>18 DEF Next, Steps

-----------------------------------------------------------------------------
(***************************************************************************)
(* Preservation, action by action.  The types of the next state are        *)
(* assumed: TypeStep gives them.                                           *)
(***************************************************************************)
Rest == /\ StepsFind /\ RollupFromGenesis /\ AnchorsArePast /\ OnePortal
        /\ SuitesAreLive /\ FlagsAgree /\ ScriptsStartOver /\ ServedIsLive
        /\ EngineServesOneChain /\ ScriptFilesAreCurrent

\* Steps that only look: `up` starts, or finds that a step has nothing to do.
LEMMA LookPreserves ==
    ASSUME IInv, Up \/ ContractsDone \/ GenesisDone
    PROVE  Rest'
<1> USE DEF Up, ContractsDone, GenesisDone, At, files, scripts
<1>1. StepsFind'
  BY DEF IInv, StepsFind, AfterContracts, RollupFromGenesis, DeploymentStillOnL1, AlreadyAnchored
<1>2. RollupFromGenesis' /\ AnchorsArePast' /\ OnePortal' /\ SuitesAreLive'
  BY DEF IInv, RollupFromGenesis, AnchorsArePast, Past, OnePortal, SuitesAreLive
<1>3. FlagsAgree' /\ ScriptsStartOver'
  BY DEF IInv, FlagsAgree, ScriptsStartOver, Current
<1>4. ServedIsLive'
  BY DEF IInv, ServedIsLive, Serving, DeploymentStillOnL1, AlreadyAnchored, AnchorStillOnL1, BlockAt
<1>5. EngineServesOneChain' /\ ScriptFilesAreCurrent'
  BY DEF IInv, EngineServesOneChain, FlagsMatchRollup, ScriptFilesAreCurrent
<1> QED  BY <1>1, <1>2, <1>3, <1>4, <1>5 DEF Rest

\* l1-contracts.ts forgets a record only if L1 no longer has the deployment or
\* did not answer, and no chain is being served then.
LEMMA ForgetDeploymentPreserves ==
    ASSUME IInv, ForgetDeployment
    PROVE  Rest'
<1> USE DEF ForgetDeployment, At, files, scripts
<1>0. /\ step = "contracts" /\ step' = "apply" /\ l1Addresses' = None
      /\ UNCHANGED <<l1, chainGenesis, rollupConfig, chainFlags, scripts, deployed, engine>>
      /\ faults'.kill = faults.kill
      /\ (faults' = faults /\ ~DeploymentStillOnL1(l1Addresses)) \/ faults'.rpc > 0
  BY FaultsCount DEF IInv
<1>1. StepsFind' /\ ScriptsStartOver' /\ ScriptFilesAreCurrent'
  BY <1>0 DEF StepsFind, AfterContracts, ScriptsStartOver, ScriptFilesAreCurrent
<1>2. RollupFromGenesis' /\ AnchorsArePast' /\ OnePortal' /\ SuitesAreLive'
  BY <1>0 DEF IInv, RollupFromGenesis, AnchorsArePast, Past, OnePortal, SuitesAreLive
<1>3. FlagsAgree'  BY <1>0 DEF IInv, FlagsAgree
<1>4. ServedIsLive'  BY <1>0 DEF IInv, ServedIsLive, Serving, TypeOK
<1>5. EngineServesOneChain'  BY <1>0 DEF IInv, EngineServesOneChain, FlagsMatchRollup
<1> QED  BY <1>1, <1>2, <1>3, <1>4, <1>5 DEF Rest

\* op-deployer mines the block that becomes the anchor, so that no file names
\* it yet.
LEMMA ApplyPreserves ==
    ASSUME IInv, Apply
    PROVE  Rest'
<1> DEFINE portal == Cardinality(l1.suites) + 1
<1>0. /\ step = "apply" /\ step' = "record"
      /\ l1'.inc = l1.inc /\ l1'.height = l1.height + 1 /\ l1'.suites = l1.suites \cup {portal}
      /\ deployed' = [portal |-> portal, anchor |-> <<l1.inc, l1.height + 1>>]
      /\ UNCHANGED <<l1Addresses, chainGenesis, rollupConfig, chainFlags, outputsAddresses,
                     tokenEnv, engine, faults>>
  BY DEF Apply, At, files, scripts, IInv, TypeOK
<1> HIDE DEF portal
<1>1. deployed' \in Deployment
  <2>1. portal \in Nat  BY NextAddress DEF portal, IInv, TypeOK
  <2> QED  BY <1>0, <2>1 DEF Deployment, Block, IInv, TypeOK
<1>2. /\ deployed' # None /\ deployed'.portal = portal
      /\ deployed'.anchor[1] = l1.inc /\ deployed'.anchor[2] = l1.height + 1
  BY <1>0, <1>1
<1>3. l1.inc \in Nat /\ l1.height \in Nat  BY DEF IInv, TypeOK
<1>4. \A a \in Block : Past(a) => Past(a)' /\ a # deployed'.anchor
  BY <1>0, <1>2, <1>3 DEF Past, Block
<1>a. /\ l1Addresses # None => l1Addresses.anchor \in Block
      /\ rollupConfig # None => rollupConfig.anchor \in Block
      /\ engine # None => engine.deployment.anchor \in Block
  BY DEF IInv, TypeOK, Deployment, RollupConfig, EngineServesOneChain, Started
<1>5. AnchorsArePast'  BY <1>0, <1>2, <1>3, <1>4, <1>a DEF IInv, AnchorsArePast, Past
<1>6. OnePortal'  BY <1>0, <1>4, <1>a DEF IInv, AnchorsArePast, OnePortal
<1>7. SuitesAreLive'  BY <1>0, <1>2 DEF IInv, SuitesAreLive
<1>8. StepsFind'  BY <1>0, <1>2, <1>4, <1>a DEF IInv, AnchorsArePast, StepsFind, AfterContracts
<1>9. RollupFromGenesis' /\ FlagsAgree' /\ ScriptsStartOver'
  BY <1>0 DEF IInv, RollupFromGenesis, FlagsAgree, ScriptsStartOver
<1>10. ServedIsLive'  BY <1>0 DEF IInv, ServedIsLive, Serving
<1>11. EngineServesOneChain' /\ ScriptFilesAreCurrent'
  BY <1>0 DEF IInv, EngineServesOneChain, FlagsMatchRollup, ScriptFilesAreCurrent
<1> QED  BY <1>5, <1>6, <1>7, <1>8, <1>9, <1>10, <1>11 DEF Rest

\* The record of a deployment never meets a rollup.json of the same anchor.
LEMMA RecordDeploymentPreserves ==
    ASSUME IInv, RecordDeployment
    PROVE  Rest'
<1>0. /\ step = "record" /\ deployed # None
      /\ \/ l1Addresses' = deployed /\ step' = "genesis"
         \/ l1Addresses' = l1Addresses /\ step' = "idle"
      /\ UNCHANGED <<l1, chainGenesis, rollupConfig, chainFlags, outputsAddresses, tokenEnv,
                     deployed, engine, faults>>
  BY DEF RecordDeployment, scripts, IInv, StepsFind
<1>1. rollupConfig # None => rollupConfig.anchor # deployed.anchor  BY <1>0 DEF IInv, StepsFind
<1>2. StepsFind'  BY <1>0 DEF StepsFind, AfterContracts
<1>3. RollupFromGenesis' /\ FlagsAgree' /\ ScriptsStartOver'
  BY <1>0 DEF IInv, RollupFromGenesis, FlagsAgree, ScriptsStartOver
<1>4. AnchorsArePast' /\ OnePortal' /\ SuitesAreLive'
  BY <1>0, <1>1 DEF IInv, AnchorsArePast, Past, OnePortal, SuitesAreLive
<1>5. ServedIsLive'  BY <1>0 DEF IInv, ServedIsLive, Serving
<1>6. EngineServesOneChain'  BY <1>0 DEF IInv, EngineServesOneChain, FlagsMatchRollup
<1>7. ScriptFilesAreCurrent'  BY <1>0, <1>1 DEF IInv, ScriptFilesAreCurrent
<1> QED  BY <1>2, <1>3, <1>4, <1>5, <1>6, <1>7 DEF Rest

\* genesis.ts removes what was made for the last chain.  It gets there only if
\* the files disagree or L1 did not answer, so no chain is being served.
LEMMA ForgetPreserves ==
    ASSUME IInv, ForgetOutputs \/ ForgetToken \/ ForgetRollup
    PROVE  Rest'
<1> USE DEF ForgetOutputs, ForgetToken, ForgetRollup, At, files, scripts
<1>0. /\ UNCHANGED <<l1, l1Addresses, chainGenesis, chainFlags, deployed, engine>>
      /\ faults'.kill = faults.kill
      /\ \/ step = "genesis" /\ step' = "forgetToken"
         \/ step = "forgetToken" /\ step' = "forgetRollup"
         \/ step = "forgetRollup" /\ step' = "anchor"
      /\ rollupConfig' = rollupConfig \/ rollupConfig' = None
      /\ outputsAddresses' = outputsAddresses \/ outputsAddresses' = None
      /\ tokenEnv' = tokenEnv \/ tokenEnv' = None
  BY FaultsCount DEF IInv
<1>1. StepsFind'  BY <1>0 DEF IInv, StepsFind, AfterContracts
<1>2. RollupFromGenesis' /\ AnchorsArePast' /\ OnePortal' /\ SuitesAreLive'
  BY <1>0 DEF IInv, RollupFromGenesis, AnchorsArePast, Past, OnePortal, SuitesAreLive
<1>3. FlagsAgree'  BY <1>0 DEF IInv, FlagsAgree
<1>4. ScriptsStartOver'  BY DEF IInv, ScriptsStartOver, Current
<1>5. ServedIsLive'
  <2>1. faults' = faults \/ faults'.rpc > 0  BY FaultsCount DEF IInv
  <2>2. step = "genesis" /\ faults' = faults => ~AlreadyAnchored \/ faults'.rpc > 0
    BY FaultsCount DEF IInv
  <2> QED  BY <1>0, <2>1, <2>2 DEF IInv, ServedIsLive, Serving
<1>6. EngineServesOneChain'  BY <1>0 DEF IInv, EngineServesOneChain, FlagsMatchRollup
<1>7. ScriptFilesAreCurrent'  BY <1>0 DEF IInv, ScriptFilesAreCurrent
<1> QED  BY <1>1, <1>2, <1>3, <1>4, <1>5, <1>6, <1>7 DEF Rest

\* genesis.ts, writing: the anchor, rollup.json and the flags, in this order.
LEMMA WritePreserves ==
    ASSUME IInv, AnchorRollup \/ GenerateRollupConfig \/ WriteChainFlags
    PROVE  Rest'
<1> USE DEF At, files, scripts
<1>0. /\ UNCHANGED <<l1, l1Addresses, outputsAddresses, tokenEnv, deployed, engine, faults>>
      /\ step \in {"anchor", "generate", "flags"} /\ l1Addresses # None
  BY DEF AnchorRollup, GenerateRollupConfig, WriteChainFlags, IInv, StepsFind, AfterContracts
<1>1. SuitesAreLive' /\ EngineServesOneChain'
  BY <1>0 DEF IInv, SuitesAreLive, EngineServesOneChain, FlagsMatchRollup
<1>2. ServedIsLive'  BY <1>0 DEF IInv, ServedIsLive, Serving
<1>3. CASE AnchorRollup
  <2>0. /\ rollupConfig = None /\ rollupConfig' = None
        /\ \/ chainGenesis' = l1Addresses.anchor /\ step' = "generate"
           \/ chainGenesis' = chainGenesis /\ step' = "idle"
    BY <1>3 DEF AnchorRollup, IInv, StepsFind
  <2>1. StepsFind' /\ ScriptsStartOver'
    BY <1>0, <1>3, <2>0 DEF IInv, StepsFind, AfterContracts, AnchorRollup, ScriptsStartOver, Current
  <2>2. RollupFromGenesis' /\ AnchorsArePast' /\ OnePortal' /\ FlagsAgree' /\ ScriptFilesAreCurrent'
    BY <1>0, <2>0 DEF IInv, RollupFromGenesis, AnchorsArePast, Past, OnePortal, FlagsAgree,
                      ScriptFilesAreCurrent
  <2> QED  BY <1>1, <1>2, <2>1, <2>2 DEF Rest
<1>4. CASE GenerateRollupConfig
  <2>0. /\ step = "generate" /\ step' = "flags"
        /\ rollupConfig' = [ChainParams EXCEPT !.time = Flags]
        /\ UNCHANGED <<chainGenesis, chainFlags>>
        /\ chainGenesis = l1Addresses.anchor
    BY <1>4 DEF GenerateRollupConfig, IInv, StepsFind
  <2>1. /\ rollupConfig' \in RollupConfig /\ chainGenesis # None
        /\ rollupConfig'.anchor = chainGenesis /\ rollupConfig'.time = chainGenesis
        /\ rollupConfig'.portal = l1Addresses.portal
    BY <1>0, <2>0, ParamsType DEF IInv, TypeOK, Deployment, RollupConfig
  <2>2. rollupConfig' # None  BY <2>1
  <2>3. StepsFind' /\ RollupFromGenesis' /\ FlagsAgree'
    BY <1>0, <2>0, <2>1, <2>2 DEF StepsFind, AfterContracts, RollupFromGenesis, FlagsAgree
  <2>4. AnchorsArePast' /\ OnePortal'
    BY <1>0, <2>0, <2>1, <2>2 DEF IInv, AnchorsArePast, Past, OnePortal
  <2>5. ScriptsStartOver' /\ ScriptFilesAreCurrent'
    BY <1>0, <2>0, <2>1 DEF IInv, ScriptsStartOver, Current, ScriptFilesAreCurrent
  <2> QED  BY <1>1, <1>2, <2>3, <2>4, <2>5 DEF Rest
<1>5. CASE WriteChainFlags
  <2>0. /\ step = "flags" /\ step' = "engine" /\ chainFlags' = Flags
        /\ UNCHANGED <<chainGenesis, rollupConfig>>
        /\ rollupConfig # None
    BY <1>5 DEF WriteChainFlags, IInv, StepsFind
  <2>1. /\ chainFlags' # None /\ chainFlags' = rollupConfig.time
    BY <2>0, ParamsType DEF IInv, TypeOK, RollupFromGenesis
  <2>2. StepsFind' /\ RollupFromGenesis' /\ FlagsAgree'
    BY <1>0, <2>0, <2>1 DEF IInv, StepsFind, AfterContracts, RollupFromGenesis, FlagsAgree
  <2>3. AnchorsArePast' /\ OnePortal' /\ ScriptsStartOver' /\ ScriptFilesAreCurrent'
    BY <1>0, <2>0 DEF IInv, AnchorsArePast, Past, OnePortal, ScriptsStartOver, ScriptFilesAreCurrent
  <2> QED  BY <1>1, <1>2, <2>2, <2>3 DEF Rest
<1> QED  BY <1>3, <1>4, <1>5

\* The engine starts on the deployment, the rollup.json and the flags that the
\* steps before it left, and what it then serves is on L1.
LEMMA StartEnginePreserves ==
    ASSUME IInv, TypeOK', StartEngine
    PROVE  Rest'
<1> USE DEF At, files, scripts
<1>0. /\ step = "engine" /\ step' = "idle"
      /\ UNCHANGED <<l1, l1Addresses, chainGenesis, rollupConfig, chainFlags, outputsAddresses,
                     tokenEnv, deployed, faults>>
      /\ engine' = IF engine # None THEN engine
                   ELSE [flags |-> chainFlags, rollup |-> rollupConfig, deployment |-> l1Addresses]
  BY DEF StartEngine
<1>1. /\ l1Addresses # None /\ rollupConfig # None /\ chainFlags # None
      /\ rollupConfig.anchor = l1Addresses.anchor
      /\ chainGenesis = l1Addresses.anchor
  BY <1>0 DEF IInv, StepsFind, AfterContracts, RollupFromGenesis
<1>2. StepsFind' /\ ScriptsStartOver' /\ ScriptFilesAreCurrent'
  BY <1>0 DEF IInv, StepsFind, AfterContracts, ScriptsStartOver, ScriptFilesAreCurrent
<1>3. RollupFromGenesis' /\ AnchorsArePast' /\ OnePortal' /\ SuitesAreLive' /\ FlagsAgree'
  BY <1>0, <1>1
     DEF IInv, RollupFromGenesis, AnchorsArePast, Past, OnePortal, SuitesAreLive, FlagsAgree
<1>4. EngineServesOneChain'
  BY <1>0, <1>1 DEF IInv, EngineServesOneChain, FlagsMatchRollup, OnePortal, FlagsAgree
<1>5. ServedIsLive'
  <2>1. CASE engine # None
    BY <1>0, <2>1 DEF IInv, ServedIsLive, Serving, DeploymentStillOnL1, AlreadyAnchored,
                      AnchorStillOnL1, BlockAt
  <2>2. CASE engine = None
    <3> SUFFICES ASSUME Serving' PROVE DeploymentStillOnL1(l1Addresses) /\ AlreadyAnchored
      BY <1>0 DEF ServedIsLive, DeploymentStillOnL1, AlreadyAnchored, AnchorStillOnL1, BlockAt
    <3>1. l1Addresses.anchor \in Block /\ l1Addresses.anchor # None
      BY <1>1 DEF IInv, TypeOK, Deployment
    <3>2. l1Addresses.anchor[1] = l1.inc  BY <1>0, <2>2 DEF Serving
    <3>3. /\ l1Addresses.anchor[2] <= l1.height /\ l1Addresses.portal \in l1.suites
          /\ l1Addresses.anchor = <<l1.inc, l1Addresses.anchor[2]>>
      BY <1>1, <3>1, <3>2 DEF IInv, TypeOK, AnchorsArePast, Past, SuitesAreLive, Block
    <3> QED
      BY <1>1, <3>1, <3>3 DEF DeploymentStillOnL1, AlreadyAnchored, AnchorStillOnL1, BlockAt
  <2> QED  BY <2>1, <2>2
<1> QED  BY <1>2, <1>3, <1>4, <1>5 DEF Rest

\* A step may end anywhere.  Killed between rollup.json and chain-flags, it may
\* leave flags of another chain behind, which is why FlagsAgree is about runs in
\* which no step was killed.
LEMMA StepEndPreserves ==
    ASSUME IInv, RequestFails \/ ProgramFails \/ Kill
    PROVE  Rest'
<1> USE DEF RequestFails, ProgramFails, Kill, files, scripts
<1>0. /\ step' = "idle"
      /\ UNCHANGED <<l1, l1Addresses, chainGenesis, rollupConfig, chainFlags, outputsAddresses,
                     tokenEnv, deployed, engine>>
      /\ faults'.rpc = faults.rpc \/ faults'.rpc > 0
      /\ (step # "flags" /\ faults'.kill = faults.kill) \/ faults'.kill > 0
  BY FaultsCount DEF IInv
<1>1. StepsFind' /\ ScriptsStartOver' /\ ScriptFilesAreCurrent'
  BY <1>0 DEF IInv, StepsFind, AfterContracts, ScriptsStartOver, ScriptFilesAreCurrent
<1>2. RollupFromGenesis' /\ AnchorsArePast' /\ OnePortal' /\ SuitesAreLive'
  BY <1>0 DEF IInv, RollupFromGenesis, AnchorsArePast, Past, OnePortal, SuitesAreLive
<1>3. FlagsAgree'
  <2>1. CASE faults'.kill > 0
    <3>1. faults'.kill # 0  BY <2>1
    <3> QED  BY <3>1 DEF FlagsAgree
  <2>2. CASE step # "flags" /\ faults'.kill = faults.kill
    BY <1>0, <2>2 DEF IInv, FlagsAgree
  <2> QED  BY <1>0, <2>1, <2>2
<1>4. ServedIsLive'
  <2>1. faults'.rpc = 0 => faults.rpc = 0  BY <1>0
  <2> QED
    BY <1>0, <2>1 DEF IInv, ServedIsLive, Serving, DeploymentStillOnL1, AlreadyAnchored,
                      AnchorStillOnL1, BlockAt
<1>5. EngineServesOneChain'
  <2>1. faults'.kill = 0 => faults.kill = 0  BY <1>0
  <2> QED  BY <1>0, <2>1 DEF IInv, EngineServesOneChain, FlagsMatchRollup
<1> QED  BY <1>1, <1>2, <1>3, <1>4, <1>5 DEF Rest

\* Stopped containers leave the files as they are.
LEMMA StopPreserves ==
    ASSUME IInv, Stop
    PROVE  Rest'
<1>0. /\ engine' = None
      /\ UNCHANGED <<l1, l1Addresses, chainGenesis, rollupConfig, chainFlags, outputsAddresses,
                     tokenEnv, step, deployed, faults>>
  BY DEF Stop, files, scripts
<1>1. StepsFind' /\ ScriptsStartOver' /\ ScriptFilesAreCurrent'
  BY <1>0 DEF IInv, StepsFind, AfterContracts, ScriptsStartOver, Current, ScriptFilesAreCurrent
<1>2. RollupFromGenesis' /\ AnchorsArePast' /\ OnePortal' /\ SuitesAreLive' /\ FlagsAgree'
  BY <1>0 DEF IInv, RollupFromGenesis, AnchorsArePast, Past, OnePortal, SuitesAreLive, FlagsAgree
<1>3. ServedIsLive' /\ EngineServesOneChain'
  BY <1>0 DEF ServedIsLive, Serving, EngineServesOneChain
<1> QED  BY <1>1, <1>2, <1>3 DEF Rest

\* What a script writes is about the recorded deployment, or late.
LEMMA ScriptsPreserve ==
    ASSUME IInv, TypeOK', DeployOutputs \/ RecordOutputs \/ DeployToken \/ RecordToken
    PROVE  Rest'
<1> USE DEF DeployOutputs, RecordOutputs, DeployToken, RecordToken, files
<1>0. /\ l1'.inc = l1.inc /\ l1'.height = l1.height /\ l1'.suites = l1.suites
      /\ UNCHANGED <<l1Addresses, chainGenesis, rollupConfig, chainFlags, step, deployed,
                     engine, faults>>
  BY DEF IInv, TypeOK
<1>1. /\ outputsAddresses' # outputsAddresses /\ l1Addresses # None => Current(outputsAddresses')
      /\ tokenEnv' # tokenEnv /\ l1Addresses # None => Current(tokenEnv')
  <2>1. CASE RecordOutputs
    <3>1. outputsAddresses'.chain = outputs /\ outputsAddresses'.late = Late(outputs)
      BY <2>1 DEF RecordOutputs
    <3> QED  BY <2>1, <3>1 DEF RecordOutputs, Current, Late
  <2>2. CASE RecordToken /\ tokenEnv' # tokenEnv
    <3>1. tokenEnv'.chain = token.chain /\ tokenEnv'.late = Late(token.chain)
      BY <2>2 DEF RecordToken
    <3> QED  BY <2>2, <3>1 DEF RecordToken, Current, Late
  <2>3. CASE DeployOutputs \/ DeployToken \/ (RecordToken /\ tokenEnv' = tokenEnv)
    BY <2>3 DEF DeployOutputs, DeployToken, RecordToken
  <2> QED  BY <2>1, <2>2, <2>3
<1>2. StepsFind' /\ RollupFromGenesis' /\ AnchorsArePast' /\ OnePortal' /\ SuitesAreLive'
  BY <1>0 DEF IInv, StepsFind, RollupFromGenesis, AnchorsArePast, Past, OnePortal, SuitesAreLive
<1>3. FlagsAgree' /\ EngineServesOneChain'
  BY <1>0 DEF IInv, FlagsAgree, EngineServesOneChain, FlagsMatchRollup
<1>4. ServedIsLive'
  BY <1>0 DEF IInv, ServedIsLive, Serving, DeploymentStillOnL1, AlreadyAnchored, AnchorStillOnL1,
              BlockAt
<1>5. ScriptsStartOver'
  BY <1>0, <1>1 DEF IInv, StepsFind, AfterContracts, ScriptsStartOver, Current
<1>6. ScriptFilesAreCurrent'
  BY <1>0, <1>1 DEF IInv, ScriptFilesAreCurrent, Current
<1> QED  BY <1>2, <1>3, <1>4, <1>5, <1>6 DEF Rest

\* L1 blocks only make anchors older; a restarted L1 ends what was served.
LEMMA L1Preserves ==
    ASSUME IInv, Mine \/ RestartL1
    PROVE  Rest'
<1> USE DEF Mine, RestartL1, files, scripts
<1>0. UNCHANGED <<l1Addresses, chainGenesis, rollupConfig, chainFlags, outputsAddresses, tokenEnv,
                  step, deployed, engine, faults>>
  OBVIOUS
<1>1. l1.inc \in Nat /\ l1.height \in Nat  BY DEF IInv, TypeOK
<1>2. \/ l1'.inc = l1.inc /\ l1'.height = l1.height + 1 /\ l1'.suites = l1.suites
      \/ l1'.inc = l1.inc + 1
  BY DEF IInv, TypeOK
<1>3. \A a \in Block : Past(a) => Past(a)' /\ (l1'.inc = l1.inc + 1 => a[1] # l1'.inc)
  BY <1>1, <1>2 DEF Past, Block
<1>4. /\ deployed # None => deployed.anchor \in Block
      /\ l1Addresses # None => l1Addresses.anchor \in Block
      /\ rollupConfig # None => rollupConfig.anchor \in Block
      /\ engine # None => engine.deployment.anchor \in Block
  BY DEF IInv, TypeOK, Deployment, RollupConfig, EngineServesOneChain, Started
<1>5. AnchorsArePast'  BY <1>0, <1>3, <1>4 DEF IInv, AnchorsArePast
<1>6. SuitesAreLive'
  BY <1>0, <1>2, <1>3, <1>4 DEF IInv, AnchorsArePast, SuitesAreLive
<1>7. StepsFind' /\ RollupFromGenesis' /\ OnePortal' /\ FlagsAgree'
  BY <1>0 DEF IInv, StepsFind, RollupFromGenesis, OnePortal, FlagsAgree
<1>8. ScriptsStartOver' /\ ScriptFilesAreCurrent'
  BY <1>0 DEF IInv, ScriptsStartOver, Current, ScriptFilesAreCurrent
<1>9. EngineServesOneChain'
  BY <1>0, <1>2 DEF IInv, EngineServesOneChain, FlagsMatchRollup
<1>10. ServedIsLive'
  <2>1. CASE l1'.inc = l1.inc + 1
    BY <1>0, <1>3, <1>4, <2>1 DEF IInv, AnchorsArePast, ServedIsLive, Serving
  <2>2. CASE /\ l1'.inc = l1.inc /\ l1'.height = l1.height + 1
             /\ l1'.suites = l1.suites
    <3>1. \A a \in Block : AnchorStillOnL1(a) => AnchorStillOnL1(a)'
      BY <1>1, <2>2 DEF AnchorStillOnL1, BlockAt, Block
    <3> QED  BY <1>0, <1>4, <2>2, <3>1 DEF IInv, ServedIsLive, Serving, DeploymentStillOnL1,
                                           AlreadyAnchored
  <2> QED  BY <1>2, <2>1, <2>2
<1> QED  BY <1>5, <1>6, <1>7, <1>8, <1>9, <1>10 DEF Rest

\* Steps that change nothing.
LEMMA StutterPreserves == IInv /\ UNCHANGED vars => IInv'
<1> SUFFICES ASSUME IInv, UNCHANGED vars PROVE IInv'  OBVIOUS
<1>0. /\ UNCHANGED <<l1, l1Addresses, chainGenesis, rollupConfig, chainFlags, outputsAddresses>>
      /\ UNCHANGED <<tokenEnv, outputs, token, step, deployed, engine, faults>>
  BY DEF vars, files, scripts
<1>1. TypeOK'  BY <1>0 DEF IInv, TypeOK
<1>2. StepsFind' /\ RollupFromGenesis' /\ AnchorsArePast' /\ OnePortal' /\ SuitesAreLive'
  BY <1>0 DEF IInv, StepsFind, RollupFromGenesis, AnchorsArePast, Past, OnePortal, SuitesAreLive
<1>3. FlagsAgree' /\ ScriptsStartOver' /\ ScriptFilesAreCurrent'
  BY <1>0 DEF IInv, FlagsAgree, ScriptsStartOver, Current, ScriptFilesAreCurrent
<1>4. ServedIsLive'
  BY <1>0 DEF IInv, ServedIsLive, Serving, DeploymentStillOnL1, AlreadyAnchored, AnchorStillOnL1,
              BlockAt
<1>5. EngineServesOneChain'  BY <1>0 DEF IInv, EngineServesOneChain, FlagsMatchRollup
<1> QED  BY <1>1, <1>2, <1>3, <1>4, <1>5 DEF IInv

\* Nothing is there before the first `up`.
LEMMA InitIInv == Init => IInv
<1> SUFFICES ASSUME Init PROVE IInv  OBVIOUS
<1>1. TypeOK  BY FS_EmptySet DEF Init, TypeOK
<1>2. engine = None /\ rollupConfig = None /\ l1Addresses = None /\ deployed = None /\ step = "idle"
  BY DEF Init
<1> QED
  BY <1>1, <1>2 DEF IInv, StepsFind, AfterContracts, RollupFromGenesis, AnchorsArePast, OnePortal,
     SuitesAreLive, FlagsAgree, ScriptsStartOver, ServedIsLive, Serving, EngineServesOneChain,
     ScriptFilesAreCurrent

\* Every action preserves the invariant.
LEMMA NextIInv == IInv /\ [Next]_vars => IInv'
<1>1. ASSUME IInv, Next PROVE IInv'
  <2>1. TypeOK'  BY <1>1, TypeStep DEF IInv
  <2>2. Rest'
    BY <1>1, <2>1, LookPreserves, ForgetDeploymentPreserves, ApplyPreserves,
       RecordDeploymentPreserves, ForgetPreserves, WritePreserves, StartEnginePreserves,
       StepEndPreserves, StopPreserves, ScriptsPreserve, L1Preserves DEF Next, Steps
  <2> QED  BY <2>1, <2>2 DEF IInv, Rest
<1> QED  BY <1>1, StutterPreserves

-----------------------------------------------------------------------------
\* The files, the L1 and the processes keep their types.
THEOREM TypeCorrect == Spec => []TypeOK
<1>1. IInv => TypeOK  BY DEF IInv
<1> QED  BY <1>1, InitIInv, NextIInv, PTL DEF Spec

\* However often steps are killed, programs fail and L1 restarts, engine.sh and
\* op-node start on one chain: that of the recorded deployment.
THEOREM OneChainServed == Spec => []EngineServesOneChain
<1>1. IInv => EngineServesOneChain  BY DEF IInv
<1> QED  BY <1>1, InitIInv, NextIInv, PTL DEF Spec

\* genesis.ts leaves the scripts no file of a chain it replaced, unless one was
\* still being written.
THEOREM ScriptFilesCurrent == Spec => []ScriptFilesAreCurrent
<1>1. IInv => ScriptFilesAreCurrent  BY DEF IInv
<1> QED  BY <1>1, InitIInv, NextIInv, PTL DEF Spec

\* `up` run again over a chain that is being served writes no file, as long as
\* L1 answers.
THEOREM RunningChainKept == Spec => RunningChainIsKept
<1>1. IInv /\ IInv' /\ [Next]_vars => (Serving /\ Serving' /\ faults'.rpc = 0 => UNCHANGED files)
  <2> SUFFICES ASSUME IInv, IInv', Next, Serving, Serving', faults'.rpc = 0
               PROVE  UNCHANGED files
    BY DEF vars
  <2>1. faults.rpc \in Nat /\ (faults'.rpc = faults.rpc \/ faults'.rpc > 0)
    <3>1. faults.rpc \in Nat  BY DEF IInv, TypeOK
    <3>2. \/ UNCHANGED faults
          \/ \E kind \in {"kill", "fail", "rpc"}, max \in {MaxKills, MaxFailures, MaxRpcErrors} :
               Fail(kind, max)
      BY DEF Next, Steps, Up, ContractsDone, ForgetDeployment, Apply, RecordDeployment, GenesisDone,
             ForgetOutputs, ForgetToken, ForgetRollup, AnchorRollup, GenerateRollupConfig,
             WriteChainFlags, StartEngine, RequestFails, ProgramFails, Kill, DeployOutputs, RecordOutputs,
             DeployToken, RecordToken, Mine, RestartL1, Stop
    <3>3. ASSUME NEW kind \in {"kill", "fail", "rpc"}, NEW max, Fail(kind, max)
          PROVE  faults'.rpc = faults.rpc \/ faults'.rpc > 0
      BY <3>3, FaultsCount DEF IInv
    <3> QED  BY <3>1, <3>2, <3>3
  <2>2. faults.rpc = 0  BY <2>1
  <2>3. step \in {"idle", "contracts", "genesis", "engine"}
    BY <2>2 DEF IInv, ServedIsLive
  <2>4. step' \in {"idle", "contracts", "genesis", "engine"}
    BY DEF IInv, ServedIsLive
  <2> QED
    BY <2>3, <2>4 DEF Next, Steps, At, Up, ContractsDone, ForgetDeployment, Apply, RecordDeployment,
       GenesisDone, ForgetOutputs, ForgetToken, ForgetRollup, AnchorRollup, GenerateRollupConfig,
       WriteChainFlags, StartEngine, RequestFails, ProgramFails, Kill, DeployOutputs, RecordOutputs,
       DeployToken, RecordToken, Mine, RestartL1, Stop
<1> QED  BY <1>1, InitIInv, NextIInv, PTL DEF Spec, RunningChainIsKept
=============================================================================
