SPECIFICATION StoreSpec
CONSTANTS
    Payload <- MCPayload
    Blocks <- MCFork
    Claimed <- MCForkClaimed
    Attrs = {}
    MaxSnapshots = 1
    None = None
    CheckpointInterval = 1
    CheckpointRetention = 2
    FaultSets = {{}, {"write error"}, {"reorg"}, {"partial store"}}
INVARIANTS
    HeadAncestryIsDurable
    RecoverableWithoutFaults
PROPERTIES
    RestoreServesStoredChain
    FinalizedIsAncestor
