SPECIFICATION StoreSpec
CONSTANTS
    Payload <- MCPayload
    Blocks <- MCLine
    Claimed <- MCLineClaimed
    Attrs = {}
    MaxSnapshots = 1
    None = None
    CheckpointInterval = 2
    CheckpointRetention = 2
    FaultSets = {{"partial store"}}
INVARIANT Recoverable
