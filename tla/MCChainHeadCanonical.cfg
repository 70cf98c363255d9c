SPECIFICATION Spec
CONSTANTS
    Payload <- MCPayload
    Blocks <- MCBlocks
    Claimed <- MCClaimed
    Attrs = {x}
    MaxSnapshots = 1
    None = None
INVARIANT HeadIsCanonical
