SPECIFICATION Spec
CONSTANTS
    owner = owner
    alice = alice
    zero = zero
    portal = portal
    l1m = l1m
    t1 = t1
    t2 = t2
    f1 = f1
    f2 = f2
    Address <- MCAddress
    Zero = zero
    Token <- MCToken
    Portal = {portal}
    Message <- MCMessage
    MaxUint = 2
    LoadLimit = 4
    SparseLimit = 1
    RegistryCapacity = 1
    Absent = Absent
    Owner = owner
    L1Messenger = l1m
    l2TokenAddress <- MCl2TokenAddress
    Inputs <- MCInputs
    Programs <- MCPrograms
    BuiltInAbi <- MCBuiltInAbi
    AbiCapacity = 8
    HeapLength = 9
    NoByte = NoByte
    MaxInputs = 4
    MaxTorn = 1
INVARIANTS EtherConserved TokensAreBacked CachesMatchDrive
    RecordedValueIsHeld CallsForetell HostReadsTheGuest
PROPERTIES NoTraceLeft RevertKeepsOnlyTheCharge
