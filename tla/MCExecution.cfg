SPECIFICATION Spec
CONSTANTS
    Tx <- MCTx
    State <- MCState
    Emission <- MCEmission
    None = None
    Guest <- MCGuest
    Parent = 0
    DepositLists <- MCDepositLists
    PoolLists <- MCPoolLists
    Size <- MCSize
    GasLimit = 4
    CyclesPerGas = 2
    Limits = {0, 2}
INVARIANTS HonestBlockIsValid NoForkLeaks WithinBudget OnlyRefusedAreForgotten
