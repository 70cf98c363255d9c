SPECIFICATION FairSpec
CONSTANTS
    t0 = t0  t0b = t0b  t1 = t1  u0 = u0  alice = alice  bob = bob
    Tx <- MCTx
    Account <- MCAccount
    Sender <- MCSender
    Nonce <- MCNonce
    Client = {c1}
    MaxTxs = 2
    GasTxs = 1
    Free = Free
INVARIANTS IndexesAgree
PROPERTIES LeavesForAReason QueuedLeaves
