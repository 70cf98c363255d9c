------------------------------ MODULE MCMempool ------------------------------
EXTENDS Mempool

CONSTANTS t0, t0b, t1, u0, alice, bob

\* t0 and t0b compete for one slot, t1 follows it, u0 is another sender's.
MCTx == {t0, t0b, t1, u0}
MCAccount == {alice, bob}
MCSender == [t \in Tx |-> IF t = u0 THEN bob ELSE alice]
MCNonce == [t \in Tx |-> IF t = t1 THEN 1 ELSE 0]
=============================================================================
