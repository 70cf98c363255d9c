--------------------------- MODULE MempoolProofs ---------------------------
(***************************************************************************)
(* Safety of Mempool for every set of transactions, senders, nonces and    *)
(* RPC goroutines and every size of the pool.  The work is in Forget: what *)
(* it keeps is counted off entry by entry, so the lemmas below first show  *)
(* that counting places every kept entry exactly once, in order.           *)
(***************************************************************************)
EXTENDS Mempool, FiniteSetTheorems, TLAPS

(* What Add works on is a transaction, the payload has all its parts, and   *)
(* the handlers forget a block that was executed or built.                  *)
CallsAreUnderWay ==
    /\ \A c \in Client : pc[c] # "idle" => arg[c] \in Tx
    /\ block = [state |-> block.state, included |-> block.included,
                dropped |-> block.dropped, nonces |-> block.nonces]
    /\ writer <=> call \in {"forkchoiceUpdated", "buildPayload", "importPayload"}

IInv == TypeOK /\ CallsAreUnderWay /\ PoolMutexIsInner /\ IndexesAgree

USE PoolAssumption

-----------------------------------------------------------------------------
(* Counting off. *)

Rank(keep, i) == Cardinality({j \in keep : j <= i})

\* The entries up to one that stays are counted from 1 to their number, more of
\* them up to a later entry.
LEMMA RankGrows ==
    ASSUME NEW n \in Nat, NEW keep \in SUBSET (1 .. n)
    PROVE  /\ IsFiniteSet(keep) /\ Cardinality(keep) \in Nat
           /\ \A i \in keep : Rank(keep, i) \in 1 .. Cardinality(keep)
           /\ \A i, j \in keep : i < j => Rank(keep, i) < Rank(keep, j)
<1>1. IsFiniteSet(1 .. n)  BY FS_Interval
<1>2. IsFiniteSet(keep)  BY <1>1, FS_Subset
<1>3. Cardinality(keep) \in Nat  BY <1>2, FS_CardinalityType
<1> DEFINE Up(i) == {j \in keep : j <= i}
<1>4. \A i \in keep : IsFiniteSet(Up(i)) /\ Cardinality(Up(i)) \in Nat
                      /\ Cardinality(Up(i)) <= Cardinality(keep)
  <2> TAKE i \in keep
  <2>1. Up(i) \in SUBSET keep  OBVIOUS
  <2>2. IsFiniteSet(Up(i)) /\ Cardinality(Up(i)) <= Cardinality(keep)  BY <1>2, <2>1, FS_Subset
  <2> QED  BY <2>2, FS_CardinalityType
<1>5. \A i \in keep : Cardinality(Up(i)) # 0
  <2> TAKE i \in keep
  <2>1. i \in Up(i)  OBVIOUS
  <2>2. Up(i) # {}  BY <2>1
  <2> QED  BY <1>4, <2>2, FS_EmptySet
<1>6. ASSUME NEW i \in keep, NEW j \in keep, i < j
      PROVE  Cardinality(Up(i)) < Cardinality(Up(j))
  <2>0. \A x \in keep : x <= i => x <= j  BY <1>6
  <2>1. Up(i) \in SUBSET Up(j)  BY <2>0
  <2>2. j \in Up(j) /\ j \notin Up(i)  BY <1>6
  <2>3. Up(i) # Up(j)  BY <2>2
  <2>4. Cardinality(Up(i)) <= Cardinality(Up(j)) /\ Cardinality(Up(i)) # Cardinality(Up(j))
    BY <1>4, <2>1, <2>3, FS_Subset
  <2> QED  BY <1>4, <2>4
<1>7. \A i \in keep : Rank(keep, i) = Cardinality(Up(i))  BY DEF Rank
<1> HIDE DEF Up
<1>8. \A i \in keep : Rank(keep, i) \in 1 .. Cardinality(keep)
  BY <1>3, <1>4, <1>5, <1>7
<1>9. \A i, j \in keep : i < j => Rank(keep, i) < Rank(keep, j)
  BY <1>6, <1>7
<1> QED  BY <1>2, <1>3, <1>8, <1>9

\* Counting reaches every entry that stays, at one place, and in order.
LEMMA KeptIndexPlaces ==
    ASSUME NEW n \in Nat, NEW keep \in SUBSET (1 .. n)
    PROVE  /\ Cardinality(keep) \in Nat
           /\ \A k \in 1 .. Cardinality(keep) :
                KeptIndex(keep, k) \in keep /\ Rank(keep, KeptIndex(keep, k)) = k
           /\ \A i \in keep : \E k \in 1 .. Cardinality(keep) : KeptIndex(keep, k) = i
<1> DEFINE C == Cardinality(keep)
           rank == [i \in keep |-> Rank(keep, i)]
<1>1. IsFiniteSet(keep) /\ C \in Nat  BY RankGrows
<1>2. \A i \in keep : Rank(keep, i) \in 1 .. C  BY RankGrows
<1>3. \A i, j \in keep : i < j => Rank(keep, i) < Rank(keep, j)  BY RankGrows
<1>4. \A i, j \in keep : Rank(keep, i) = Rank(keep, j) => i = j
  <2> SUFFICES ASSUME NEW i \in keep, NEW j \in keep, Rank(keep, i) = Rank(keep, j), i # j
               PROVE  FALSE
    OBVIOUS
  <2>1. i \in Nat /\ j \in Nat /\ Rank(keep, i) \in Nat  BY <1>1, <1>2
  <2>2. i < j \/ j < i  BY <2>1
  <2> QED  BY <2>1, <2>2, <1>3
<1>5. rank \in [keep -> 1 .. C]  BY <1>2
<1>6. rank \in Injection(keep, 1 .. C)  BY <1>4, <1>5 DEF Injection, IsInjective
<1>7. IsFiniteSet(1 .. C) /\ Cardinality(1 .. C) = C  BY <1>1, FS_Interval
<1>8. rank \in Surjection(keep, 1 .. C)  BY <1>6, <1>7, FS_Injection
<1>9. \A k \in 1 .. C : \E i \in keep : Rank(keep, i) = k  BY <1>8 DEF Surjection
<1>10. \A k \in 1 .. C : KeptIndex(keep, k) \in keep /\ Rank(keep, KeptIndex(keep, k)) = k
  <2> TAKE k \in 1 .. C
  <2>1. \E i \in keep : Cardinality({j \in keep : j <= i}) = k  BY <1>9 DEF Rank
  <2> QED  BY <2>1 DEF KeptIndex, Rank
<1>11. ASSUME NEW i \in keep  PROVE \E k \in 1 .. C : KeptIndex(keep, k) = i
  <2>1. Rank(keep, i) \in 1 .. C  BY <1>2
  <2> QED  BY <2>1, <1>4, <1>10
<1> QED  BY <1>1, <1>10, <1>11

\* What Forget keeps are the entries that stay, each once and in their order.
LEMMA KeptKeeps ==
    ASSUME txs \in Seq(Tx), NEW keep \in SUBSET DOMAIN txs
    PROVE  /\ Kept(keep) \in Seq(Tx)
           /\ Len(Kept(keep)) <= Len(txs)
           /\ {Kept(keep)[k] : k \in DOMAIN Kept(keep)} = {txs[i] : i \in keep}
           /\ \A k \in DOMAIN Kept(keep) :
                KeptIndex(keep, k) \in keep /\ Kept(keep)[k] = txs[KeptIndex(keep, k)]
           /\ \A k, l \in DOMAIN Kept(keep) : KeptIndex(keep, k) = KeptIndex(keep, l) => k = l
<1> DEFINE C == Cardinality(keep)
<1>1. Len(txs) \in Nat /\ DOMAIN txs = 1 .. Len(txs)  OBVIOUS
<1>2. keep \in SUBSET (1 .. Len(txs))  BY <1>1
<1>3. C \in Nat /\ \A k \in 1 .. C : KeptIndex(keep, k) \in keep
                                     /\ Rank(keep, KeptIndex(keep, k)) = k
  BY <1>1, <1>2, KeptIndexPlaces
<1>4. \A i \in keep : \E k \in 1 .. C : KeptIndex(keep, k) = i
  BY <1>1, <1>2, KeptIndexPlaces
<1>5. C <= Len(txs)
  <2>1. ASSUME NEW m \in Nat  PROVE IsFiniteSet(1 .. m) /\ Cardinality(1 .. m) = m
    BY FS_Interval
  <2>2. C <= Cardinality(1 .. Len(txs))  BY <1>1, <1>2, <2>1, FS_Subset
  <2> QED  BY <1>1, <2>1, <2>2
<1>6. Kept(keep) = [k \in 1 .. C |-> txs[KeptIndex(keep, k)]]  BY DEF Kept
<1> HIDE DEF C
<1>7. \A k \in 1 .. C : txs[KeptIndex(keep, k)] \in Tx  BY <1>1, <1>3
<1>8. Kept(keep) \in Seq(Tx) /\ Len(Kept(keep)) = C /\ DOMAIN Kept(keep) = 1 .. C
  <2>1. Kept(keep) \in [1 .. C -> Tx]  BY <1>6, <1>7
  <2>2. C \in Nat  BY <1>3
  <2> QED  BY <2>1, <2>2
<1>9. \A k \in DOMAIN Kept(keep) :
          KeptIndex(keep, k) \in keep /\ Kept(keep)[k] = txs[KeptIndex(keep, k)]
  BY <1>3, <1>6, <1>8
<1>10. {Kept(keep)[k] : k \in DOMAIN Kept(keep)} = {txs[i] : i \in keep}
  <2>1. \A k \in DOMAIN Kept(keep) : Kept(keep)[k] \in {txs[i] : i \in keep}  BY <1>9
  <2>2. \A i \in keep : \E k \in DOMAIN Kept(keep) : txs[i] = Kept(keep)[k]
    BY <1>4, <1>8, <1>9
  <2> QED  BY <2>1, <2>2
<1>11. \A k, l \in DOMAIN Kept(keep) : KeptIndex(keep, k) = KeptIndex(keep, l) => k = l
  BY <1>3, <1>8
<1> QED  BY <1>5, <1>8, <1>9, <1>10, <1>11

-----------------------------------------------------------------------------
(***************************************************************************)
(* Preservation.  The pool changes in two places only, Insert and Forget.  *)
(***************************************************************************)
\* Forget, whichever hashes it is given, keeps the indexes in step.
LEMMA ForgetKeepsIndexes ==
    ASSUME TypeOK, IndexesAgree, NEW hashes, Forget(hashes)
    PROVE  /\ IndexesAgree'
           /\ txs' \in Seq(Tx) /\ known' \subseteq Tx /\ byNonce' \subseteq Account \X Nat
           /\ Queued' = Queued \ hashes
<1> DEFINE keep == {i \in DOMAIN txs : txs[i] \notin hashes}
           gone == Queued \cap hashes
<1>0. txs \in Seq(Tx) /\ keep \in SUBSET DOMAIN txs  BY DEF TypeOK
<1>1. /\ txs' = Kept(keep) /\ known' = known \ gone
      /\ byNonce' = byNonce \ {Slot(t) : t \in gone}
  BY DEF Forget
<1>2. {txs[i] : i \in keep} = Queued \ hashes  BY DEF Queued
<1>3. Queued' = {Kept(keep)[k] : k \in DOMAIN Kept(keep)}  BY <1>1 DEF Queued
<1>4. Queued' = Queued \ hashes  BY <1>0, <1>2, <1>3, KeptKeeps
<1>5. known' = Queued'  BY <1>1, <1>4 DEF IndexesAgree
<1>6. \A t, u \in Queued : Slot(t) = Slot(u) => t = u  BY DEF IndexesAgree, Queued
<1>7. byNonce' = {Slot(t) : t \in Queued'}
  <2>1. byNonce = {Slot(t) : t \in Queued}  BY DEF IndexesAgree
  <2>2. \A t \in Queued \ hashes : Slot(t) \notin {Slot(u) : u \in gone}  BY <1>6
  <2> QED  BY <1>1, <1>4, <2>1, <2>2
<1>8. \A k, l \in DOMAIN txs' : Slot(txs'[k]) = Slot(txs'[l]) => k = l
  <2> SUFFICES ASSUME NEW k \in DOMAIN Kept(keep), NEW l \in DOMAIN Kept(keep),
                      Slot(Kept(keep)[k]) = Slot(Kept(keep)[l])
               PROVE  k = l
    BY <1>1
  <2> HIDE DEF keep
  <2>1. /\ KeptIndex(keep, k) \in DOMAIN txs /\ Kept(keep)[k] = txs[KeptIndex(keep, k)]
        /\ KeptIndex(keep, l) \in DOMAIN txs /\ Kept(keep)[l] = txs[KeptIndex(keep, l)]
    BY <1>0, KeptKeeps
  <2>2. KeptIndex(keep, k) = KeptIndex(keep, l)  BY <2>1 DEF IndexesAgree
  <2> QED  BY <1>0, <2>2, KeptKeeps
<1>9. txs' \in Seq(Tx) /\ Len(txs') <= Len(txs)  BY <1>0, <1>1, KeptKeeps
<1>10. Len(txs') <= MaxTxs
  <2>1. Len(txs) \in Nat /\ Len(txs') \in Nat /\ Len(txs) <= MaxTxs
    BY <1>0, <1>9 DEF IndexesAgree
  <2> QED  BY <1>9, <2>1
<1>11. known' \subseteq Tx /\ byNonce' \subseteq Account \X Nat  BY <1>1 DEF TypeOK
<1>12. \A k, l \in DOMAIN txs' : (Slot(txs[k]) = Slot(txs[l]) => k = l)'  BY <1>8 DEF Slot
<1> QED  BY <1>4, <1>5, <1>7, <1>9, <1>10, <1>11, <1>12 DEF IndexesAgree, Slot

\* Insert's three ways: known already, in the place of the slot's holder, or at
\* the end of a queue that has room.
LEMMA InsertKeepsIndexes ==
    ASSUME IInv, NEW c \in Client, Insert(c)
    PROVE  /\ IndexesAgree'
           /\ txs' \in Seq(Tx) /\ known' \subseteq Tx /\ byNonce' \subseteq Account \X Nat
           /\ \A t \in Queued \ Queued' : \E u \in Queued' : Slot(u) = Slot(t)
<1> DEFINE t == arg[c]
           held == {txs[i] : i \in {k \in DOMAIN txs : HoldsFirst(k, t)}}
<1>0. t \in Tx /\ Slot(t) \in Account \X Nat  BY DEF IInv, CallsAreUnderWay, Insert, Slot
<1>1. /\ txs \in Seq(Tx) /\ known \subseteq Tx /\ byNonce \subseteq Account \X Nat
      /\ Len(txs) \in Nat /\ DOMAIN txs = 1 .. Len(txs)
  BY DEF IInv, TypeOK
<1>2. /\ known = Queued /\ byNonce = {Slot(u) : u \in Queued}
      /\ \A i, j \in DOMAIN txs : Slot(txs[i]) = Slot(txs[j]) => i = j
      /\ Len(txs) <= MaxTxs
  BY DEF IInv, IndexesAgree
<1>3. \A i \in DOMAIN txs : HoldsFirst(i, t) <=> Slot(txs[i]) = Slot(t)
  BY <1>1, <1>2 DEF HoldsFirst
<1>4. held = {u \in Queued : Slot(u) = Slot(t)}  BY <1>3 DEF Queued
<1>5. held = {} <=> Slot(t) \notin byNonce  BY <1>2, <1>4
<1> HIDE DEF t, held
<1>6. CASE t \in known /\ UNCHANGED poolVars
  BY <1>1, <1>6 DEF poolVars, IInv, IndexesAgree, Queued, Slot
<1>7. CASE /\ t \notin known /\ held # {} /\ txs' = Replaced(t)
           /\ known' = (known \ held) \cup {t} /\ UNCHANGED byNonce
  <2>1. PICK i \in DOMAIN txs : Slot(txs[i]) = Slot(t)  BY <1>4, <1>7 DEF Queued
  <2>2. \A j \in DOMAIN txs : HoldsFirst(j, t) <=> j = i  BY <1>2, <1>3, <2>1
  <2>3. txs' = [j \in DOMAIN txs |-> IF j = i THEN t ELSE txs[j]]
    BY <1>7, <2>2 DEF Replaced
  <2>4. DOMAIN txs' = DOMAIN txs /\ txs' \in Seq(Tx) /\ Len(txs') = Len(txs)
    BY <1>0, <1>1, <2>3
  <2>5. held = {txs[i]}
    <3>1. \A u \in Queued : Slot(u) = Slot(t) => u = txs[i]  BY <1>2, <2>1 DEF Queued
    <3> QED  BY <1>4, <2>1, <3>1 DEF Queued
  <2>6. Queued' = {txs'[j] : j \in DOMAIN txs'}  BY DEF Queued
  <2>7. Queued' = (Queued \ {txs[i]}) \cup {t}
    <3>1. \A j \in DOMAIN txs : j # i => txs[j] # txs[i]  BY <1>2
    <3>2. t \in Queued' /\ Queued' \subseteq Queued \cup {t}
      BY <2>3, <2>4, <2>6 DEF Queued
    <3>3. \A u \in Queued : u # txs[i] => u \in Queued'
      BY <2>3, <2>4, <2>6 DEF Queued
    <3>4. txs[i] # t  BY <1>2, <1>7 DEF Queued
    <3>5. txs[i] \notin Queued'  BY <3>1, <3>4, <2>3, <2>4, <2>6
    <3> QED  BY <3>2, <3>3, <3>5
  <2>8. known' = Queued'  BY <1>2, <1>7, <2>5, <2>7
  <2>9. byNonce' = {Slot(u) : u \in Queued'}
    <3>1. txs[i] \in Queued  BY DEF Queued
    <3> QED  BY <1>2, <1>7, <2>1, <2>7, <3>1
  <2>10. \A j, k \in DOMAIN txs' : Slot(txs'[j]) = Slot(txs'[k]) => j = k
    BY <1>2, <2>1, <2>3, <2>4
  <2>11. \A u \in Queued \ Queued' : \E v \in Queued' : Slot(v) = Slot(u)
    BY <2>1, <2>7
  <2> QED
    BY <1>0, <1>1, <1>2, <1>7, <2>4, <2>8, <2>9, <2>10, <2>11 DEF IndexesAgree, Slot
<1>8. CASE /\ t \notin known /\ held = {}
           /\ Len(txs) >= MaxTxs
           /\ byNonce' = byNonce \ {Slot(t)} /\ UNCHANGED <<txs, known>>
  <2>1. byNonce' = byNonce  BY <1>5, <1>8
  <2> QED  BY <1>1, <1>8, <2>1 DEF IInv, IndexesAgree, Queued, Slot
<1>9. CASE /\ t \notin known /\ held = {} /\ ~(Len(txs) >= MaxTxs)
           /\ txs' = Append(txs, t) /\ known' = known \cup {t}
           /\ byNonce' = byNonce \cup {Slot(t)}
  <2>1. /\ txs' \in Seq(Tx) /\ Len(txs') = Len(txs) + 1 /\ DOMAIN txs' = 1 .. Len(txs) + 1
        /\ \A j \in DOMAIN txs : txs'[j] = txs[j]
        /\ txs'[Len(txs) + 1] = t
    BY <1>0, <1>1, <1>9
  <2>2. Queued' = {txs'[j] : j \in DOMAIN txs'}  BY DEF Queued
  <2>3. \A j \in DOMAIN txs' : j \in DOMAIN txs \/ j = Len(txs) + 1  BY <1>1, <2>1
  <2>4. DOMAIN txs \subseteq DOMAIN txs' /\ Len(txs) + 1 \in DOMAIN txs'  BY <1>1, <2>1
  <2>5. Queued' = Queued \cup {t}  BY <2>1, <2>2, <2>3, <2>4 DEF Queued
  <2>6. \A j \in DOMAIN txs : Slot(txs[j]) # Slot(t)  BY <1>4, <1>9 DEF Queued
  <2>7. \A j, k \in DOMAIN txs' : Slot(txs'[j]) = Slot(txs'[k]) => j = k
    BY <1>2, <2>1, <2>3, <2>6
  <2>8. Len(txs') <= MaxTxs  BY <1>1, <1>9, <2>1
  <2>9. known' = Queued' /\ byNonce' = {Slot(u) : u \in Queued'}  BY <1>2, <1>9, <2>5
  <2>10. IndexesAgree'  BY <2>7, <2>8, <2>9 DEF IndexesAgree, Slot
  <2>11. known' \subseteq Tx /\ byNonce' \subseteq Account \X Nat  BY <1>0, <1>1, <1>9
  <2>12. Queued \ Queued' = {}  BY <2>5
  <2> QED  BY <2>1, <2>10, <2>11, <2>12
<1> QED  BY <1>5, <1>6, <1>7, <1>8, <1>9 DEF Insert, t, held

\* The steps of Add.
LEMMA AddPreserves ==
    ASSUME IInv, NEW c \in Client,
           (\E t \in Tx : Submit(c, t)) \/ AddStep(c) \/ AddLocks(c)
    PROVE  IInv'
<1>0. UNCHANGED <<chainMu, writer, call, block>>
  BY DEF AddStep, AddLocks, Submit, ReadGate, ReadHead, ReadAccount, Insert, LockPool, handlerVars
<1>1. CASE Insert(c)
  <2>1. /\ pc[c] = "insert" /\ poolMu' = Free /\ pc' = [pc EXCEPT ![c] = "idle"]
        /\ arg' = [arg EXCEPT ![c] = Free]
    BY <1>1 DEF Insert, Return
  <2>2. TypeOK'  BY <1>0, <1>1, <2>1, InsertKeepsIndexes DEF IInv, TypeOK
  <2>3. CallsAreUnderWay'  BY <1>0, <2>1 DEF IInv, TypeOK, CallsAreUnderWay
  <2>4. PoolMutexIsInner'  BY <1>0, <2>1 DEF IInv, TypeOK, PoolMutexIsInner
  <2> QED  BY <1>1, <2>2, <2>3, <2>4, InsertKeepsIndexes DEF IInv
<1>2. CASE ~Insert(c)
  <2> USE DEF Submit, AddStep, AddLocks, ReadGate, ReadHead, ReadAccount, Return, LockPool
  <2>1. UNCHANGED <<txs, known, byNonce>>  BY <1>2 DEF poolVars
  <2>2. TypeOK'
    <3>1. pc' \in [Client -> {"idle", "lockGate", "gate", "head", "account", "lockInsert", "insert"}]
      <4>1. PICK to \in {"idle", "lockGate", "gate", "head", "account", "lockInsert", "insert"} :
                   pc' = [pc EXCEPT ![c] = to]
        BY <1>2
      <4> QED  BY <4>1 DEF IInv, TypeOK
    <3>2. arg' \in [Client -> Tx \cup {Free}]  BY <1>2 DEF IInv, TypeOK
    <3>3. poolMu' \in Client \cup {Free, "handler"}  BY <1>2 DEF IInv, TypeOK
    <3> QED  BY <1>0, <2>1, <3>1, <3>2, <3>3 DEF IInv, TypeOK
  <2>3. CallsAreUnderWay'  BY <1>0, <1>2 DEF IInv, TypeOK, CallsAreUnderWay
  <2>4. PoolMutexIsInner'  BY <1>0, <1>2 DEF IInv, TypeOK, PoolMutexIsInner
  <2>5. IndexesAgree'  BY <2>1 DEF IInv, IndexesAgree, Queued
  <2> QED  BY <2>2, <2>3, <2>4, <2>5 DEF IInv
<1> QED  BY <1>1, <1>2

\* A call of op-node begins, gets Chain.mu, or gets Pool.mu.
LEMMA CallPreserves ==
    ASSUME IInv, Driver \/ LockChain \/ HandlerLocksPool
    PROVE  IInv'
<1>0. UNCHANGED <<txs, known, byNonce, pc, arg>>
  BY DEF Driver, Called, LockChain, HandlerLocksPool, poolVars, clientVars
<1>1. IndexesAgree'  BY <1>0 DEF IInv, IndexesAgree, Queued
<1>2. CASE Driver
  <2>1. PICK name \in {"forkchoiceUpdated", "buildPayload", "importPayload"} : Called(name)
    BY <1>2 DEF Driver
  <2>2. /\ call = "none" /\ call' = name /\ writer' = TRUE
        /\ UNCHANGED <<poolMu, chainMu, block>>
    BY <2>1 DEF Called
  <2> QED  BY <1>0, <1>1, <2>2 DEF IInv, TypeOK, CallsAreUnderWay, PoolMutexIsInner
<1>3. CASE LockChain
  <2>0. poolMu' = poolMu /\ ~chainMu /\ writer' = FALSE  BY <1>3 DEF LockChain
  <2>1. \/ block' = block
        \/ block' = [state |-> "none", included |-> << >>, dropped |-> {}, nonces |-> block.nonces]
    BY <1>3 DEF LockChain, MoveHead, NoBlock
  <2>2. /\ block'.state \in {"none", "executed", "built", "imported"}
        /\ block' = [state |-> block'.state, included |-> block'.included,
                     dropped |-> block'.dropped, nonces |-> block'.nonces]
    BY <2>1 DEF IInv, TypeOK, CallsAreUnderWay
  <2>3. \/ call = "importPayload" /\ call' = "lockForget" /\ chainMu' = TRUE
        \/ call = "buildPayload" /\ call' = "lockPending" /\ chainMu' = TRUE
        \/ call = "forkchoiceUpdated" /\ call' = "none" /\ chainMu' = chainMu
    BY <1>3 DEF LockChain
  <2>4. TypeOK'  BY <1>0, <2>0, <2>2, <2>3 DEF IInv, TypeOK
  <2>5. CallsAreUnderWay'  BY <1>0, <2>0, <2>2, <2>3 DEF IInv, CallsAreUnderWay
  <2>6. PoolMutexIsInner'  BY <1>0, <2>0, <2>3 DEF IInv, PoolMutexIsInner
  <2> QED  BY <1>1, <2>4, <2>5, <2>6 DEF IInv
<1>4. CASE HandlerLocksPool
  <2>1. /\ poolMu = Free /\ poolMu' = "handler" /\ UNCHANGED <<chainMu, writer, block>>
        /\ \/ call = "lockPending" /\ call' = "pending"
           \/ call = "lockForget" /\ call' = "forget"
    BY <1>4 DEF HandlerLocksPool
  <2> QED  BY <1>0, <1>1, <2>1 DEF IInv, TypeOK, CallsAreUnderWay, PoolMutexIsInner
<1> QED  BY <1>2, <1>3, <1>4

\* Pending copies the queue and leaves it as it is; what was executed becomes
\* the payload.
LEMMA PendingPreserves ==
    ASSUME IInv, Pending
    PROVE  IInv'
<1> DEFINE ran == FoldLeft(RunTx, NoBlock, txs)
<1>1. /\ call = "pending" /\ call' = "lockForget" /\ poolMu' = Free
      /\ block' = [state |-> "executed", included |-> ran.included,
                   dropped |-> ran.dropped, nonces |-> ran.nonces]
      /\ UNCHANGED <<txs, known, byNonce, pc, arg, chainMu, writer>>
  BY DEF Pending, poolVars, clientVars
<1> HIDE DEF ran
<1>2. TypeOK'  BY <1>1 DEF IInv, TypeOK
<1>3. CallsAreUnderWay'  BY <1>1 DEF IInv, CallsAreUnderWay
<1>4. PoolMutexIsInner'  BY <1>1 DEF IInv, TypeOK, PoolMutexIsInner
<1>5. IndexesAgree'  BY <1>1 DEF IInv, IndexesAgree, Queued
<1> QED  BY <1>2, <1>3, <1>4, <1>5 DEF IInv

\* The end of a handler: only what it forgets leaves the queue.
LEMMA ForgetAndReturnPreserves ==
    ASSUME IInv, ForgetAndReturn
    PROVE  /\ IInv'
           /\ \A t \in Queued \ Queued' :
                \/ block.state = "executed" /\ t \in block.dropped
                \/ block'.state = "imported" /\ t \in Range(block.included)
<1>0. block = [state |-> block.state, included |-> block.included,
               dropped |-> block.dropped, nonces |-> block.nonces]
  BY DEF IInv, CallsAreUnderWay
<1>1. \/ /\ block.state = "executed" /\ Forget(block.dropped)
         /\ block' = [state |-> "built", included |-> block.included,
                      dropped |-> {}, nonces |-> block.nonces]
      \/ /\ Forget(Range(block.included))
         /\ block' = [state |-> "imported", included |-> << >>,
                      dropped |-> block.dropped, nonces |-> block.nonces]
  BY <1>0 DEF ForgetAndReturn
<1>2. PICK hashes : /\ Forget(hashes)
                    /\ \/ block.state = "executed" /\ hashes = block.dropped
                       \/ block'.state = "imported" /\ hashes = Range(block.included)
  BY <1>1
<1>3. /\ call = "forget" /\ poolMu' = Free /\ call' = "none" /\ chainMu' = FALSE
      /\ UNCHANGED <<pc, arg, writer>>
  BY DEF ForgetAndReturn, clientVars
<1>4. /\ block'.state \in {"built", "imported"}
      /\ block' = [state |-> block'.state, included |-> block'.included,
                   dropped |-> block'.dropped, nonces |-> block'.nonces]
  BY <1>1
<1>5. /\ IndexesAgree' /\ Queued' = Queued \ hashes
      /\ txs' \in Seq(Tx) /\ known' \subseteq Tx /\ byNonce' \subseteq Account \X Nat
  BY <1>2, ForgetKeepsIndexes DEF IInv
<1>6. TypeOK'  BY <1>3, <1>4, <1>5 DEF IInv, TypeOK
<1>7. CallsAreUnderWay'  BY <1>3, <1>4 DEF IInv, CallsAreUnderWay
<1>8. PoolMutexIsInner'  BY <1>3 DEF IInv, TypeOK, PoolMutexIsInner
<1> QED  BY <1>2, <1>5, <1>6, <1>7, <1>8 DEF IInv

\* An empty pool that nobody has locked.
LEMMA InitIInv == Init => IInv
<1> SUFFICES ASSUME Init PROVE IInv  OBVIOUS
<1>1. block = [state |-> "none", included |-> << >>, dropped |-> {}, nonces |-> nonces]
  BY DEF Init, NoBlock
<1>2. TypeOK
  <2>1. chainMu \in BOOLEAN /\ writer \in BOOLEAN  BY Zenon DEF Init
  <2>2. txs \in Seq(Tx)  BY DEF Init
  <2>3. block.state = "none"  BY <1>1
  <2> QED  BY <2>1, <2>2, <2>3 DEF Init, TypeOK
<1>3. CallsAreUnderWay  BY <1>1 DEF Init, CallsAreUnderWay
<1>4. PoolMutexIsInner  BY DEF Init, PoolMutexIsInner
<1>5. IndexesAgree  BY DEF Init, IndexesAgree, Queued
<1> QED  BY <1>2, <1>3, <1>4, <1>5 DEF IInv

\* Every step preserves the invariant.
LEMMA NextIInv == IInv /\ [Next]_vars => IInv'
<1>1. ASSUME IInv, UNCHANGED vars PROVE IInv'
  <2>1. UNCHANGED <<txs, known, byNonce, poolMu, pc, arg, chainMu, writer, call, block>>
    BY <1>1 DEF vars, poolVars, clientVars, handlerVars
  <2> QED  BY <1>1, <2>1 DEF IInv, TypeOK, CallsAreUnderWay, PoolMutexIsInner, IndexesAgree, Queued
<1>2. ASSUME IInv, Next PROVE IInv'
  BY <1>2, AddPreserves, CallPreserves, PendingPreserves, ForgetAndReturnPreserves DEF Next, Handler
<1> QED  BY <1>1, <1>2

-----------------------------------------------------------------------------
\* Pool, clients and handlers keep their types.
THEOREM TypeCorrect == Spec => []TypeOK
<1>1. IInv => TypeOK  BY DEF IInv
<1> QED  BY <1>1, InitIInv, NextIInv, PTL DEF Spec

\* However many goroutines Add while the chain builds and imports, Pool.known
\* and Pool.byNonce describe Pool.txs exactly, and the pool keeps its bound.
THEOREM IndexesInStep == Spec => []IndexesAgree
<1>1. IInv => IndexesAgree  BY DEF IInv
<1> QED  BY <1>1, InitIInv, NextIInv, PTL DEF Spec

\* Nobody inside a critical section of Pool.mu waits for Chain.mu, so the two
\* locks are always taken in one order.
THEOREM LocksAreOrdered == Spec => []PoolMutexIsInner
<1>1. IInv => PoolMutexIsInner  BY DEF IInv
<1> QED  BY <1>1, InitIInv, NextIInv, PTL DEF Spec

\* Add never takes a transaction out but to replace it in its slot, and Forget
\* only takes out what the guest rejected or a block included.
THEOREM LeavesWithReason == Spec => LeavesForAReason
<1> DEFINE Reason(t) == \/ \E u \in Queued' : Slot(u) = Slot(t)
                        \/ block.state = "executed" /\ t \in block.dropped
                        \/ block'.state = "imported" /\ t \in Range(block.included)
<1>1. IInv /\ Next => \A t \in Queued \ Queued' : Reason(t)
  <2> SUFFICES ASSUME IInv, Next PROVE \A t \in Queued \ Queued' : Reason(t)  OBVIOUS
  <2>1. ASSUME NEW c \in Client, Insert(c)  PROVE \A t \in Queued \ Queued' : Reason(t)
    BY <2>1, InsertKeepsIndexes
  <2>2. CASE ForgetAndReturn  BY <2>2, ForgetAndReturnPreserves
  <2>3. CASE ~ForgetAndReturn /\ ~\E c \in Client : Insert(c)
    <3>1. txs' = txs
      BY <2>3 DEF Next, Handler, Driver, Called, LockChain, HandlerLocksPool, Pending, AddStep,
                  AddLocks, Submit, ReadGate, ReadHead, ReadAccount, LockPool, poolVars
    <3> QED  BY <3>1 DEF Queued
  <2> QED  BY <2>1, <2>2, <2>3
<1> QED  BY <1>1, InitIInv, NextIInv, PTL DEF Spec, LeavesForAReason
=============================================================================
