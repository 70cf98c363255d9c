--------------------------- MODULE ExecutionProofs ---------------------------
(***************************************************************************)
(* That applyBuild and replayImport agree, for every deterministic guest,  *)
(* every list of deposits and pool transactions and every limit.  The      *)
(* argument runs along trail, the builder's execResult after each included *)
(* input: replayImport, which only sees the included transactions and      *)
(* numbers them itself, walks the same sequence.                           *)
(***************************************************************************)
EXTENDS Execution, TLAPS

USE BlockAssumption

\* A guest answers every input in every state with a verdict, a next state, a
\* cycle count and its emissions.
GuestIsTyped ==
    \A m \in State, n \in Nat, tx \in Tx :
        Guest(m, n, tx) \in [verdict : {"accept", "reject", "error"}, next : State,
                             cycles : Nat, emits : Seq(Emission)]

\* The integer quotient of cycles by CyclesPerGas is a natural number.
LEMMA GasIsNat ==
    ASSUME NEW c \in Nat
    PROVE  c \div CyclesPerGas \in Nat
  OBVIOUS

\* record turns one execResult into another.
LEMMA RecordType ==
    ASSUME GuestIsTyped, NEW x \in ExecResult, NEW k \in Nat, NEW tx \in Tx
    PROVE  Record(x, k, tx) \in ExecResult
<1> DEFINE r == Guest(x.machine, k, tx)
           o == CollectOutputs(k, tx, r)
<1>1. /\ x.machine \in State /\ x.gasUsed \in Nat /\ x.leaves \in Seq(Emission)
      /\ x.outputs \in Seq([index : Nat, tx : Tx, accepted : BOOLEAN, cycles : Nat,
                            outputs : Seq(Emission)])
  BY DEF ExecResult
<1>2. r \in [verdict : {"accept", "reject", "error"}, next : State,
             cycles : Nat, emits : Seq(Emission)]
  BY <1>1 DEF GuestIsTyped
<1>3. r.next \in State /\ r.cycles \in Nat /\ r.emits \in Seq(Emission)  BY <1>2
<1>4. o.outputs \in Seq(Emission)  BY <1>3 DEF CollectOutputs
<1>5. o \in [index : Nat, tx : Tx, accepted : BOOLEAN, cycles : Nat, outputs : Seq(Emission)]
  BY <1>3, <1>4 DEF CollectOutputs
<1>6. Append(x.outputs, o) \in Seq([index : Nat, tx : Tx, accepted : BOOLEAN, cycles : Nat,
                                    outputs : Seq(Emission)])
  BY <1>1, <1>5
<1>7. x.leaves \o o.outputs \in Seq(Emission)  BY <1>1, <1>4
<1>8. x.gasUsed + r.cycles \div CyclesPerGas \in Nat
  <2>1. r.cycles \div CyclesPerGas \in Nat  BY <1>3, GasIsNat
  <2> HIDE DEF r
  <2> QED  BY <1>1, <2>1
<1>9. (IF o.accepted THEN r.next ELSE x.machine) \in State  BY <1>1, <1>3
<1> HIDE DEF r, o
<1>10. [machine |-> IF o.accepted THEN r.next ELSE x.machine,
        gasUsed |-> x.gasUsed + r.cycles \div CyclesPerGas,
        outputs |-> Append(x.outputs, o),
        leaves  |-> x.leaves \o o.outputs] \in ExecResult
  BY <1>6, <1>7, <1>8, <1>9 DEF ExecResult
<1> QED  BY <1>10 DEF Record, r, o

-----------------------------------------------------------------------------
(***************************************************************************)
(* Types, and the machines each side owns in each phase.                   *)
(***************************************************************************)
Shape ==
    /\ bpc \in {"block", "run"} => i <= Len(poolTxs)
    /\ bpc \notin {"start", "failed"} => forks >= 1 /\ (~faulty => forks = 1)
    /\ bpc = "failed" /\ ~faulty => forks = 0
    /\ bpc = "done" <=> payload # None
    /\ vpc # "start" => payload # None
    /\ vpc \in {"replay", "VALID"} => vforks >= 1 /\ (~faulty => vforks = 1)
    /\ vpc \in {"INVALID", "failed"} /\ ~faulty => vforks = 0

TInv == TypeOK /\ Shape

Payloads == [txs : Seq(Tx), stateRoot : State, gasUsed : Nat, leaves : Seq(Emission)]

\* The smaller of two numbers, and the looser of two limits, is a number.
LEMMA MinIsNat == \A a, b \in Nat : Min(a, b) \in Nat /\ Loosest(a, b) \in Nat
  BY DEF Min, Loosest

\* buildPayload starts with empty results.
LEMMA InitTInv == Init => TInv
<1> SUFFICES ASSUME Init PROVE TInv  OBVIOUS
<1>1. NoExec \in ExecResult
  BY DEF NoExec, ExecResult
<1>2. deposits \in Seq(Tx) /\ poolTxs \in Seq(Tx)  BY DEF Init
<1>3. Range(poolTxs) \subseteq Tx  BY <1>2 DEF Range
<1>4. TypeOK  BY <1>1, <1>2, <1>3 DEF Init, TypeOK
<1>5. Shape  BY DEF Init, Shape
<1> QED  BY <1>4, <1>5 DEF TInv

\* The pool transaction under consideration is one, and has a size.
LEMMA CurrentPoolTx ==
    ASSUME TypeOK, Shape, bpc \in {"block", "run"}
    PROVE  poolTxs[i] \in Tx /\ Size[poolTxs[i]] \in Nat
<1>1. poolTxs \in Seq(Tx) /\ i \in Nat \ {0}  BY DEF TypeOK
<1>2. i <= Len(poolTxs)  BY DEF Shape
<1>3. poolTxs[i] \in Tx  BY <1>1, <1>2
<1> QED  BY <1>3

\* Recording one input keeps the types of what it touches.
LEMMA IncludeType ==
    ASSUME GuestIsTyped, TypeOK, NEW tx \in Tx, Include(tx), forks \in Nat \ {0}
    PROVE  /\ exec' \in ExecResult /\ included' \in Seq(Tx) /\ trail' \in Seq(ExecResult)
           /\ daUsed' \in Nat /\ i' \in Nat \ {0}
           /\ forks' \in Nat \ {0} /\ (~faulty /\ forks = 1 => forks' = 1)
<1>1. Len(included) \in Nat  BY DEF TypeOK
<1>2. exec' \in ExecResult  BY <1>1, RecordType DEF Include, TypeOK
<1>3. included' \in Seq(Tx)  BY DEF Include, TypeOK
<1>4. trail' \in Seq(ExecResult)  BY <1>2 DEF Include, TypeOK
<1>5. daUsed' \in Nat /\ i' \in Nat \ {0}  BY DEF Include, TypeOK
<1>6. forks' \in Nat \ {0} /\ (~faulty /\ forks = 1 => forks' = 1)
  BY DEF Include, Close
<1> QED  BY <1>2, <1>3, <1>4, <1>5, <1>6

\* The builder's steps keep types and phases.
LEMMA BuildTInv ==
    ASSUME GuestIsTyped, TInv, Build
    PROVE  TInv'
<1> USE DEF inputVars, buildVars, replayVars, daVars
<1>0. TypeOK /\ Shape  BY DEF TInv
<1>1. CASE BuildStart
  <2>1. TypeOK'  BY <1>0, <1>1 DEF BuildStart, TypeOK
  <2>2. Shape'  BY <1>0, <1>1 DEF BuildStart, Shape, TypeOK
  <2> QED  BY <2>1, <2>2 DEF TInv
<1>2. CASE Deposit
  <2>1. deposits[i] \in Tx /\ Include(deposits[i]) /\ forks \in Nat \ {0}
    BY <1>0, <1>2 DEF Deposit, TypeOK, Shape
  <2>2. TypeOK'  BY <1>0, <1>2, <2>1, IncludeType DEF Deposit, TypeOK
  <2>3. Shape'  BY <1>0, <1>2, <2>1, IncludeType DEF Deposit, Shape
  <2> QED  BY <2>2, <2>3 DEF TInv
<1>a. CASE DepositFails
  <2>1. /\ forks \in Nat \ {0} /\ (~faulty => forks = 1)
        /\ \E n \in Close(forks + 1) : forks' \in Close(n)
    BY <1>0, <1>a DEF DepositFails, TypeOK, Shape
  <2>2. PICK n \in Close(forks + 1) : forks' \in Close(n)  BY <2>1
  <2>3. n \in Nat \ {0} /\ (~faulty => n = 1)  BY <2>1, <2>2 DEF Close
  <2>4. forks' \in Nat /\ (~faulty => forks' = 0)  BY <2>2, <2>3 DEF Close
  <2>5. TypeOK'  BY <1>0, <1>a, <2>4 DEF DepositFails, TypeOK
  <2>6. Shape'  BY <1>0, <1>a, <2>4 DEF DepositFails, Shape
  <2> QED  BY <2>5, <2>6 DEF TInv
<1>3. CASE BuildFails
  <2>1. forks \in Nat \ {0} /\ (~faulty => forks = 1) /\ forks' \in Close(forks)
    BY <1>0, <1>3 DEF BuildFails, TypeOK, Shape
  <2>2. forks' \in Nat /\ (~faulty => forks' = 0)  BY <2>1 DEF Close
  <2>3. TypeOK'  BY <1>0, <1>3, <2>2 DEF BuildFails, TypeOK
  <2>4. Shape'  BY <1>0, <1>3, <2>2 DEF BuildFails, Shape
  <2> QED  BY <2>3, <2>4 DEF TInv
<1>4. CASE DepositsDone
  <2>1. TypeOK'  BY <1>0, <1>4 DEF DepositsDone, TypeOK
  <2>2. Shape'  BY <1>0, <1>4 DEF DepositsDone, Shape
  <2> QED  BY <2>1, <2>2 DEF TInv
<1>5. CASE AdmitsTx
  <2>0. /\ i' \in {i, i + 1} /\ bpc' \in {"pool", "block"}
        /\ UNCHANGED <<inputVars, exec, included, dropped, daUsed, forks, pool, payload, trail,
                       refused, replayVars, daVars, budget>>
    BY <1>5 DEF AdmitsTx
  <2>1. TypeOK'  BY <1>0, <2>0 DEF TypeOK
  <2>2. Shape'  BY <1>0, <1>5 DEF AdmitsTx, Shape, PoolLeft
  <2> QED  BY <2>1, <2>2 DEF TInv
<1>6. CASE AdmitsBlock
  <2>0. /\ i' \in {i, i + 1} /\ bpc' \in {"pool", "run"}
        /\ UNCHANGED <<inputVars, exec, included, dropped, daUsed, forks, pool, payload, trail,
                       refused, replayVars, daVars, budget>>
    BY <1>6 DEF AdmitsBlock
  <2>1. TypeOK'  BY <1>0, <2>0 DEF TypeOK
  <2>2. Shape'  BY <1>0, <1>6 DEF AdmitsBlock, Shape
  <2> QED  BY <2>1, <2>2 DEF TInv
<1>7. CASE PoolAccepted
  <2>0. bpc = "run" /\ Include(poolTxs[i])  BY <1>7 DEF PoolAccepted
  <2>1. poolTxs[i] \in Tx /\ Include(poolTxs[i]) /\ forks \in Nat \ {0}
    BY <1>0, <2>0, CurrentPoolTx DEF TypeOK, Shape
  <2>2. TypeOK'  BY <1>0, <1>7, <2>1, IncludeType DEF PoolAccepted, TypeOK
  <2>3. Shape'  BY <1>0, <1>7, <2>1, IncludeType DEF PoolAccepted, Shape
  <2> QED  BY <2>2, <2>3 DEF TInv
<1>8. CASE PoolDropped
  <2>0. bpc = "run"  BY <1>8 DEF PoolDropped
  <2>1. poolTxs[i] \in Tx /\ forks \in Nat \ {0} /\ (~faulty => forks = 1)
    BY <1>0, <2>0, CurrentPoolTx DEF TypeOK, Shape
  <2>2. forks' \in Nat \ {0} /\ (~faulty => forks' = 1)  BY <1>8, <2>1 DEF PoolDropped, Close
  <2>3. dropped' \subseteq Tx /\ refused' \subseteq Tx
    BY <1>0, <1>8, <2>1 DEF PoolDropped, TypeOK
  <2>4. TypeOK'  BY <1>0, <1>8, <2>2, <2>3 DEF PoolDropped, TypeOK
  <2>5. Shape'  BY <1>0, <1>8, <2>2 DEF PoolDropped, Shape
  <2> QED  BY <2>4, <2>5 DEF TInv
<1>9. CASE BuildDone
  <2> DEFINE pl == [txs |-> included, stateRoot |-> exec.machine,
                    gasUsed |-> Min(exec.gasUsed, GasLimit), leaves |-> exec.leaves]
  <2>1. /\ exec.machine \in State /\ exec.gasUsed \in Nat /\ exec.leaves \in Seq(Emission)
        /\ included \in Seq(Tx)
    BY <1>0 DEF TypeOK, ExecResult
  <2>2. pl \in Payloads  BY <2>1, MinIsNat DEF Payloads
  <2>3. forks \in Nat \ {0} /\ (~faulty => forks = 1)
    BY <1>0, <1>9 DEF BuildDone, TypeOK, Shape
  <2>4. CASE bpc' = "done" /\ payload' = pl /\ UNCHANGED forks
    <3>1. pool' \subseteq Tx  BY <1>0, <1>9 DEF BuildDone, TypeOK
    <3> HIDE DEF pl
    <3>2. TypeOK'  BY <1>0, <1>9, <2>2, <2>4, <3>1 DEF BuildDone, TypeOK, Payloads
    <3>3. pl # None  BY <2>2 DEF Payloads
    <3>4. Shape'  BY <1>0, <1>9, <2>3, <2>4, <3>3 DEF BuildDone, Shape
    <3> QED  BY <3>2, <3>4 DEF TInv
  <2>5. CASE faulty /\ bpc' = "failed" /\ forks' \in Close(forks) /\ UNCHANGED payload
    <3>1. pool' \subseteq Tx  BY <1>0, <1>9 DEF BuildDone, TypeOK
    <3>2. forks' \in Nat  BY <2>3, <2>5 DEF Close
    <3>3. TypeOK'  BY <1>0, <1>9, <2>5, <3>1, <3>2 DEF BuildDone, TypeOK
    <3>4. Shape'  BY <1>0, <1>9, <2>5 DEF BuildDone, Shape
    <3> QED  BY <3>3, <3>4 DEF TInv
  <2> QED  BY <1>9, <2>4, <2>5 DEF BuildDone
<1> QED  BY <1>1, <1>2, <1>3, <1>4, <1>5, <1>6, <1>7, <1>8, <1>9, <1>a DEF Build

\* The verifier's steps keep types and phases.
LEMMA ReplayTInv ==
    ASSUME GuestIsTyped, TInv, Replay
    PROVE  TInv'
<1> USE DEF inputVars, buildVars, replayVars, daVars
<1>0. TypeOK /\ Shape  BY DEF TInv
<1>1. CASE ReplayStart
  <2>1. TypeOK'  BY <1>0, <1>1 DEF ReplayStart, TypeOK
  <2>2. Shape'  BY <1>0, <1>1 DEF ReplayStart, Shape
  <2> QED  BY <2>1, <2>2 DEF TInv
<1>2. CASE ReplayTx
  <2>1. payload \in Payloads  BY <1>0, <1>2 DEF ReplayTx, TypeOK, Shape, Payloads
  <2>2. payload.txs \in Seq(Tx)  BY <2>1 DEF Payloads
  <2>3. payload.txs[j] \in Tx /\ j - 1 \in Nat /\ j' = j + 1
    BY <1>0, <1>2, <2>2 DEF ReplayTx, TypeOK
  <2>4. vexec' \in ExecResult
    <3>1. Record(vexec, j - 1, payload.txs[j]) \in ExecResult
      BY <1>0, <2>3, RecordType DEF TypeOK
    <3> QED  BY <1>0, <1>2, <3>1 DEF ReplayTx, TypeOK
  <2>5. vforks' \in Nat \ {0} /\ (~faulty => vforks' = 1)
    <3>1. vforks \in Nat \ {0} /\ (~faulty => vforks = 1) /\ vforks' \in Close(vforks + 1)
      BY <1>0, <1>2 DEF ReplayTx, TypeOK, Shape
    <3> QED  BY <3>1 DEF Close
  <2>6. TypeOK'
    BY <1>0, <1>2, <2>3, <2>4, <2>5 DEF ReplayTx, TypeOK
  <2>7. Shape'  BY <1>0, <1>2, <2>5 DEF ReplayTx, Shape
  <2> QED  BY <2>6, <2>7 DEF TInv
<1>3. CASE ReplayFails
  <2>1. vforks' \in Nat  BY <1>0, <1>3 DEF ReplayFails, Close, TypeOK, Shape
  <2>2. TypeOK'  BY <1>0, <1>3, <2>1 DEF ReplayFails, TypeOK
  <2>3. Shape'  BY <1>0, <1>3 DEF ReplayFails, Shape
  <2> QED  BY <2>2, <2>3 DEF TInv
<1>4. CASE ReplayDone
  <2>1. \/ vpc' = "VALID" /\ vforks' = vforks
        \/ vpc' = "INVALID" /\ vforks' \in Close(vforks)
    BY <1>4 DEF ReplayDone
  <2>2. vforks \in Nat \ {0} /\ (~faulty => vforks = 1)
    BY <1>0, <1>4 DEF ReplayDone, TypeOK, Shape
  <2>3. vforks' \in Nat /\ (vpc' = "VALID" => vforks' >= 1 /\ (~faulty => vforks' = 1))
        /\ (vpc' = "INVALID" /\ ~faulty => vforks' = 0) /\ vpc' \in {"VALID", "INVALID"}
    BY <2>1, <2>2 DEF Close
  <2>4. UNCHANGED <<inputVars, buildVars, j, vexec, daVars, budget>>  BY <1>4 DEF ReplayDone
  <2>5. TypeOK'  BY <1>0, <2>3, <2>4 DEF TypeOK
  <2>6. Shape'  BY <1>0, <1>4, <2>3, <2>4 DEF Shape, ReplayDone
  <2> QED  BY <2>5, <2>6 DEF TInv
<1> QED  BY <1>1, <1>2, <1>3, <1>4 DEF Replay

\* SetMaxDASize touches only the limits.
LEMMA LimitsTInv ==
    ASSUME TInv, SetMaxDASize
    PROVE  TInv'
<1> USE DEF inputVars, buildVars, replayVars, daVars
<1>0. TypeOK /\ Shape  BY DEF TInv
<1>1. ASSUME NEW tx \in Limits, NEW blk \in Limits, SetMaxTxSize(tx, blk)  PROVE TInv'
  <2>1. TypeOK'  BY <1>0, <1>1 DEF SetMaxTxSize, TypeOK
  <2>2. Shape'  BY <1>0, <1>1 DEF SetMaxTxSize, Shape
  <2> QED  BY <2>1, <2>2 DEF TInv
<1>2. CASE SetMaxBlockSize
  <2>1. half \in Nat /\ budget \in Nat  BY <1>0, <1>2 DEF SetMaxBlockSize, TypeOK
  <2>2. budget' \in Nat  BY <1>2, <2>1, MinIsNat DEF SetMaxBlockSize
  <2>3. TypeOK'  BY <1>0, <1>2, <2>1, <2>2 DEF SetMaxBlockSize, TypeOK
  <2>4. Shape'  BY <1>0, <1>2 DEF SetMaxBlockSize, Shape
  <2> QED  BY <2>3, <2>4 DEF TInv
<1> QED  BY <1>1, <1>2 DEF SetMaxDASize

\* Types and phases are inductive.
LEMMA NextTInv == GuestIsTyped /\ TInv /\ [Next]_vars => TInv'
<1> SUFFICES ASSUME GuestIsTyped, TInv, [Next]_vars PROVE TInv'  OBVIOUS
<1>1. CASE UNCHANGED vars
  <2>1. TypeOK'  BY <1>1 DEF vars, inputVars, buildVars, replayVars, daVars, TInv, TypeOK
  <2>2. Shape'  BY <1>1 DEF vars, inputVars, buildVars, replayVars, daVars, TInv, Shape
  <2> QED  BY <2>1, <2>2 DEF TInv
<1> QED  BY <1>1, BuildTInv, ReplayTInv, LimitsTInv DEF Next

\* Every variable of the two loops keeps its type, for every guest.
THEOREM TypeCorrect == GuestIsTyped => (Spec => []TypeOK)
<1> SUFFICES ASSUME GuestIsTyped PROVE Spec => []TypeOK  OBVIOUS
<1>1. TInv /\ [Next]_vars => TInv'  BY NextTInv
<1>2. TInv => TypeOK  BY DEF TInv
<1> QED  BY <1>1, <1>2, InitTInv, PTL DEF Spec

\* While machine calls do not fail, a finished build or import owns the one
\* machine it returns, and a failed one owns none.
THEOREM ForksClosed == GuestIsTyped => (Spec => []NoForkLeaks)
<1> SUFFICES ASSUME GuestIsTyped PROVE Spec => []NoForkLeaks  OBVIOUS
<1>1. TInv /\ [Next]_vars => TInv'  BY NextTInv
<1>2. TInv => NoForkLeaks  BY DEF TInv, Shape, NoForkLeaks
<1> QED  BY <1>1, <1>2, InitTInv, PTL DEF Spec

-----------------------------------------------------------------------------
(***************************************************************************)
(* The verifier walks the builder's trail.                                 *)
(***************************************************************************)
Trail ==
    /\ Len(trail) = Len(included) + 1
    /\ trail[1] = NoExec
    /\ \A k \in 1 .. Len(included) :
          /\ Guest(trail[k].machine, k - 1, included[k]).verdict # "error"
          /\ trail[k + 1] = Record(trail[k], k - 1, included[k])
    /\ exec = trail[Len(included) + 1]
    /\ payload # None =>
          payload = [txs |-> included, stateRoot |-> exec.machine,
                     gasUsed |-> Min(exec.gasUsed, GasLimit), leaves |-> exec.leaves]

Replayed ==
    /\ vpc = "start" => j = 1
    /\ vpc # "start" => j \in 1 .. Len(included) + 1
    /\ ~faulty => vexec = trail[j]
    /\ ~faulty => vpc # "INVALID"
    /\ vpc = "VALID" => j = Len(included) + 1

HInv == TInv /\ Trail /\ Replayed

\* One inclusion extends the trail by one record.
LEMMA IncludeTrail ==
    ASSUME TypeOK, Trail, NEW tx \in Tx, Include(tx), payload' = payload, payload = None,
           Guest(exec.machine, Len(included), tx).verdict # "error", trail' \in Seq(ExecResult)
    PROVE  Trail' /\ \A k \in 1 .. Len(included) + 1 : trail'[k] = trail[k]
<1> DEFINE n == Len(included)
<1>1. n \in Nat /\ included \in Seq(Tx) /\ trail \in Seq(ExecResult) /\ Len(trail) = n + 1
  BY DEF TypeOK, Trail
<1>2. included' = Append(included, tx) /\ trail' = Append(trail, exec')
      /\ exec' = Record(exec, n, tx)
  BY DEF Include
<1>3. Len(included') = n + 1 /\ included'[n + 1] = tx
      /\ \A k \in 1 .. n : included'[k] = included[k]
  BY <1>1, <1>2
<1>4. Len(trail') = n + 2 /\ trail'[n + 2] = exec' /\ \A k \in 1 .. n + 1 : trail'[k] = trail[k]
  BY <1>1, <1>2
<1>5. exec = trail'[n + 1] /\ trail'[1] = NoExec  BY <1>1, <1>4 DEF Trail
<1>6. ASSUME NEW k \in 1 .. n + 1
      PROVE  /\ Guest(trail'[k].machine, k - 1, included'[k]).verdict # "error"
             /\ trail'[k + 1] = Record(trail'[k], k - 1, included'[k])
  <2>1. CASE k = n + 1  BY <1>1, <1>2, <1>3, <1>4, <1>5, <2>1
  <2>2. CASE k \in 1 .. n
    <3>1. /\ Guest(trail[k].machine, k - 1, included[k]).verdict # "error"
          /\ trail[k + 1] = Record(trail[k], k - 1, included[k])
      BY <2>2 DEF Trail
    <3>2. trail'[k] = trail[k] /\ trail'[k + 1] = trail[k + 1] /\ included'[k] = included[k]
      BY <1>1, <1>3, <1>4, <2>2
    <3> QED  BY <3>1, <3>2
  <2> QED  BY <1>1, <2>1, <2>2
<1>7. exec' = trail'[Len(included') + 1] /\ Len(trail') = Len(included') + 1
  BY <1>1, <1>3, <1>4
<1>8. Trail'  BY <1>3, <1>5, <1>6, <1>7 DEF Trail
<1> QED  BY <1>4, <1>8

\* The builder's steps keep the trail; the verifier has not started.
LEMMA BuildHInv ==
    ASSUME GuestIsTyped, HInv, Build
    PROVE  HInv'
<1> USE DEF inputVars, buildVars, replayVars, daVars
<1>0. TypeOK /\ Shape /\ Trail /\ Replayed  BY DEF HInv, TInv
<1>1. TInv'  BY BuildTInv DEF HInv
<1>2. bpc # "done" /\ payload = None /\ vpc = "start" /\ j = 1 /\ (~faulty => vexec = trail[1])
  <2>1. bpc # "done"
    BY DEF Build, BuildStart, Deposit, DepositFails, BuildFails, DepositsDone, AdmitsTx, AdmitsBlock,
           PoolAccepted, PoolDropped, BuildDone
  <2> QED  BY <2>1, <1>0 DEF Shape, Replayed
<1>3. UNCHANGED <<vpc, j, vexec, faulty>>
  BY DEF Build, BuildStart, Deposit, DepositFails, BuildFails, DepositsDone, AdmitsTx, AdmitsBlock,
         PoolAccepted, PoolDropped, BuildDone
<1>4. ASSUME NEW tx \in Tx, Include(tx), payload' = payload,
             Guest(exec.machine, Len(included), tx).verdict # "error"
      PROVE  HInv'
  <2>1. trail' \in Seq(ExecResult)  BY <1>1 DEF TInv, TypeOK
  <2>2. Trail' /\ \A k \in 1 .. Len(included) + 1 : trail'[k] = trail[k]
    BY <1>0, <1>2, <1>4, <2>1, IncludeTrail
  <2>3. trail'[1] = trail[1]  BY <1>0, <2>2 DEF TypeOK
  <2>4. Replayed'  BY <1>2, <1>3, <2>3 DEF Replayed
  <2> QED  BY <1>1, <2>2, <2>4 DEF HInv
<1>5. CASE Deposit
  <2>1. deposits[i] \in Tx /\ Include(deposits[i]) /\ payload' = payload
    BY <1>0, <1>5 DEF Deposit, TypeOK
  <2>2. Guest(exec.machine, Len(included), deposits[i]).verdict # "error"
    BY <1>5 DEF Deposit, Answer
  <2> QED  BY <1>4, <2>1, <2>2
<1>6. CASE PoolAccepted
  <2>0. bpc = "run" /\ Include(poolTxs[i]) /\ payload' = payload  BY <1>6 DEF PoolAccepted
  <2>1. poolTxs[i] \in Tx  BY <1>0, <2>0, CurrentPoolTx
  <2>2. Guest(exec.machine, Len(included), poolTxs[i]).verdict # "error"
    BY <1>6 DEF PoolAccepted, Answer
  <2> QED  BY <1>4, <2>0, <2>1, <2>2
<1>7. CASE BuildStart \/ DepositFails \/ BuildFails \/ DepositsDone \/ AdmitsTx \/ AdmitsBlock
           \/ PoolDropped \/ BuildDone
  <2>1. UNCHANGED <<exec, included, trail>>
    BY <1>7 DEF BuildStart, DepositFails, BuildFails, DepositsDone, AdmitsTx, AdmitsBlock,
                PoolDropped, BuildDone
  <2>2. payload' # None =>
            payload' = [txs |-> included, stateRoot |-> exec.machine,
                        gasUsed |-> Min(exec.gasUsed, GasLimit), leaves |-> exec.leaves]
    BY <1>2, <1>7 DEF BuildStart, DepositFails, BuildFails, DepositsDone, AdmitsTx, AdmitsBlock,
                      PoolDropped, BuildDone
  <2>3. Trail'  BY <1>0, <2>1, <2>2 DEF Trail
  <2>4. Replayed'  BY <1>2, <1>3, <2>1 DEF Replayed
  <2> QED  BY <1>1, <2>3, <2>4 DEF HInv
<1> QED  BY <1>5, <1>6, <1>7 DEF Build

\* The verifier's steps follow the trail, and its last comparison succeeds.
LEMMA ReplayHInv ==
    ASSUME GuestIsTyped, HInv, Replay
    PROVE  HInv'
<1> USE DEF inputVars, buildVars, replayVars, daVars
<1>0. TypeOK /\ Shape /\ Trail /\ Replayed  BY DEF HInv, TInv
<1>1. TInv'  BY ReplayTInv DEF HInv
<1>2. UNCHANGED <<exec, included, trail, payload, faulty>>
  BY DEF Replay, ReplayStart, ReplayTx, ReplayFails, ReplayDone
<1>3. Trail'  BY <1>0, <1>2 DEF Trail
<1>4. Len(included) \in Nat /\ j \in Nat \ {0}
  <2>1. included \in Seq(Tx) /\ j \in Nat \ {0}  BY <1>0, Zenon DEF TypeOK
  <2> QED  BY <2>1
<1>5. vpc = "replay" => payload.txs = included /\ payload.stateRoot = exec.machine
                        /\ payload.gasUsed = Min(exec.gasUsed, GasLimit)
                        /\ payload.leaves = exec.leaves
  BY <1>0 DEF Shape, Trail
<1>6. CASE ReplayStart
  <2>0. vpc = "start" /\ vpc' = "replay" /\ UNCHANGED <<j, vexec>>  BY <1>6 DEF ReplayStart
  <2>1. Replayed'  BY <1>0, <1>2, <1>4, <2>0 DEF Replayed
  <2> QED  BY <1>1, <1>3, <2>1 DEF HInv
<1>7. CASE ReplayTx
  <2>1. vpc = "replay" /\ vpc' = vpc /\ j \in 1 .. Len(included) /\ j' = j + 1
    BY <1>0, <1>4, <1>5, <1>7 DEF ReplayTx, Replayed
  <2>2. ASSUME ~faulty  PROVE vexec' = trail[j + 1]
    <3>1. vexec = trail[j]  BY <1>0, <2>2 DEF Replayed
    <3>2. /\ Guest(vexec.machine, j - 1, included[j]).verdict # "error"
          /\ trail[j + 1] = Record(vexec, j - 1, included[j])
      BY <1>0, <2>1, <3>1 DEF Trail
    <3>3. vexec' = Record(vexec, j - 1, included[j])
      BY <1>5, <1>7, <2>1, <2>2, <3>2 DEF ReplayTx
    <3> QED  BY <3>2, <3>3
  <2>3. j' \in 1 .. Len(included') + 1  BY <1>2, <1>4, <2>1
  <2>4. ~faulty' => vexec' = trail'[j']  BY <1>2, <2>1, <2>2
  <2>5. Replayed'  BY <2>1, <2>3, <2>4 DEF Replayed
  <2> QED  BY <1>1, <1>3, <2>5 DEF HInv
<1>8. CASE ReplayFails
  <2>1. Replayed'  BY <1>0, <1>2, <1>8 DEF ReplayFails, Replayed
  <2> QED  BY <1>1, <1>3, <2>1 DEF HInv
<1>9. CASE ReplayDone
  <2>1. vpc = "replay" /\ j = Len(included) + 1 /\ UNCHANGED <<j, vexec>>
    BY <1>0, <1>4, <1>5, <1>9 DEF ReplayDone, Replayed
  <2>2. ~faulty => vexec = exec  BY <1>0, <2>1 DEF Replayed, Trail
  <2>3. ~faulty => vpc' = "VALID"  BY <1>5, <1>9, <2>1, <2>2 DEF ReplayDone
  <2>4. vpc' \in {"VALID", "INVALID"}  BY <1>9 DEF ReplayDone
  <2>5. j' \in 1 .. Len(included') + 1  BY <1>2, <1>4, <2>1
  <2>6. ~faulty' => vexec' = trail'[j']  BY <1>0, <1>2, <2>1 DEF Replayed
  <2>7. Replayed'  BY <1>2, <2>1, <2>3, <2>4, <2>5, <2>6 DEF Replayed
  <2> QED  BY <1>1, <1>3, <2>7 DEF HInv
<1> QED  BY <1>6, <1>7, <1>8, <1>9 DEF Replay

\* Builder and verifier agree: for every deterministic guest, a block built
\* while machine calls do not fail is valid on every node that replays it.
THEOREM BuilderAndVerifierAgree == GuestIsTyped => (Spec => []HonestBlockIsValid)
<1> SUFFICES ASSUME GuestIsTyped PROVE Spec => []HonestBlockIsValid  OBVIOUS
<1>1. Init => HInv
  BY InitTInv DEF HInv, Init, Trail, Replayed
<1>2. HInv /\ [Next]_vars => HInv'
  <2> SUFFICES ASSUME HInv, [Next]_vars PROVE HInv'  OBVIOUS
  <2>1. TInv'  BY NextTInv DEF HInv
  <2>2. CASE SetMaxDASize \/ UNCHANGED vars
    <3>1. UNCHANGED <<exec, included, trail, payload, faulty, vpc, j, vexec>>
      BY <2>2 DEF SetMaxDASize, SetMaxTxSize, SetMaxBlockSize, vars, inputVars, buildVars, replayVars
    <3>2. Trail'  BY <3>1 DEF HInv, Trail
    <3>3. Replayed'  BY <3>1 DEF HInv, Replayed
    <3> QED  BY <2>1, <3>2, <3>3 DEF HInv
  <2> QED  BY <2>2, BuildHInv, ReplayHInv DEF Next
<1>3. HInv => HonestBlockIsValid  BY DEF HInv, Trail, Replayed, HonestBlockIsValid
<1> QED  BY <1>1, <1>2, <1>3, PTL DEF Spec

-----------------------------------------------------------------------------
(***************************************************************************)
(* Data-availability limits, and what a build forgets.                     *)
(***************************************************************************)
Budget ==
    /\ bpc = "start" => budget = 0
    /\ bpc # "start" => budget = 0 \/ (maxBlockSize # 0 /\ maxBlockSize <= budget)
    /\ bpc \in {"start", "deposits"} => Len(included) = i - 1 /\ i - 1 <= Len(deposits)
    /\ bpc = "run" => budget = 0 \/ daUsed + Size[poolTxs[i]] <= budget
    /\ WithinBudget

BInv == TInv /\ Budget

\* SetMaxDASize only loosens the limit a running build is held to.
LEMMA LoosestBounds ==
    \A a, b \in Nat : \/ Loosest(a, b) = 0
                      \/ a # 0 /\ b # 0 /\ a <= Loosest(a, b) /\ b <= Loosest(a, b)
  BY DEF Loosest

\* Every step keeps what is in the block within the budget.
LEMMA NextBInv == GuestIsTyped /\ BInv /\ [Next]_vars => BInv'
<1> SUFFICES ASSUME GuestIsTyped, BInv, [Next]_vars PROVE BInv'  OBVIOUS
<1> USE DEF inputVars, buildVars, replayVars, daVars
<1>0. TypeOK /\ Shape /\ Budget  BY DEF BInv, TInv
<1>1. TInv'  BY NextTInv DEF BInv
<1> SUFFICES Budget'  BY <1>1 DEF BInv
<1>2. /\ Len(included) \in Nat /\ Len(deposits) \in Nat /\ i \in Nat /\ budget \in Nat
      /\ daUsed \in Nat /\ maxBlockSize \in Nat
  BY <1>0 DEF TypeOK
<1>3. CASE BuildStart  BY <1>0, <1>2, <1>3 DEF BuildStart, Budget, WithinBudget
<1>4. CASE Deposit
  <2>1. included' = Append(included, deposits[i]) /\ i' = i + 1 /\ bpc = "deposits"
        /\ i <= Len(deposits)
    BY <1>4 DEF Deposit, Include
  <2>2. Len(included') = Len(included) + 1
    <3>1. included \in Seq(Tx)  BY <1>0, Zenon DEF TypeOK
    <3> QED  BY <2>1, <3>1
  <2>3. UNCHANGED <<bpc, budget, maxBlockSize, deposits>>  BY <1>4 DEF Deposit
  <2>4. Len(included') = i' - 1 /\ i' - 1 <= Len(deposits')
    BY <1>0, <1>2, <2>1, <2>2, <2>3 DEF Budget
  <2> QED  BY <1>0, <2>1, <2>3, <2>4 DEF Budget, WithinBudget
<1>5. CASE DepositFails \/ BuildFails \/ DepositsDone \/ BuildDone
  BY <1>0, <1>5 DEF DepositFails, BuildFails, DepositsDone, BuildDone, Budget, WithinBudget
<1>6. CASE AdmitsTx
  <2>1. /\ bpc = "pool" /\ bpc' \in {"pool", "block"}
        /\ UNCHANGED <<budget, maxBlockSize, daUsed, included, deposits>>
    BY <1>6 DEF AdmitsTx
  <2> QED  BY <1>0, <2>1 DEF Budget, WithinBudget
<1>7. CASE AdmitsBlock
  <2>1. poolTxs[i] \in Tx /\ Size[poolTxs[i]] \in Nat
    BY <1>0, <1>7, CurrentPoolTx DEF AdmitsBlock
  <2>2. bpc' = "run" => maxBlockSize = 0 \/ daUsed + Size[poolTxs[i]] <= maxBlockSize
    BY <1>2, <1>7, <2>1 DEF AdmitsBlock, Over
  <2>3. bpc' = "run" => i' = i  BY <1>7 DEF AdmitsBlock
  <2>4. bpc = "block" /\ bpc' \in {"run", "pool"}
        /\ UNCHANGED <<budget, daUsed, poolTxs, maxBlockSize, included, deposits>>
    BY <1>7 DEF AdmitsBlock
  <2>5. bpc' = "run" => budget = 0 \/ daUsed + Size[poolTxs[i]] <= budget
    BY <1>0, <1>2, <2>1, <2>2, <2>4 DEF Budget
  <2> QED  BY <1>0, <2>3, <2>4, <2>5 DEF Budget, WithinBudget
<1>8. CASE PoolAccepted
  <2>1. /\ bpc = "run" /\ bpc' = "pool" /\ daUsed' = daUsed + Size[poolTxs[i]]
        /\ UNCHANGED <<budget, maxBlockSize>>
    BY <1>8 DEF PoolAccepted, Include
  <2> QED  BY <1>0, <2>1 DEF Budget, WithinBudget
<1>9. CASE PoolDropped
  <2>1. /\ bpc = "run" /\ bpc' = "pool"
        /\ UNCHANGED <<budget, maxBlockSize, daUsed, included, deposits>>
    BY <1>9 DEF PoolDropped
  <2> QED  BY <1>0, <2>1 DEF Budget, WithinBudget
<1>10. CASE Replay \/ UNCHANGED vars
  BY <1>0, <1>10 DEF Replay, ReplayStart, ReplayTx, ReplayFails, ReplayDone, vars, Budget, WithinBudget
<1>11. CASE \E tx, blk \in Limits : SetMaxTxSize(tx, blk)
  BY <1>0, <1>11 DEF SetMaxTxSize, Budget, WithinBudget
<1>12. CASE SetMaxBlockSize
  <2>1. half \in Nat /\ maxBlockSize' = half /\ budget' = Loosest(budget, half)
    BY <1>0, <1>12 DEF SetMaxBlockSize, TypeOK
  <2>2. budget' = 0 \/ (budget # 0 /\ half # 0 /\ budget <= budget' /\ half <= budget')
    BY <1>2, <2>1, LoosestBounds
  <2>3. UNCHANGED <<bpc, i, included, deposits, poolTxs, daUsed>>  BY <1>12 DEF SetMaxBlockSize
  <2>4. bpc = "start" => budget' = 0  BY <1>0, <2>1 DEF Budget, Loosest
  <2>5. budget' \in Nat  BY <1>2, <2>1, MinIsNat
  <2>6. bpc = "run" => budget' = 0 \/ daUsed + Size[poolTxs[i]] <= budget'
    <3>1. bpc = "run" => Size[poolTxs[i]] \in Nat  BY <1>0, CurrentPoolTx
    <3> QED  BY <1>0, <1>2, <2>2, <2>5, <3>1 DEF Budget
  <2>7. WithinBudget'
    BY <1>0, <1>2, <2>2, <2>3, <2>5 DEF Budget, WithinBudget
  <2> QED  BY <1>0, <2>1, <2>2, <2>3, <2>4, <2>6, <2>7 DEF Budget
<1> QED  BY <1>3, <1>4, <1>5, <1>6, <1>7, <1>8, <1>9, <1>10, <1>11, <1>12
         DEF Next, Build, SetMaxDASize

\* A block that took anything from the pool fits the loosest limit in force
\* while it was built, however SetMaxDASize's stores fell.
THEOREM LimitsHold == GuestIsTyped => (Spec => []WithinBudget)
<1> SUFFICES ASSUME GuestIsTyped PROVE Spec => []WithinBudget  OBVIOUS
<1>1. Init => BInv
  <2>1. Init => Budget  BY DEF Init, Budget, WithinBudget
  <2> QED  BY <2>1, InitTInv DEF BInv
<1>2. BInv /\ [Next]_vars => BInv'  BY NextBInv
<1>3. BInv => WithinBudget  BY DEF BInv, Budget
<1> QED  BY <1>1, <1>2, <1>3, PTL DEF Spec

\* While machine calls do not fail, a build forgets only what the guest refused.
THEOREM ForgetsOnlyRefused == Spec => []OnlyRefusedAreForgotten
<1> DEFINE FInv == ~faulty => dropped \subseteq refused /\ Range(poolTxs) \ pool \subseteq refused
<1>1. Init => FInv  BY DEF Init
<1>2. FInv /\ [Next]_vars => FInv'
  <2> SUFFICES ASSUME FInv, [Next]_vars PROVE FInv'  OBVIOUS
  <2> USE DEF inputVars, buildVars, replayVars, daVars
  <2>1. CASE PoolDropped  BY <2>1 DEF PoolDropped
  <2>2. CASE BuildDone  BY <2>2 DEF BuildDone
  <2>3. CASE BuildStart \/ Deposit \/ DepositFails \/ BuildFails \/ DepositsDone \/ AdmitsTx
             \/ AdmitsBlock \/ PoolAccepted
    BY <2>3 DEF BuildStart, Deposit, DepositFails, BuildFails, DepositsDone, AdmitsTx, AdmitsBlock,
                PoolAccepted
  <2>4. CASE Replay \/ SetMaxDASize \/ UNCHANGED vars
    BY <2>4 DEF Replay, ReplayStart, ReplayTx, ReplayFails, ReplayDone, SetMaxDASize,
                SetMaxTxSize, SetMaxBlockSize, vars
  <2> QED  BY <2>1, <2>2, <2>3, <2>4 DEF Next, Build
<1>3. FInv => OnlyRefusedAreForgotten  BY DEF OnlyRefusedAreForgotten
<1> QED  BY <1>1, <1>2, <1>3, PTL DEF Spec
=============================================================================
