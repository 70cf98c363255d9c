------------------------------- MODULE Mempool -------------------------------
(***************************************************************************)
(* The sequencer's mempool (mempool/mempool.go) between the RPC goroutines *)
(* that Add to it and the Engine API handlers that drain it.  The locks    *)
(* are explicit, because Add consults the chain (the nonce gate, wired in  *)
(* cmd/op-cartesi/run.go) and the chain calls the pool under its own lock. *)
(*                                                                         *)
(* The handlers are those of chain/chain.go as the pool sees them:         *)
(* ForkchoiceUpdated moves the head to the imported block, takes Pending,  *)
(* executes it and Forgets what the guest rejected; ImportPayload Forgets  *)
(* what the block included.                                                *)
(***************************************************************************)
EXTENDS Naturals, Sequences, FiniteSets, SequencesExt

CONSTANTS Tx,        \* transactions, each one its own hash
          Account,
          Sender,    \* [Tx -> Account], recovered from the signature
          Nonce,     \* [Tx -> Nat]
          Client,    \* RPC goroutines calling Add
          MaxTxs,    \* Pool.max
          GasTxs,    \* how many transactions the block gas limit leaves room for
          Free       \* an unlocked mutex; no transaction

ASSUME PoolAssumption ==
    /\ Sender \in [Tx -> Account]
    /\ Nonce \in [Tx -> Nat]
    /\ MaxTxs \in Nat \ {0}
    /\ GasTxs \in Nat \ {0}
    /\ Free \notin Client \cup Tx
    /\ "handler" \notin Client \cup {Free}

VARIABLES txs, known, byNonce,    \* Pool.txs, Pool.known, Pool.byNonce
          poolMu,                 \* who holds Pool.mu
          pc, arg, seen,          \* each client: where in Add, with what, head read
          chainMu, writer,        \* Chain.mu is write-held; a writer is waiting
          call,                   \* the Engine API call in progress
          nonces,                 \* account nonces in the head's machine
          block                   \* the payload being built, imported, made head

poolVars == <<txs, known, byNonce>>
clientVars == <<pc, arg, seen>>
handlerVars == <<chainMu, writer, call, nonces, block>>
vars == <<poolVars, poolMu, clientVars, handlerVars>>

\* senderNonce, the key of byNonce.
Slot(t) == <<Sender[t], Nonce[t]>>

Queued == {txs[i] : i \in DOMAIN txs}

Unread == [a \in Account |-> 0]
NoBlock == [state |-> "none", included |-> << >>, dropped |-> {}, nonces |-> nonces]

Init ==
    /\ txs = << >> /\ known = {} /\ byNonce = {}
    /\ poolMu = Free
    /\ pc = [c \in Client |-> "idle"]
    /\ arg = [c \in Client |-> Free]
    /\ seen = [c \in Client |-> Unread]
    /\ chainMu = FALSE /\ writer = FALSE
    /\ call = "none"
    /\ nonces = Unread
    /\ block = NoBlock

(***************************************************************************)
(* Add, one step per stretch between two lock operations.                  *)
(***************************************************************************)
\* Size, decoding and type checks touch nothing shared; a transaction that
\* fails them never gets here.
Submit(c, t) ==
    /\ pc[c] = "idle"
    /\ pc' = [pc EXCEPT ![c] = "lockGate"]
    /\ arg' = [arg EXCEPT ![c] = t]
    /\ UNCHANGED <<poolVars, poolMu, seen, handlerVars>>

\* Add answers; its locals are gone.
Return(c) ==
    /\ pc' = [pc EXCEPT ![c] = "idle"]
    /\ arg' = [arg EXCEPT ![c] = Free]
    /\ seen' = [seen EXCEPT ![c] = Unread]

LockPool(c, from, to) ==
    /\ pc[c] = from
    /\ poolMu = Free
    /\ poolMu' = c
    /\ pc' = [pc EXCEPT ![c] = to]
    /\ UNCHANGED <<poolVars, arg, seen, handlerVars>>

\* signer and hook are copied out and the lock released before the hook runs.
ReadGate(c) ==
    /\ pc[c] = "gate"
    /\ poolMu' = Free
    /\ pc' = [pc EXCEPT ![c] = "head"]
    /\ UNCHANGED <<poolVars, arg, seen, handlerVars>>

\* A reader of Chain.mu waits for a writer that holds it or is queued for it.
Readable == ~chainMu /\ ~writer

\* HeadBlock: the first of the hook's two reads pins the head.
ReadHead(c) ==
    /\ pc[c] = "head"
    /\ Readable
    /\ pc' = [pc EXCEPT ![c] = "account"]
    /\ seen' = [seen EXCEPT ![c] = nonces]
    /\ UNCHANGED <<poolVars, poolMu, arg, handlerVars>>

\* AccountAt on the pinned block: a nonce already consumed is refused, and
\* so is every transaction if the block's snapshot was pruned meanwhile.
ReadAccount(c) ==
    /\ pc[c] = "account"
    /\ Readable
    /\ \/ /\ Nonce[arg[c]] >= seen[c][Sender[arg[c]]]
          /\ pc' = [pc EXCEPT ![c] = "lockInsert"]
          /\ seen' = [seen EXCEPT ![c] = Unread]
          /\ UNCHANGED arg
       \/ /\ Nonce[arg[c]] < seen[c][Sender[arg[c]]] \/ seen[c] # nonces
          /\ Return(c)
    /\ UNCHANGED <<poolVars, poolMu, handlerVars>>

\* The scan for the slot's holder stops at the first entry that matches.
HoldsFirst(i, t) ==
    /\ Slot(txs[i]) = Slot(t)
    /\ \A k \in 1 .. i - 1 : Slot(txs[k]) # Slot(t)

Replaced(t) == [i \in DOMAIN txs |-> IF HoldsFirst(i, t) THEN t ELSE txs[i]]

\* The second critical section: duplicate, replacement in place, full, append.
Insert(c) ==
    LET t == arg[c]
        held == {txs[i] : i \in {k \in DOMAIN txs : HoldsFirst(k, t)}}
    IN  /\ pc[c] = "insert"
        /\ \/ t \in known /\ UNCHANGED poolVars
           \/ /\ t \notin known /\ Slot(t) \in byNonce /\ held # {}
              /\ txs' = Replaced(t)
              /\ known' = (known \ held) \cup {t}
              /\ UNCHANGED byNonce
           \/ /\ t \notin known /\ (Slot(t) \notin byNonce \/ held = {})
              /\ IF Len(txs) >= MaxTxs
                 THEN byNonce' = byNonce \ {Slot(t)} /\ UNCHANGED <<txs, known>>
                 ELSE /\ txs' = Append(txs, t)
                      /\ known' = known \cup {t}
                      /\ byNonce' = byNonce \cup {Slot(t)}
        /\ poolMu' = Free
        /\ Return(c)
        /\ UNCHANGED handlerVars

(***************************************************************************)
(* The Engine API handlers, called one at a time by op-node.               *)
(***************************************************************************)
\* engine_forkchoiceUpdated, with or without attributes to build from, at any
\* time; engine_newPayload of the built block.
Called(name) ==
    /\ call = "none"
    /\ name = "importPayload" => block.state = "built"
    /\ call' = name
    /\ writer' = TRUE
    /\ UNCHANGED <<poolVars, poolMu, clientVars, chainMu, nonces, block>>

\* Both forms of forkchoiceUpdated make the imported block the head.
MoveHead ==
    IF block.state = "imported"
    THEN nonces' = block.nonces /\ block' = [NoBlock EXCEPT !.nonces = block.nonces]
    ELSE UNCHANGED <<nonces, block>>

\* c.mu.Lock().  Without attributes, with NoTxPool or with a payload already
\* pending under the same id the call never reaches the pool.
LockChain ==
    /\ writer /\ ~chainMu
    /\ writer' = FALSE
    /\ \/ /\ call = "importPayload"
          /\ call' = "lockForget" /\ chainMu' = TRUE
          /\ UNCHANGED <<nonces, block>>
       \/ /\ call = "buildPayload"
          /\ call' = "lockPending" /\ chainMu' = TRUE
          /\ MoveHead
       \/ /\ call = "forkchoiceUpdated"
          /\ call' = "none" /\ UNCHANGED chainMu
          /\ MoveHead
    /\ UNCHANGED <<poolVars, poolMu, clientVars>>

HandlerLocksPool ==
    /\ call \in {"lockPending", "lockForget"}
    /\ poolMu = Free
    /\ poolMu' = "handler"
    /\ call' = IF call = "lockPending" THEN "pending" ELSE "forget"
    /\ UNCHANGED <<poolVars, clientVars, chainMu, writer, nonces, block>>

\* Wrong: what the guest rejects is left for the next block.
RunTxKeepsRejected(b, t) ==
    IF Len(b.included) >= GasTxs \/ Nonce[t] # b.nonces[Sender[t]] THEN b
    ELSE [b EXCEPT !.included = Append(@, t), !.nonces[Sender[t]] = @ + 1]

\* applyBuild's pool loop: stop at the gas limit, drop what the guest rejects
\* (the router rejects any nonce but the account's next one), include the rest.
RunTx(b, t) ==
    IF Len(b.included) >= GasTxs THEN b
    ELSE IF Nonce[t] # b.nonces[Sender[t]]
         THEN [b EXCEPT !.dropped = @ \cup {t}]
         ELSE [b EXCEPT !.included = Append(@, t), !.nonces[Sender[t]] = @ + 1]

\* Pending is copied under p.mu and executed after p.mu is released.
Pending ==
    /\ call = "pending"
    /\ poolMu' = Free
    /\ LET ran == FoldLeft(RunTx, NoBlock, txs)
       IN  block' = [state |-> "executed", included |-> ran.included,
                     dropped |-> ran.dropped, nonces |-> ran.nonces]
    /\ call' = "lockForget"
    /\ UNCHANGED <<poolVars, clientVars, chainMu, writer, nonces>>

\* Forget's loop over p.txs appends what stays to kept: the k-th entry kept is
\* the one with k kept entries up to it.
KeptIndex(keep, k) == CHOOSE i \in keep : Cardinality({j \in keep : j <= i}) = k

Kept(keep) == [k \in 1 .. Cardinality(keep) |-> txs[KeptIndex(keep, k)]]

\* Wrong: every forgotten hash frees its slot, queued or not.
ForgetFreesAll(hashes) ==
    /\ txs' = Kept({i \in DOMAIN txs : txs[i] \notin hashes})
    /\ known' = known \ hashes
    /\ byNonce' = byNonce \ {Slot(t) : t \in hashes}

\* Wrong: forgetting a hash empties its whole slot.
ForgetBySlot(hashes) ==
    LET slots == {Slot(t) : t \in hashes}
    IN  /\ txs' = Kept({i \in DOMAIN txs : Slot(txs[i]) \notin slots})
        /\ known' = {t \in known : Slot(t) \notin slots}
        /\ byNonce' = byNonce \ slots

Forget(hashes) ==
    LET gone == Queued \cap hashes
    IN  /\ txs' = Kept({i \in DOMAIN txs : txs[i] \notin hashes})
        /\ known' = known \ gone
        /\ byNonce' = byNonce \ {Slot(t) : t \in gone}

\* The end of either handler: applyBuild forgets what was rejected and its
\* block becomes a pending payload; commit forgets what the block included.
ForgetAndReturn ==
    /\ call = "forget"
    /\ IF block.state = "executed"
       THEN /\ Forget(block.dropped)
            /\ block' = [block EXCEPT !.state = "built", !.dropped = {}]
       ELSE /\ Forget(Range(block.included))
            /\ block' = [block EXCEPT !.state = "imported", !.included = << >>]
    /\ poolMu' = Free
    /\ call' = "none" /\ chainMu' = FALSE
    /\ UNCHANGED <<clientVars, writer, nonces>>

AddStep(c) == ReadGate(c) \/ ReadHead(c) \/ ReadAccount(c) \/ Insert(c)
AddLocks(c) == LockPool(c, "lockGate", "gate") \/ LockPool(c, "lockInsert", "insert")
Driver == \E name \in {"forkchoiceUpdated", "buildPayload", "importPayload"} : Called(name)
Handler == LockChain \/ HandlerLocksPool \/ Pending \/ ForgetAndReturn

Next ==
    \/ \E c \in Client : \/ \E t \in Tx : Submit(c, t)
                         \/ AddStep(c)
                         \/ AddLocks(c)
    \/ Driver
    \/ Handler

Spec == Init /\ [][Next]_vars

\* Go schedules every goroutine; a sync.Mutex hands itself to a goroutine that
\* has waited long (starvation mode), hence SF on taking it.  The sequencer in
\* op-node keeps asking for payloads and keeps importing what it was given.
Fairness ==
    /\ \A c \in Client : SF_vars(AddStep(c)) /\ SF_vars(AddLocks(c))
    /\ WF_vars(LockChain) /\ WF_vars(Pending) /\ WF_vars(ForgetAndReturn)
    /\ SF_vars(HandlerLocksPool)
    /\ SF_vars(Called("buildPayload")) /\ SF_vars(Called("importPayload"))

FairSpec == Spec /\ Fairness

-----------------------------------------------------------------------------
\* The pool, the clients and the handler have their types.
TypeOK ==
    /\ txs \in Seq(Tx) /\ known \subseteq Tx /\ byNonce \subseteq Account \X Nat
    /\ poolMu \in Client \cup {Free, "handler"}
    /\ pc \in [Client -> {"idle", "lockGate", "gate", "head", "account", "lockInsert", "insert"}]
    /\ arg \in [Client -> Tx \cup {Free}]
    /\ chainMu \in BOOLEAN /\ writer \in BOOLEAN
    /\ call \in {"none", "forkchoiceUpdated", "buildPayload", "importPayload",
                 "lockPending", "pending", "lockForget", "forget"}
    /\ block.state \in {"none", "executed", "built", "imported"}

\* Whoever holds Pool.mu is inside one of its critical sections, and none of
\* these waits for Chain.mu: Add lets go of the pool before it asks the chain.
PoolMutexIsInner ==
    /\ \A c \in Client : poolMu = c <=> pc[c] \in {"gate", "insert"}
    /\ poolMu = "handler" <=> call \in {"pending", "forget"}
    /\ chainMu <=> call \in {"lockPending", "pending", "lockForget", "forget"}

\* The pool's two indexes describe its queue exactly, whatever Add, Forget and
\* replacement did to it: no hash is known without being queued, no slot is
\* reserved without a holder, and one slot has one holder.
IndexesAgree ==
    /\ known = Queued
    /\ byNonce = {Slot(t) : t \in Queued}
    /\ \A i, j \in DOMAIN txs : Slot(txs[i]) = Slot(txs[j]) => i = j
    /\ Len(txs) <= MaxTxs

\* A queued transaction leaves for one of three reasons only: the sender
\* replaced it, the guest rejected it in a build, or an imported block holds it.
LeavesForAReason ==
    [][\A t \in Queued \ Queued' :
         \/ \E u \in Queued' : Slot(u) = Slot(t)
         \/ block.state = "executed" /\ t \in block.dropped
         \/ block'.state = "imported" /\ t \in Range(block.included)]_vars

\* No transaction stays queued forever: it is included, rejected or replaced.
\* (Data-availability throttling, which may hold one back, is in Execution.)
QueuedLeaves == \A t \in Tx : t \in Queued ~> t \notin Queued
=============================================================================
