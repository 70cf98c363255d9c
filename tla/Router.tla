------------------------------- MODULE Router -------------------------------
(***************************************************************************)
(* The guest's router and its built-in handlers (app/src/router.ts,        *)
(* app/src/handlers/*.ts, app/src/contract.ts): what one rollup input does *)
(* to the ledger, which outputs it emits, and what a call reads.           *)
(*                                                                         *)
(* One action is one input: the router runs an input to its end before it  *)
(* yields.  Calldata is a record naming the function it decodes to; event  *)
(* logs and reports are left out, withdrawals and vouchers are kept.  An    *)
(* input that finishes rejected rolls the machine back, and a call runs on *)
(* a fork of it: of both, memory the journal does not cover keeps nothing. *)
(***************************************************************************)
EXTENDS Ledger, Functions

CONSTANTS Owner,         \* cfg.owner
          L1Messenger,   \* the aliased L1 messenger, the sender of first deliveries
          l2TokenAddress,\* [Token -> Address]: a token's facade
          Inputs,        \* what the chain may feed: [type, from, to, value, call, ...],
                         \* a deposit's mint, a transaction's signature and chain
          MaxInputs      \* bound on accepted inputs

VARIABLES ledger,   \* the Ledger object
          manifest, \* the addresses routed to a handler, built in or registered
          ram,      \* an application contract's own memory: the value it booked
          attributes, \* L1Block.attributes: the L1 block number
          lastBlock,\* the last input's appContract
          result,   \* [kind, out] of the last input; fork is what a simulation left
          (* Histories of what L1 holds for the guest.                     *)
          circulating, \* ether minted, less ether withdrawn and fees burnt
          escrow,   \* tokens held by "app" (portals) and by "bridge", per token
          moved,    \* a registered portal was registered again as another kind
          inputs    \* accepted inputs

machineVars == <<ledger, manifest, ram, attributes, lastBlock>>
vars == <<machineVars, result, circulating, escrow, moved, inputs>>

(* What the constructor routes.  An application contract's address is       *)
(* "contract".                                                              *)
BuiltIn == {"registry", "bridge", "config", "l1block", "messenger", "l2bridge", "passer"}

Payable(handler) == handler \in {"bridge", "messenger", "passer", "contract", "portal"}

FacadeAt(l, a) == {t \in Token : l2TokenAddress[t] = a /\ l.mem.facade[t] # Absent}

(* Router.resolve: the manifest, then the portal receiver, then a facade.   *)
(* Outside a block (ctx.app = Absent) there is no application contract.     *)
Resolve(l, ctx) ==
  CASE ctx.to \in manifest -> ctx.to
    [] ctx.to \notin manifest /\ ctx.to = ctx.app -> "portal"
    [] /\ ctx.to \notin manifest \cup {ctx.app}
       /\ ctx.deposit /\ ctx.from \in Portal /\ l.mem.portal[ctx.from] # Absent -> "portal"
    [] OTHER -> IF FacadeAt(l, ctx.to) # {} THEN "erc20" ELSE "none"

-----------------------------------------------------------------------------
(* Handlers.  Each returns the ledger, the outcome and what it emitted; a   *)
(* throw is the outcome "throw".                                            *)

Outcome(kind, l, out) == [kind |-> kind, l |-> l, out |-> out]

Revert(l) == Outcome("revert", l, << >>)

(* try { ... } catch (InsufficientFunds) { revert }, the rest rethrown *)
Guarded(r, out) ==
  CASE r.error = "none" -> Outcome("accept", r.l, out)
    [] r.error = "insufficient" -> Outcome("revert", r.l, << >>)
    [] OTHER -> Outcome("throw", r.l, << >>)

(* no try: whatever is thrown escapes the handler *)
Unguarded(r, out) == IF r.error = "none" THEN Outcome("accept", r.l, out)
                                         ELSE Outcome("throw", r.l, << >>)

Withdrawal(sender, value) ==
  [kind |-> "withdrawal", sender |-> sender, value |-> value, token |-> Absent,
   amount |-> 0, msgNonce |-> Absent]

ConfigAdvance(l, ctx) ==
  LET c == ctx.call IN
  CASE ctx.from # Owner -> Revert(l)
    [] ctx.from = Owner /\ c.fn = "setFee" ->
         Outcome("accept", SetFee(l, c.fee), << >>)
    [] ctx.from = Owner /\ c.fn = "registerPortal" ->
         IF c.kind \notin {"ether", "erc20"} \/ (c.kind = "erc20" /\ l.mem.word.crossDomain)
         THEN Revert(l)
         ELSE Outcome("accept", RegisterPortal(l, c.portal, c.kind), << >>)
    [] ctx.from = Owner /\ c.fn = "registerMessenger" ->
         IF HasErc20Portal(l) THEN Revert(l)
         ELSE Outcome("accept", RegisterCrossDomain(l), << >>)
    [] ctx.from = Owner /\ c.fn = "registerToken" ->
         LET r == RegisterToken(l, c.token, TRUE) IN
         IF r.error = "duplicateToken" THEN Revert(r.l) ELSE Unguarded(r, << >>)
    [] ctx.from = Owner /\ c.fn = "setTokenMetadata" ->
         IF TokenByL1Address(l, c.token) = {} THEN Revert(l)
         ELSE Outcome("accept",
                      SetMetadata(l, CHOOSE i \in TokenByL1Address(l, c.token) : TRUE),
                      << >>)
    [] OTHER -> Revert(l)

BridgeAdvance(l, ctx) ==
  LET c == ctx.call IN
  CASE c.fn = "withdrawEther" ->
         IF ctx.value = 0 THEN Revert(l)
         ELSE Unguarded(DebitEther(l, ctx.to, ctx.value), <<Withdrawal(ctx.from, ctx.value)>>)
    [] c.fn = "withdrawERC20" ->
         IF l.mem.word.crossDomain \/ l.mem.facade[c.token] = Absent THEN Revert(l)
         ELSE Guarded(DebitToken(l, ctx.from, l.mem.facade[c.token], c.amount),
                      <<[kind |-> "voucher", sender |-> ctx.from, value |-> 0,
                         token |-> c.token, amount |-> c.amount, msgNonce |-> Absent]>>)
    [] OTHER -> Revert(l)

(* Wrong: the value is withdrawn and not burnt. *)
PasserAdvanceKeepsValue(l, ctx) ==
  IF ctx.call.fn \notin {"", "initiateWithdrawal"} THEN Revert(l)
  ELSE Outcome("accept", l, <<Withdrawal(ctx.from, ctx.value)>>)

PasserAdvance(l, ctx) ==
  IF ctx.call.fn \notin {"", "initiateWithdrawal"} THEN Revert(l)
  ELSE Unguarded(DebitEther(l, ctx.to, ctx.value), <<Withdrawal(ctx.from, ctx.value)>>)

Erc20Advance(l, ctx) ==
  LET id == l.mem.facade[CHOOSE t \in FacadeAt(l, ctx.to) : TRUE]
      c  == ctx.call
  IN IF c.fn # "transfer" THEN Revert(l)
     ELSE Guarded(Then(DebitToken(l, ctx.from, id, c.amount),
                       LAMBDA x : CreditToken(x, c.to, id, c.amount)), << >>)

(* First-seen registration, then the credit. *)
Receive(l, token, to, amount) ==
  LET r == IF TokenByL1Address(l, token) # {} THEN Done(l) ELSE RegisterToken(l, token, FALSE)
  IN Then(r, LAMBDA x : CreditToken(x, to, CHOOSE i \in TokenByL1Address(x, token) : TRUE, amount))

PortalAdvance(l, ctx) ==
  LET c == ctx.call IN
  CASE ~ctx.deposit \/ ctx.from \notin Portal -> Revert(l)
    [] OTHER ->
       CASE l.mem.portal[ctx.from] = Absent \/ c.fn # "portal" -> Revert(l)
         [] l.mem.portal[ctx.from] = "ether" /\ c.fn = "portal" ->
              Guarded(Then(DebitEther(l, ctx.to, c.amount),
                           LAMBDA x : CreditEther(x, c.to, c.amount)), << >>)
         [] OTHER -> Unguarded(Receive(l, c.token, c.to, c.amount), << >>)

(* sendCrossDomainMessage takes the next message nonce. *)
L2BridgeAdvance(l, ctx) ==
  LET c == ctx.call IN
  CASE ~l.mem.word.crossDomain \/ c.fn # "bridgeERC20" -> Revert(l)
    [] OTHER ->
       IF l.mem.facade[c.token] = Absent \/ ~c.pair THEN Revert(l)
       ELSE LET n == l.mem.word.msgNonce IN
            Guarded(Then(DebitToken(l, ctx.from, l.mem.facade[c.token], c.amount),
                         LAMBDA x : Done(NextMessageNonce(x))),
                    <<[kind |-> "withdrawal", sender |-> "l2bridge", value |-> 0,
                       token |-> c.token, amount |-> c.amount, msgNonce |-> n]>>)

(* Messenger.dispatch and L2Bridge.finalizeFromMessenger: the relayed call. *)
DispatchMessage(l, m) ==
  LET pass(to) == Then(DebitEther(l, "messenger", m.value),
                       LAMBDA x : CreditEther(x, to, m.value))
  IN CASE m.target = "l2bridge" /\ m.fromBridge /\ m.fn = "finalizeBridgeERC20" ->
            IF m.value # 0 \/ ~m.pair THEN Throw(l, "relay")
            ELSE Receive(l, m.token, m.to, m.amount)
       [] m.target = "l2bridge" /\ m.fromBridge /\ m.fn = "finalizeBridgeETH" ->
            IF m.value # m.amount THEN Throw(l, "relay") ELSE pass(m.to)
       [] m.target # "l2bridge" /\ m.fn = "" -> pass(m.target)
       [] OTHER -> Throw(l, "relay")

(* Wrong: a failed dispatch undoes the delivery of the value too. *)
RelayUndoesAll(l, m) ==
  LET r == DispatchMessage(l, m) IN
  IF r.error = "none" THEN SetMessageStatus(r.l, m, "successful")
                      ELSE SetMessageStatus(Undo(r.l, 0), m, "failed")

(* A failed dispatch is undone to its own mark and recorded as failed. *)
Relay(l, m) ==
  LET r == DispatchMessage(l, m) IN
  IF r.error = "none" THEN SetMessageStatus(r.l, m, "successful")
                      ELSE SetMessageStatus(Undo(r.l, Mark(l)), m, "failed")

(* Wrong: a message that was relayed is relayed again. *)
MessengerAdvanceAgain(l, ctx) ==
  IF ~l.mem.word.crossDomain \/ ctx.call.fn # "relayMessage" THEN Revert(l)
  ELSE IF ctx.value # (IF ctx.deposit THEN ctx.call.message.value ELSE 0) THEN Revert(l)
  ELSE Outcome("accept", Relay(l, ctx.call.message), << >>)

MessengerAdvance(l, ctx) ==
  CASE ~l.mem.word.crossDomain \/ ctx.call.fn # "relayMessage" -> Revert(l)
    [] OTHER ->
       LET m      == ctx.call.message
           fromL1 == ctx.deposit /\ ctx.from = L1Messenger
       IN IF \/ m.version # 1 \/ l.mem.message[m] = "successful"
             \/ fromL1 /\ (ctx.value # m.value \/ l.mem.message[m] = "failed")
             \/ ~fromL1 /\ (ctx.value # 0 \/ l.mem.message[m] # "failed")
          THEN Revert(l)
          ELSE Outcome("accept", Relay(l, m), << >>)

(* contractHandler around a callback that books the value it is sent in    *)
(* its own memory: it may return, revert before it wrote, or throw Fail    *)
(* after it did.                                                           *)
ContractAdvance(l, ctx) ==
  CASE ctx.call.fn = "book" -> Outcome("accept", l, << >>)
    [] ctx.call.fn = "bookThenFail" -> Outcome("fail", l, << >>)
    [] OTHER -> Revert(l)

(* L1Block.advance takes the attributes of a call long enough to hold them, *)
(* whoever sends it.  They are memory: see Advance.                         *)
L1BlockAdvance(l, ctx) ==
  IF ctx.call.fn # "setL1BlockValues" \/ ctx.call.short THEN Revert(l)
  ELSE Outcome("accept", l, << >>)

HandlerAdvance(handler, l, ctx) ==
  CASE handler = "config" -> ConfigAdvance(l, ctx)
    [] handler = "bridge" -> BridgeAdvance(l, ctx)
    [] handler = "passer" -> PasserAdvance(l, ctx)
    [] handler = "messenger" -> MessengerAdvance(l, ctx)
    [] handler = "l2bridge" -> L2BridgeAdvance(l, ctx)
    [] handler = "contract" -> ContractAdvance(l, ctx)
    [] handler = "l1block" -> L1BlockAdvance(l, ctx)
    [] handler = "portal" -> PortalAdvance(l, ctx)
    [] handler = "erc20" -> Erc20Advance(l, ctx)
    [] OTHER -> Revert(l)

-----------------------------------------------------------------------------
(* The router.                                                             *)

(* Resolve and dispatch; with no handler it is a plain transfer. *)
HandlerOutcome(l, ctx) ==
  LET handler == Resolve(l, ctx)
  IN CASE handler = "none" -> Outcome("accept", l, << >>)
       [] handler # "none" /\ ctx.value > 0 /\ ~Payable(handler) -> Revert(l)
       [] OTHER -> HandlerAdvance(handler, l, ctx)

(* The try block of Router.execute: move the value, resolve, dispatch. *)
Run(l, ctx) ==
  LET paid == Then(DebitEther(l, ctx.from, ctx.value),
                   LAMBDA x : CreditEther(x, ctx.to, ctx.value))
  IN IF paid.error # "none" THEN Outcome("throw", paid.l, << >>) ELSE HandlerOutcome(paid.l, ctx)

RollbackAll(l) == Undo(l, 0)

Rejected(l) == Outcome("reject", RollbackAll(l), << >>)

(* The charge closes the input: if it cannot be written the input is        *)
(* rejected.  A deposit carries no charge.                                  *)
Charged(h, ctx, fee) ==
  LET r == IF ctx.deposit THEN Done(h.l) ELSE BumpNonceAndCharge(h.l, ctx.from, fee)
  IN IF r.error # "none" THEN Rejected(r.l)
     ELSE Outcome(h.kind, CommitJournal(r.l), h.out)

(* Wrong: a revert takes the mint back. *)
ExecuteRevertsMint(l, ctx, mark, fee) ==
  LET h == Run(l, ctx)
  IN CASE h.kind = "throw" /\ ctx.deposit -> Rejected(h.l)
       [] h.kind = "revert" \/ (h.kind = "throw" /\ ~ctx.deposit) ->
            Charged(Outcome("revert", Undo(h.l, 0), << >>), ctx, fee)
       [] OTHER -> Charged(h, ctx, fee)

(* Router.execute: from a mark a revert rolls back to.  A throw is a revert *)
(* when there is someone to charge and a rejection when there is not.       *)
Execute(l, ctx, mark, fee) ==
  LET h      == Run(l, ctx)
      reject == h.kind = "throw" /\ ctx.deposit
      revert == h.kind = "revert" \/ (h.kind = "throw" /\ ~ctx.deposit)
  IN CASE reject -> Rejected(h.l)
       [] revert -> Charged(Outcome("revert", Undo(h.l, mark), << >>), ctx, fee)
       [] OTHER -> Charged(h, ctx, fee)

(* The histories: what an accepted input brought in and what it let out.    *)
Released(out, token) ==
  MapThenSumSet(LAMBDA i : IF out[i].token = token THEN out[i].amount ELSE 0, DOMAIN out)

ByPortal(ctx, token) ==
  IF /\ Resolve(ledger, ctx) = "portal" /\ ctx.from \in Portal /\ ctx.call.fn = "portal"
  THEN IF ledger.mem.portal[ctx.from] = "erc20" /\ ctx.call.token = token
       THEN ctx.call.amount ELSE 0
  ELSE 0

ByMessage(l, token) ==
  LET relayed == {m \in Message : /\ l.mem.message[m] = "successful"
                                  /\ ledger.mem.message[m] # "successful"
                                  /\ m.fn = "finalizeBridgeERC20" /\ m.token = token}
  IN MapThenSumSet(LAMBDA m : m.amount, relayed)

Escrowed(o, ctx) ==
  [app    |-> [t \in Token |->
                 escrow.app[t] + (IF o.kind = "accept" THEN ByPortal(ctx, t) ELSE 0)
                   - (IF ctx.to = "bridge" THEN Released(o.out, t) ELSE 0)],
   bridge |-> [t \in Token |->
                 escrow.bridge[t] + ByMessage(o.l, t)
                   - (IF ctx.to = "l2bridge" THEN Released(o.out, t) ELSE 0)]]

(* A handler that returned wrote its own memory, which the journal does not *)
(* cover.                                                                   *)
Wrote(o) == o.kind \in {"accept", "fail"}

RamAfter(o, ctx) == IF Wrote(o) /\ ctx.to = "contract" THEN ram + ctx.value ELSE ram

AttributesAfter(o, ctx) == IF Wrote(o) /\ ctx.to = "l1block" THEN ctx.call.number ELSE attributes

(* An input leaves its outcome behind; if it is rejected the machine undoes *)
(* everything.                                                              *)
Advance(o, ctx, mint, fee) ==
  LET kept  == o.kind # "reject" IN
  /\ ledger' = o.l
  /\ result' = [kind |-> o.kind, out |-> o.out, from |-> ctx.from, deposit |-> ctx.deposit,
                mint |-> mint, fork |-> Absent]
  /\ ram' = RamAfter(o, ctx)
  /\ attributes' = AttributesAfter(o, ctx)
  /\ lastBlock' = IF kept THEN "app" ELSE lastBlock
  /\ circulating' = IF kept
                    THEN circulating + mint - fee
                           - MapThenSumSet(LAMBDA i : o.out[i].value, DOMAIN o.out)
                    ELSE circulating
  /\ escrow' = IF kept THEN Escrowed(o, ctx) ELSE escrow
  /\ moved' = (moved \/ \E p \in Portal : ledger.mem.portal[p] \notin {Absent, o.l.mem.portal[p]})
  /\ inputs' = IF kept THEN inputs + 1 ELSE inputs
  /\ UNCHANGED manifest

Context(i, deposit, app) ==
  [from |-> i.from, to |-> i.to, value |-> i.value, call |-> i.call, deposit |-> deposit,
   app |-> app]

(* parseInput: bytes that are no transaction, a deposit of nobody and an    *)
(* unsigned transaction are opaque; blob and set-code types are refused.    *)
ParseInput(i) ==
  CASE i.type = "none" -> "opaque"
    [] i.type = "deposit" -> IF i.from = Absent THEN "opaque" ELSE "deposit"
    [] i.type \in {"legacy", "eip2930", "eip1559"} ->
         IF i.signature = "none" THEN "opaque" ELSE "signed"
    [] OTHER -> "refused"

(* An opaque input is recorded and accepted, with nothing enforced. *)
AdvanceOpaque(i) ==
  /\ inputs < MaxInputs
  /\ ParseInput(i) = "opaque"
  /\ result' = [result EXCEPT !.kind = "opaque", !.out = << >>, !.fork = Absent]
  /\ lastBlock' = "app"
  /\ UNCHANGED <<ledger, manifest, ram, attributes, circulating, escrow, moved, inputs>>

AdvanceRefused(i) ==
  /\ inputs < MaxInputs
  /\ ParseInput(i) = "refused"
  /\ Advance(Outcome("reject", ledger, << >>), Context(i, FALSE, "app"), 0, 0)

(* Router.advanceDeposit: the mint is credited first and survives a revert; *)
(* a deposit with no recipient is the mint alone.                           *)
AdvanceDeposit(d) ==
  LET ctx  == Context(d, TRUE, "app")
      mint == CreditEther(ledger, d.from, d.mint)
  IN /\ inputs < MaxInputs
     /\ ParseInput(d) = "deposit"
     /\ Advance(CASE mint.error # "none" -> Rejected(mint.l)
                  [] mint.error = "none" /\ d.to = Absent ->
                       Outcome("accept", CommitJournal(mint.l), << >>)
                  [] OTHER -> Execute(mint.l, ctx, Mark(mint.l), 0),
                ctx, d.mint, 0)

(* recoverSender: a signature with a high s or that recovers nobody is no   *)
(* signature.                                                               *)
RecoverSender(tx) == IF tx.signature = "good" THEN tx.from ELSE Absent

(* Router.advanceSigned: what the sender cannot be charged for is rejected  *)
(* before anything is written.                                              *)
AdvanceSigned(tx, nonce) ==
  LET ctx     == Context(tx, FALSE, "app")
      account == AccountOf(ledger, tx.from)
      fee     == ledger.mem.word.fee
  IN /\ inputs < MaxInputs
     /\ ParseInput(tx) = "signed"
     /\ Advance(IF \/ tx.to = Absent \/ tx.chain = "other" \/ RecoverSender(tx) = Absent
                   \/ nonce # account.nonce \/ account.balance < fee + tx.value
                THEN Outcome("reject", ledger, << >>)
                ELSE Execute(ledger, ctx, Mark(ledger), fee),
                ctx, 0, fee)

(* emptyBlock, before the first input: the zero application contract. *)
SimulationApp == IF lastBlock = Absent THEN Zero ELSE lastBlock

(* Router.inspect, EvmSimulate: a call run without signature, nonce or fee, *)
(* on a fork of the parked machine that the host then drops.  The guest     *)
(* rolls the ledger back itself; what handlers wrote to memory of their own *)
(* goes with the fork alone.                                                *)
InspectSimulate(tx) ==
  LET ctx == Context(tx, FALSE, SimulationApp)
      h   == Run(ledger, ctx)
  IN /\ result' = [kind |-> "simulated", out |-> << >>, from |-> tx.from, deposit |-> FALSE,
                   mint |-> 0,
                   fork |-> [ledger |-> Undo(h.l, Mark(ledger)), ram |-> RamAfter(h, ctx),
                             attributes |-> AttributesAfter(h, ctx)]]
     /\ UNCHANGED <<machineVars, circulating, escrow, moved, inputs>>

RouterInit ==
  /\ ledger = EmptyLedger
  /\ manifest = BuiltIn
  /\ ram = 0 /\ attributes = Absent /\ lastBlock = Absent
  /\ result = [kind |-> "none", out |-> << >>, from |-> Owner, deposit |-> FALSE, mint |-> 0,
               fork |-> Absent]
  /\ circulating = 0
  /\ escrow = [app |-> [t \in Token |-> 0], bridge |-> [t \in Token |-> 0]]
  /\ moved = FALSE
  /\ inputs = 0

(* A transaction's nonce is the sender's, or not. *)
RouterNext ==
  \/ \E i \in Inputs : AdvanceOpaque(i) \/ AdvanceRefused(i) \/ AdvanceDeposit(i)
  \/ \E tx \in Inputs : /\ ParseInput(tx) = "signed"
                       /\ \E ahead \in 0..1 : AdvanceSigned(tx, AccountOf(ledger, tx.from).nonce + ahead)
  \/ \E tx \in Inputs : ParseInput(tx) = "signed" /\ tx.to # Absent /\ InspectSimulate(tx)

-----------------------------------------------------------------------------
(* Router.inspect, EvmCall: a query [to, fn, arg] is answered or reverts.   *)

Answer(v) == [kind |-> "return", value |-> v]

Refusal == [kind |-> "revert"]

ConfigView(l, q) ==
  CASE q.fn = "fee" -> Answer(l.mem.word.fee)
    [] q.fn = "owner" -> Answer(Owner)
    [] OTHER -> Refusal

Erc20View(l, q) ==
  LET id == l.mem.facade[CHOOSE t \in FacadeAt(l, q.to) : TRUE] IN
  CASE q.fn = "balanceOf" -> IF q.arg = Zero THEN Refusal ELSE Answer(l.mem.sparse[q.arg, id])
    [] q.fn = "totalSupply" -> Answer(l.mem.total[id])
    [] q.fn \in {"name", "symbol", "decimals"} -> Answer(l.mem.metadata[id])
    [] OTHER -> Refusal

MessengerView(l, q) ==
  CASE q.fn = "messageNonce" -> Answer(l.mem.word.msgNonce)
    [] q.fn = "successfulMessages" -> Answer(l.mem.message[q.arg] = "successful")
    [] q.fn = "failedMessages" -> Answer(l.mem.message[q.arg] = "failed")
    [] OTHER -> Refusal

(* A lookup outside any block: no deposit, no application contract. *)
LookupAt(l, a) == Resolve(l, [from |-> Absent, to |-> a, deposit |-> FALSE, app |-> Absent])

RegistryView(l, q) ==
  CASE q.fn = "handlerAt" ->
         LET h == LookupAt(l, q.arg) IN
         Answer([found |-> h # "none", payable |-> h # "none" /\ Payable(h)])
    [] q.fn = "handlers" ->
         Answer(manifest \cup {l2TokenAddress[l.tokens[i]] : i \in DOMAIN l.tokens})
    [] q.fn = "l2TokenOf" -> Answer(l2TokenAddress[q.arg])
    [] OTHER -> Refusal

L1BlockView(q) == IF q.fn = "" \/ attributes = Absent THEN Refusal ELSE Answer(attributes)

(* Of the built-in handlers five have views; an address nothing is routed   *)
(* at answers with nothing.                                                 *)
InspectCall(l, q) ==
  LET h == LookupAt(l, q.to) IN
  CASE h = "none" -> Answer(<< >>)
    [] h = "config" -> ConfigView(l, q)
    [] h = "erc20" -> Erc20View(l, q)
    [] h = "messenger" -> MessengerView(l, q)
    [] h = "registry" -> RegistryView(l, q)
    [] h = "l1block" -> L1BlockView(q)
    [] OTHER -> Refusal

-----------------------------------------------------------------------------
(* Properties.                                                             *)

Holdings(l, id) == MapThenSumSet(LAMBDA a : l.mem.sparse[a, id], Address)

(* The ether the guest's accounts hold is what deposits minted less what    *)
(* withdrawals burnt and fees took (router.ts execute, bridge.ts:35,        *)
(* passer.ts:31): no path through a revert, a failed relay or a rejected    *)
(* charge creates or loses any.                                             *)
EtherConserved ==
  MapThenSumSet(LAMBDA a : AccountOf(ledger, a).balance, Address) = circulating

(* A token's balances add up to what came in for it less what went out, so  *)
(* no relay is credited twice and no failed transfer leaves half of itself; *)
(* and as long as no portal is registered again under another kind, what    *)
(* leaves by voucher came through a portal and what leaves by message came  *)
(* through the standard bridge (config.ts:68).                              *)
TokensAreBacked ==
  /\ \A i \in 1..Len(ledger.tokens) :
       Holdings(ledger, i) = escrow.app[ledger.tokens[i]] + escrow.bridge[ledger.tokens[i]]
  /\ moved \/ \A t \in Token : escrow.app[t] >= 0 /\ escrow.bridge[t] >= 0

(* Between inputs the journal is empty, and the registry cache and the      *)
(* facades, which the journal does not cover, agree with the drive bytes    *)
(* (ledger.ts:174).                                                         *)
CachesMatchDrive ==
  /\ ledger.journal = << >>
  /\ ledger.tokens = ledger.mem.word.registry
  /\ ledger.mem.facade = FacadesOf(ledger.mem.word.registry)

(* Whoever recorded value also holds it: the messenger the value of every   *)
(* message recorded as failed, so each can still be replayed                *)
(* (ledger.ts:374), and a contract what it booked in memory that the        *)
(* journal cannot undo, which is what Fail is for (contract.ts:52).         *)
RecordedValueIsHeld ==
  LET failed == {m \in Message : ledger.mem.message[m] = "failed"}
  IN /\ AccountOf(ledger, "messenger").balance >= MapThenSumSet(LAMBDA m : m.value, failed)
     /\ ram <= AccountOf(ledger, "contract").balance

(* What a call reports is what a transaction then meets, though the two run *)
(* different code: the supply, kept in RAM beside the drive (ledger.ts:131), *)
(* is what balanceOf adds up to; the registry lists the addresses where a   *)
(* transaction finds a handler, and value sent to one reported as not       *)
(* payable comes back; a message reported as failed, and no other, can be   *)
(* replayed by anyone (registry.ts:16, erc20.ts:55, messenger.ts:141).      *)
CallsForetell ==
  LET call(to, fn, arg) == InspectCall(ledger, [to |-> to, fn |-> fn, arg |-> arg]).value
      sent(to, value, c) ==
        HandlerOutcome(ledger, [from |-> Owner, to |-> to, value |-> value, call |-> c,
                                deposit |-> FALSE, app |-> "app"])
      replay(m) == [fn |-> "relayMessage", message |-> m]
  IN /\ \A t \in Range(ledger.tokens) :
          call(l2TokenAddress[t], "totalSupply", Absent) =
            MapThenSumSet(LAMBDA a : call(l2TokenAddress[t], "balanceOf", a), Address \ {Zero})
     /\ call("registry", "handlers", Absent) =
          {a \in Address : call("registry", "handlerAt", a).found}
     /\ \A a \in call("registry", "handlers", Absent) :
          ~call("registry", "handlerAt", a).payable => sent(a, 1, [fn |-> ""]).kind = "revert"
     /\ \A m \in Message :
          call("messenger", "failedMessages", m)
            <=> sent("messenger", 0, replay(m)).kind = "accept"

(* A rejected input leaves the guest exactly as it was, its ledger by the   *)
(* router's own rollback; so does a simulation its ledger, journal and      *)
(* caches, on the fork it ran on, whether or not the fork is dropped        *)
(* (router.ts:467, ledger.ts:174).                                          *)
NoTraceLeft ==
  [][/\ result'.kind = "reject" => UNCHANGED machineVars
     /\ result'.kind = "simulated" => result'.fork.ledger = ledger
     /\ result'.kind = "opaque" => UNCHANGED <<ledger, ram, attributes>>]_vars

(* A reverted input leaves only the nonce and the fee of its signer, or the *)
(* mint of its deposit (router.ts:277, router.ts:403).                      *)
RevertKeepsOnlyTheCharge ==
  [][result'.kind = "revert" =>
       LET a      == result'.from
           before == AccountOf(ledger, a)
           after  == IF result'.deposit
                     THEN [before EXCEPT !.balance = @ + result'.mint]
                     ELSE [nonce |-> before.nonce + 1, balance |-> before.balance - ledger.mem.word.fee]
       IN /\ AccountOf(ledger', a) = after
          /\ ledger'.mem = [ledger.mem EXCEPT !.account[a] = ledger'.mem.account[a]]]_vars

=============================================================================
