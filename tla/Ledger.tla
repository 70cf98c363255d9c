------------------------------- MODULE Ledger -------------------------------
(***************************************************************************)
(* The guest's ledger (app/src/ledger.ts) over the accounts drive          *)
(* (accounts-drive/js/src/drive.ts).                                       *)
(*                                                                         *)
(* A ledger is a record                                                    *)
(*   mem      the cells a journal entry can restore: the drive's account   *)
(*            and sparse token records, its token registry, and the maps   *)
(*            and words the Ledger object keeps in RAM;                    *)
(*   tokens   the Drive object's cache of the registry, which the journal  *)
(*            does not cover;                                              *)
(*   journal  the undo entries, oldest first, each a cell and the value it *)
(*            had before.                                                  *)
(* An operation returns the ledger it leaves and the error it threw        *)
(* ("none" when it returned).  A ledger that threw keeps what was written  *)
(* before the throw: undoing it is the caller's business.                  *)
(*                                                                         *)
(* The drive is a map with a limit on its live records; that the           *)
(* robin-hood table implements that map is the subject of AccountsTable.   *)
(***************************************************************************)
EXTENDS Integers, Sequences, FiniteSets, FiniteSetsExt

CONSTANTS Address,           \* every address that may hold ether or tokens
          Zero,              \* the zero address, which the drive refuses
          Token,             \* L1 token addresses
          Portal,            \* aliased addresses of L1 portals
          Message,           \* cross-domain messages, standing for their hashes
          MaxUint,           \* the largest balance a record holds (2^256 - 1)
          LoadLimit,         \* account records the drive accepts
          SparseLimit,       \* token balance records the drive accepts
          RegistryCapacity,  \* tokens the drive accepts
          Absent             \* no value in a map

ASSUME LedgerAssumption ==
  /\ Zero \in Address
  /\ Absent \notin Address
  /\ MaxUint \in Nat /\ LoadLimit \in Nat /\ SparseLimit \in Nat
  /\ RegistryCapacity \in Nat

TokenId == 1..RegistryCapacity

(***************************************************************************)
(* Ledger.create: a formatted drive and empty maps, the format not         *)
(* undoable.                                                               *)
(***************************************************************************)
EmptyLedger ==
  [mem     |-> [account  |-> [a \in Address |-> Absent],
                sparse   |-> [x \in Address \X TokenId |-> 0],
                total    |-> [i \in TokenId |-> 0],
                metadata |-> [i \in TokenId |-> FALSE],
                portal   |-> [p \in Portal |-> Absent],
                facade   |-> [t \in Token |-> Absent],
                message  |-> [m \in Message |-> Absent],
                word     |-> [registry |-> << >>, fee |-> 0,
                              crossDomain |-> FALSE, msgNonce |-> 0]],
   tokens  |-> << >>,
   journal |-> << >>]

Done(l) == [l |-> l, error |-> "none"]

Throw(l, e) == [l |-> l, error |-> e]

(* The next statement runs only if the one before it did not throw. *)
Then(r, F(_)) == IF r.error = "none" THEN F(r.l) ELSE r

-----------------------------------------------------------------------------
(* The journal.                                                            *)

(* JournaledStore.writeAt, and the note every RAM setter takes. *)
Put(l, field, key, v) ==
  [l EXCEPT !.mem[field][key] = v,
            !.journal = Append(@, [field  |-> field, key |-> key,
                                   before |-> l.mem[field][key]])]

Mark(l) == Len(l.journal)

(* Wrong: oldest first. *)
RollbackToOldestFirst(l, mark) ==
  LET undone[i \in mark..Len(l.journal)] ==
        IF i = mark THEN l.mem
                    ELSE [undone[i - 1] EXCEPT ![l.journal[i].field][l.journal[i].key] = l.journal[i].before]
  IN [l EXCEPT !.mem = undone[Len(l.journal)], !.journal = SubSeq(@, 1, mark)]

(* Journal.rollbackTo: entries are undone newest first, back to the mark. *)
RollbackTo(l, mark) ==
  LET n == Len(l.journal)
      undone[i \in mark..n] ==
        IF i = n THEN l.mem
                 ELSE LET e == l.journal[i + 1] IN
                      [undone[i + 1] EXCEPT ![e.field][e.key] = e.before]
  IN [l EXCEPT !.mem = undone[mark], !.journal = SubSeq(@, 1, mark)]

CommitJournal(l) == [l EXCEPT !.journal = << >>]

FacadesOf(registry) ==
  [t \in Token |-> IF \E i \in 1..Len(registry) : registry[i] = t
                   THEN CHOOSE i \in 1..Len(registry) : registry[i] = t
                   ELSE Absent]

(* Wrong: the registry cache is not reloaded. *)
AfterRollbackFacadesOnly(l) == [l EXCEPT !.mem.facade = FacadesOf(l.mem.word.registry)]

(* Ledger.afterRollback: what the journal cannot restore is read again. *)
AfterRollback(l) ==
  [l EXCEPT !.tokens     = l.mem.word.registry,
            !.mem.facade = FacadesOf(l.mem.word.registry)]

Undo(l, mark) == AfterRollback(RollbackTo(l, mark))

-----------------------------------------------------------------------------
(* Ether.                                                                  *)

AccountOf(l, a) == IF l.mem.account[a] = Absent THEN [nonce |-> 0, balance |-> 0]
                                                ELSE l.mem.account[a]

LiveAccounts(l) == {a \in Address : l.mem.account[a] # Absent}

SetAccount(l, a, nonce, balance) ==
  CASE a = Zero -> Throw(l, "zeroAddress")
    [] a # Zero /\ balance > MaxUint -> Throw(l, "overflow")
    [] /\ a # Zero /\ balance <= MaxUint
       /\ a \notin LiveAccounts(l) /\ Cardinality(LiveAccounts(l)) >= LoadLimit ->
         Throw(l, "tableFull")
    [] OTHER -> Done(Put(l, "account", a, [nonce |-> nonce, balance |-> balance]))

CreditEther(l, a, amount) ==
  IF amount = 0 THEN Done(l)
  ELSE SetAccount(l, a, AccountOf(l, a).nonce, AccountOf(l, a).balance + amount)

DebitEther(l, a, amount) ==
  CASE amount = 0 -> Done(l)
    [] amount > 0 /\ a = Zero -> Throw(l, "zeroAddress")
    [] amount > 0 /\ a # Zero /\ AccountOf(l, a).balance < amount -> Throw(l, "insufficient")
    [] OTHER -> SetAccount(l, a, AccountOf(l, a).nonce, AccountOf(l, a).balance - amount)

BumpNonceAndCharge(l, a, fee) ==
  IF AccountOf(l, a).balance < fee THEN Throw(l, "insufficient")
  ELSE SetAccount(l, a, AccountOf(l, a).nonce + 1, AccountOf(l, a).balance - fee)

-----------------------------------------------------------------------------
(* Tokens.  Ids are positions in the registry, counted from one.           *)

SparseRecords(l) == {x \in Address \X TokenId : l.mem.sparse[x] # 0}

(* drive.setTokenBalance, sparse profile: a zero balance has no record. *)
SetTokenBalance(l, a, id, v) ==
  CASE a = Zero -> Throw(l, "zeroAddress")
    [] a # Zero /\ id \notin 1..Len(l.tokens) -> Throw(l, "unknownToken")
    [] a # Zero /\ id \in 1..Len(l.tokens) /\ v > MaxUint -> Throw(l, "overflow")
    [] OTHER ->
       IF v # 0 /\ l.mem.sparse[a, id] = 0 /\ Cardinality(SparseRecords(l)) >= SparseLimit
       THEN Throw(l, "tableFull")
       ELSE Done(Put(l, "sparse", <<a, id>>, v))

(* Wrong: the journal takes no note. *)
AddTotalUnnoted(l, id, delta) == [l EXCEPT !.mem.total[id] = @ + delta]

AddTotal(l, id, delta) == Put(l, "total", id, l.mem.total[id] + delta)

CreditToken(l, a, id, amount) ==
  IF amount = 0 THEN Done(l)
  ELSE Then(SetTokenBalance(l, a, id, l.mem.sparse[a, id] + amount),
            LAMBDA x : Done(AddTotal(x, id, amount)))

DebitToken(l, a, id, amount) ==
  CASE amount = 0 -> Done(l)
    [] amount > 0 /\ a = Zero -> Throw(l, "zeroAddress")
    [] amount > 0 /\ a # Zero /\ l.mem.sparse[a, id] < amount -> Throw(l, "insufficient")
    [] OTHER -> Then(SetTokenBalance(l, a, id, l.mem.sparse[a, id] - amount),
                     LAMBDA x : Done(AddTotal(x, id, -amount)))

TokenByL1Address(l, t) == {i \in 1..Len(l.tokens) : l.tokens[i] = t}

(* The RAM setters: each notes what it replaces. *)
SetMetadata(l, id) == Put(l, "metadata", id, TRUE)

RegisterPortal(l, portal, kind) == Put(l, "portal", portal, kind)

SetFee(l, fee) == Put(l, "word", "fee", fee)

RegisterCrossDomain(l) == Put(l, "word", "crossDomain", TRUE)

NextMessageNonce(l) == Put(l, "word", "msgNonce", l.mem.word.msgNonce + 1)

SetMessageStatus(l, m, status) == Put(l, "message", m, status)

(* Ledger.registerToken over drive.registerToken: the record and the count  *)
(* in the drive, the Drive object's cache, the facade, and the metadata.    *)
RegisterToken(l, t, withMetadata) ==
  LET n       == Len(l.tokens)
      written == Put(l, "word", "registry", Append(SubSeq(l.mem.word.registry, 1, n), t))
      cached  == [written EXCEPT !.tokens = Append(@, t)]
      faced   == Put(cached, "facade", t, n + 1)
  IN CASE TokenByL1Address(l, t) # {} -> Throw(l, "duplicateToken")
       [] TokenByL1Address(l, t) = {} /\ n >= RegistryCapacity -> Throw(l, "registryFull")
       [] OTHER -> Done(IF withMetadata THEN SetMetadata(faced, n + 1) ELSE faced)

(* The bytes of the accounts drive, as far as they are not RAM. *)
DriveOf(l) ==
  [account |-> l.mem.account, sparse |-> l.mem.sparse, registry |-> l.mem.word.registry]

HasErc20Portal(l) == \E p \in Portal : l.mem.portal[p] = "erc20"
=============================================================================
