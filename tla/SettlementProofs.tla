-------------------------- MODULE SettlementProofs --------------------------
(***************************************************************************)
(* What L1 does with the chain's proposals, for every set of emissions,    *)
(* every delay, and any number of blocks, games and wrong claims.  A block *)
(* at or below the safe one never changes, so an honest claim stays the    *)
(* claim of the chain's own block; only honest claims are ever accepted or *)
(* won; and what is opened or paid is therefore of the safe chain.         *)
(***************************************************************************)
EXTENDS Settlement, TLAPS

Output == [kind : Kind, nonce : Seq(Nat)]
Outputs == Seq(Output)
ClaimPreimage ==
  [stateRoot : Seq(Outputs),
   messagePasserStorageRoot : [sent : SUBSET Output, outputsRoot : Outputs]]
DisputeGame ==
  [gameType : {"ours", "other"}, l2BlockNumber : Nat, rootClaim : ClaimPreimage,
   honest : BOOLEAN, status : {IN_PROGRESS, CHALLENGER_WINS, DEFENDER_WINS}, age : Nat]

(* The types of the state. *)
TypeOK ==
  /\ chain \in Seq(Outputs)
  /\ base \in 0..Len(chain) /\ safe \in 0..Len(chain)
  /\ strict \in BOOLEAN
  /\ games \in Seq(DisputeGame)
  /\ last \in [l2Block : Nat, machineRoot : Seq(Outputs)]
  /\ executed \subseteq Nat
  /\ opened \subseteq Nat \X Output

(* s is how t begins. *)
Begins(s, t) == Len(s) <= Len(t) /\ \A i \in 1..Len(s) : t[i] = s[i]

(* The outputs through a block begin those through any later one. *)
OutputsGrow ==
  \A m, n \in 0..Len(chain) : m <= n => Begins(OutputsThrough(chain, m), OutputsThrough(chain, n))

(* An honest game is of a safe block of the chain; a wrong one is never won, *)
(* and is of the chain's type only where games have to be won.               *)
GamesAreTrue ==
  \A g \in DOMAIN games :
    /\ games[g].honest =>
         /\ games[g].l2BlockNumber \in 1..safe
         /\ games[g].rootClaim = Claim(SubSeq(chain, 1, games[g].l2BlockNumber))
    /\ ~games[g].honest =>
         /\ games[g].status # DEFENDER_WINS
         /\ games[g].gameType = "ours" => strict

(* What was accepted is of the safe chain, at or below the last. *)
AcceptedIsSafe ==
  /\ \A r \in DOMAIN accepted : /\ accepted[r] \in 1..last.l2Block
                                /\ r = OutputsThrough(chain, accepted[r])
  /\ last.l2Block \in 0..safe
  /\ last.machineRoot = SubSeq(chain, 1, last.l2Block)

(* What was executed is an output of the safe chain. *)
OpenedIsSafe ==
  \A x \in opened :
    /\ x[1] \in executed
    /\ x[1] < Len(OutputsThrough(chain, safe))
    /\ OutputsThrough(chain, safe)[x[1] + 1] = x[2]

(* Each payment was made once: by the executor for a voucher it opened, or *)
(* by the portal for a withdrawal.                                         *)
PaidForReason ==
  \A e \in DOMAIN paid :
    /\ paid[e] = 1
    /\ \/ \E x \in opened : e = <<"executor", x[1]>> /\ x[2].kind = "voucher"
       \/ e = <<"portal", e[2]>> /\ e[2].kind = "withdrawal"

IInv ==
  /\ TypeOK
  /\ OutputsGrow
  /\ GamesAreTrue
  /\ AcceptedIsSafe
  /\ OpenedIsSafe
  /\ PaidForReason
-----------------------------------------------------------------------------
(* Blocks and claims. *)

(* What a block emits is a list of outputs. *)
LEMMA EmitType ==
  ASSUME NEW kinds \in Emissions, NEW n \in Nat
  PROVE  Emit(kinds, n) \in Outputs
<1>1. kinds \in Seq(Kind)  BY EmissionsAssumption
<1>2. DOMAIN kinds = 1..Len(kinds) /\ Len(kinds) \in Nat  BY <1>1
<1>3. \A i \in 1..Len(kinds) : kinds[i] \in Kind /\ i \in Nat  BY <1>1
<1>4. << >> \in Seq(Nat) /\ \A i \in Nat : <<n, i>> \in Seq(Nat)  OBVIOUS
<1>5. \A i \in 1..Len(kinds) :
        [kind |-> kinds[i], nonce |-> IF kinds[i] = "withdrawal" THEN <<n, i>> ELSE << >>] \in Output
  <2> SUFFICES ASSUME NEW i \in 1..Len(kinds),
                      NEW x, x = IF kinds[i] = "withdrawal" THEN <<n, i>> ELSE << >>
               PROVE  [kind |-> kinds[i], nonce |-> x] \in Output
    OBVIOUS
  <2>1. x \in Seq(Nat)  BY <1>3, <1>4
  <2> QED  BY <2>1, <1>3 DEF Output
<1>6. Emit(kinds, n) \in [1..Len(kinds) -> Output]  BY <1>2, <1>5 DEF Emit
<1> QED  BY <1>2, <1>6 DEF Outputs

(* The outputs through a block of a chain are a list of outputs. *)
LEMMA ThroughType ==
  ASSUME NEW c \in Seq(Outputs), NEW n \in 0..Len(c)
  PROVE  OutputsThrough(c, n) \in Outputs
<1>1. << >> \in Outputs  BY DEF Outputs
<1>2. n # 0 => c[n] \in Outputs
  <2> HIDE DEF Outputs
  <2> QED  OBVIOUS
<1> QED  BY <1>1, <1>2 DEF OutputsThrough

(* A block on block n leaves the chain to n as it was. *)
LEMMA ExtendedChain ==
  ASSUME chain \in Seq(Outputs), NEW n \in 0..Len(chain), NEW kinds \in Emissions,
         NEW c, c = Extended(n, kinds)
  PROVE  /\ c \in Seq(Outputs) /\ Len(c) = n + 1
         /\ \A k \in 0..n : OutputsThrough(c, k) = OutputsThrough(chain, k)
                            /\ SubSeq(c, 1, k) = SubSeq(chain, 1, k)
         /\ OutputsThrough(c, n + 1) = OutputsThrough(chain, n) \o Emit(kinds, n + 1)
<1> DEFINE new == OutputsThrough(chain, n) \o Emit(kinds, n + 1)
<1>1. new \in Outputs
  <2>1. Emit(kinds, n + 1) \in Outputs  BY EmitType
  <2>2. OutputsThrough(chain, n) \in Outputs  BY ThroughType
  <2> QED  BY <2>1, <2>2 DEF Outputs
<1>2. c = Append(SubSeq(chain, 1, n), new)  BY DEF Extended
<1> HIDE DEF new, Outputs
<1>3. SubSeq(chain, 1, n) \in Seq(Outputs) /\ Len(SubSeq(chain, 1, n)) = n
      /\ \A k \in 1..n : SubSeq(chain, 1, n)[k] = chain[k]
  OBVIOUS
<1>4. c \in Seq(Outputs) /\ Len(c) = n + 1 /\ c[n + 1] = new /\ \A k \in 1..n : c[k] = chain[k]
  BY <1>1, <1>2, <1>3
<1>5. \A k \in 0..n : OutputsThrough(c, k) = OutputsThrough(chain, k)
  BY <1>4 DEF OutputsThrough
<1>6. ASSUME NEW k \in 0..n  PROVE SubSeq(c, 1, k) = SubSeq(chain, 1, k)
  <2>1. SubSeq(c, 1, k) = [i \in 1..k |-> c[i]]  BY <1>4
  <2>2. SubSeq(chain, 1, k) = [i \in 1..k |-> chain[i]]  OBVIOUS
  <2> QED  BY <2>1, <2>2, <1>4
<1>7. OutputsThrough(c, n + 1) = new  BY <1>4 DEF OutputsThrough
<1> QED  BY <1>4, <1>5, <1>6, <1>7 DEF new

(* A claim has the type of one. *)
LEMMA ClaimType ==
  ASSUME NEW c \in Seq(Outputs)
  PROVE  Claim(c) \in ClaimPreimage
<1> DEFINE outputs == OutputsThrough(c, Len(c))
<1>1. outputs \in Outputs  BY ThroughType
<1>2. Withdrawals(outputs) \in SUBSET Output  BY <1>1 DEF Withdrawals, Outputs
<1>3. Claim(c) = [stateRoot |-> c,
                  messagePasserStorageRoot |-> [sent |-> Withdrawals(outputs), outputsRoot |-> outputs]]
  BY DEF Claim
<1> HIDE DEF outputs, Outputs
<1> QED  BY <1>1, <1>2, <1>3 DEF ClaimPreimage

(* What the claim of the chain's own block n opens to. *)
LEMMA ClaimOpens ==
  ASSUME chain \in Seq(Outputs), NEW n \in 1..Len(chain), NEW p, p = Claim(SubSeq(chain, 1, n))
  PROVE  /\ p.stateRoot = SubSeq(chain, 1, n)
         /\ p.messagePasserStorageRoot.outputsRoot = OutputsThrough(chain, n)
         /\ \A w \in p.messagePasserStorageRoot.sent : w.kind = "withdrawal"
<1>1. Len(SubSeq(chain, 1, n)) = n /\ SubSeq(chain, 1, n)[n] = chain[n]  OBVIOUS
<1>2. OutputsThrough(SubSeq(chain, 1, n), n) = OutputsThrough(chain, n)
  BY <1>1 DEF OutputsThrough
<1> DEFINE c == SubSeq(chain, 1, n)  outputs == OutputsThrough(chain, n)
<1>3. p = [stateRoot |-> c,
           messagePasserStorageRoot |-> [sent |-> Withdrawals(outputs), outputsRoot |-> outputs]]
  BY <1>1, <1>2 DEF Claim
<1>4. \A w \in Withdrawals(outputs) : w.kind = "withdrawal"  BY DEF Withdrawals
<1> HIDE DEF c, outputs
<1>5. /\ p.stateRoot = c /\ p.messagePasserStorageRoot.outputsRoot = outputs
      /\ p.messagePasserStorageRoot.sent = Withdrawals(outputs)
  BY <1>3
<1> QED  BY <1>4, <1>5 DEF c, outputs

(* Beginning is transitive, and a list begins what it is extended to. *)
LEMMA BeginsChains ==
  ASSUME NEW r \in Outputs, NEW s \in Outputs, NEW t \in Outputs
  PROVE  /\ Begins(s, s) /\ Begins(s, s \o t)
         /\ Begins(r, s) /\ Begins(s, t) => Begins(r, t)
<1> USE DEF Outputs
<1>1. Begins(s, s)  BY DEF Begins
<1>2. Begins(s, s \o t)  BY DEF Begins
<1>3. Begins(r, s) /\ Begins(s, t) => Begins(r, t)  BY DEF Begins
<1> QED  BY <1>1, <1>2, <1>3
-----------------------------------------------------------------------------
(* The node. *)

(* Whatever leaves the chain to the safe block alone leaves the claims, the  *)
(* accepted roots and the opened outputs those of the chain.                 *)
LEMMA SafeChainKept ==
  ASSUME IInv, UNCHANGED <<safe, strict, l1Vars>>,
         \A k \in 0..safe : OutputsThrough(chain', k) = OutputsThrough(chain, k)
                            /\ SubSeq(chain', 1, k) = SubSeq(chain, 1, k)
  PROVE  GamesAreTrue' /\ AcceptedIsSafe' /\ OpenedIsSafe' /\ PaidForReason'
<1>1. UNCHANGED <<games, accepted, last, executed, opened, paid>>  BY DEF l1Vars
<1>2. safe \in Nat /\ last.l2Block \in 0..safe  BY DEF IInv, TypeOK, AcceptedIsSafe
<1>3. GamesAreTrue'
  <2>1. SUFFICES ASSUME NEW g \in DOMAIN games, games[g].honest
                 PROVE  games[g].rootClaim = Claim(SubSeq(chain', 1, games[g].l2BlockNumber))
    BY <1>1 DEF IInv, GamesAreTrue
  <2>2. games[g].l2BlockNumber \in 0..safe  BY <2>1, <1>2 DEF IInv, GamesAreTrue
  <2>3. games[g].rootClaim = Claim(SubSeq(chain, 1, games[g].l2BlockNumber))
    BY <2>1 DEF IInv, GamesAreTrue
  <2> QED  BY <2>2, <2>3
<1>4. AcceptedIsSafe'
  <2>1. \A r \in DOMAIN accepted : accepted[r] \in 1..last.l2Block /\ accepted[r] \in 0..safe
    BY <1>2 DEF IInv, AcceptedIsSafe
  <2> QED  BY <2>1, <1>1, <1>2 DEF IInv, AcceptedIsSafe
<1>5. OpenedIsSafe'
  <2>1. OutputsThrough(chain', safe) = OutputsThrough(chain, safe)  BY <1>2
  <2> QED  BY <2>1, <1>1 DEF IInv, OpenedIsSafe
<1>6. PaidForReason'  BY <1>1 DEF IInv, PaidForReason
<1> QED  BY <1>3, <1>4, <1>5, <1>6

(* A block on another block at or above the safe one: a reorg above it. *)
LEMMA AddBlockPreserves ==
  ASSUME IInv, NEW parent \in 0..Len(chain), NEW kinds \in Emissions, AddBlock(parent, kinds)
  PROVE  IInv'
<1>1. /\ parent \in base..Len(chain) /\ parent >= safe /\ chain' = Extended(parent, kinds)
      /\ UNCHANGED <<base, safe, strict, l1Vars>>
      /\ UNCHANGED <<games, accepted, last, executed, opened, paid>>
  BY DEF AddBlock, l1Vars
<1>2. chain \in Seq(Outputs) /\ base \in 0..Len(chain) /\ safe \in 0..Len(chain)  BY DEF IInv, TypeOK
<1>3. /\ chain' \in Seq(Outputs) /\ Len(chain') = parent + 1
      /\ \A k \in 0..parent : OutputsThrough(chain', k) = OutputsThrough(chain, k)
                              /\ SubSeq(chain', 1, k) = SubSeq(chain, 1, k)
      /\ OutputsThrough(chain', parent + 1) = OutputsThrough(chain, parent) \o Emit(kinds, parent + 1)
  <2>1. parent \in 0..Len(chain)  BY <1>1, <1>2
  <2>2. chain \in Seq(Outputs) /\ chain' = Extended(parent, kinds)  BY <1>1, <1>2
  <2> QED  BY <2>1, <2>2, ExtendedChain
<1>4. Len(chain) \in Nat  BY <1>2
<1>5. TypeOK'
  <2>1. base \in 0..Len(chain') /\ safe \in 0..Len(chain')  BY <1>1, <1>2, <1>3, <1>4
  <2> QED  BY <2>1, <1>1, <1>3 DEF IInv, TypeOK
<1>6. OutputsGrow'
  <2>1. SUFFICES ASSUME NEW m \in 0..Len(chain'), NEW n \in 0..Len(chain'), m <= n
                 PROVE  Begins(OutputsThrough(chain', m), OutputsThrough(chain', n))
    BY DEF OutputsGrow
  <2>2. OutputsThrough(chain', m) \in Outputs /\ OutputsThrough(chain', n) \in Outputs
    BY <1>3, ThroughType
  <2>3. CASE n <= parent
    <3>1. m \in 0..parent /\ n \in 0..parent /\ m \in 0..Len(chain) /\ n \in 0..Len(chain)
      BY <2>1, <2>3, <1>3, <1>4
    <3> QED  BY <3>1, <2>1, <1>3 DEF IInv, OutputsGrow
  <2>4. CASE n = m  BY <2>2, <2>4, BeginsChains
  <2>5. CASE n > parent /\ n # m
    <3>1. n = parent + 1 /\ m \in 0..parent /\ m \in 0..Len(chain) /\ parent \in Nat
      BY <2>1, <2>5, <1>3, <1>4
    <3>2. Begins(OutputsThrough(chain, m), OutputsThrough(chain, parent))
      BY <3>1 DEF IInv, OutputsGrow
    <3>3. OutputsThrough(chain, parent) \in Outputs /\ Emit(kinds, parent + 1) \in Outputs
      BY <3>1, <1>2, ThroughType, EmitType
    <3>4. Begins(OutputsThrough(chain, parent), OutputsThrough(chain', n))
      <4>1. \A s, t \in Outputs : Begins(s, s \o t)  BY BeginsChains
      <4>2. OutputsThrough(chain', n) = OutputsThrough(chain, parent) \o Emit(kinds, parent + 1)
        BY <3>1, <1>3
      <4> QED  BY <4>1, <4>2, <3>3
    <3>5. OutputsThrough(chain', m) = OutputsThrough(chain, m)  BY <3>1, <1>3
    <3> QED  BY <3>2, <3>3, <3>4, <3>5, <2>2, BeginsChains
  <2> QED  BY <2>3, <2>4, <2>5, <1>3, <1>4
<1>7. \A k \in 0..safe : k \in 0..parent  BY <1>1, <1>2, <1>4
<1> QED  BY <1>1, <1>3, <1>5, <1>6, <1>7, SafeChainKept DEF IInv

(* The safe block moves up: what was opened stays where it is. *)
LEMMA AdvanceSafePreserves ==
  ASSUME IInv, AdvanceSafe
  PROVE  IInv'
<1>1. /\ safe < Len(chain) /\ safe' = safe + 1
      /\ UNCHANGED <<chain, base, strict>>
      /\ UNCHANGED <<games, accepted, last, executed, opened, paid>>
  BY DEF AdvanceSafe, l1Vars
<1>2. chain \in Seq(Outputs) /\ safe \in 0..Len(chain) /\ Len(chain) \in Nat /\ safe \in Nat
  BY DEF IInv, TypeOK
<1>3. safe' \in 0..Len(chain)  BY <1>1, <1>2
<1>4. TypeOK'  BY <1>1, <1>3 DEF IInv, TypeOK
<1>5. OutputsGrow' /\ PaidForReason'  BY <1>1 DEF IInv, OutputsGrow, PaidForReason
<1>6. \A k : k \in 1..safe => k \in 1..safe'  BY <1>1, <1>2
<1>7. GamesAreTrue'  BY <1>1, <1>6 DEF IInv, GamesAreTrue
<1>8. AcceptedIsSafe'
  <2>1. last.l2Block \in 0..safe'  BY <1>1, <1>2 DEF IInv, AcceptedIsSafe
  <2> QED  BY <2>1, <1>1 DEF IInv, AcceptedIsSafe
<1>9. OpenedIsSafe'
  <2>1. Begins(OutputsThrough(chain, safe), OutputsThrough(chain, safe'))
    BY <1>1, <1>2, <1>3 DEF IInv, OutputsGrow
  <2>2. OutputsThrough(chain, safe) \in Outputs /\ OutputsThrough(chain, safe') \in Outputs
    BY <1>2, <1>3, ThroughType
  <2> DEFINE old == OutputsThrough(chain, safe)  new == OutputsThrough(chain, safe')
  <2>3. Len(old) \in Nat /\ Len(new) \in Nat  BY <2>2 DEF Outputs
  <2> HIDE DEF old, new
  <2>4. ASSUME NEW x \in opened  PROVE x[1] \in executed /\ x[1] < Len(new) /\ new[x[1] + 1] = x[2]
    <3>1. x[1] \in executed /\ x[1] \in Nat /\ x[1] < Len(old) /\ old[x[1] + 1] = x[2]
      BY DEF IInv, TypeOK, OpenedIsSafe, old
    <3>2. x[1] + 1 \in 1..Len(old)  BY <3>1, <2>3
    <3>3. Begins(old, new)  BY <2>1 DEF old, new
    <3> QED  BY <3>1, <3>2, <3>3, <2>3 DEF Begins
  <2> QED  BY <2>4, <1>1 DEF OpenedIsSafe, new
<1> QED  BY <1>4, <1>5, <1>7, <1>8, <1>9 DEF IInv

(* A restart forgets blocks and changes none. *)
LEMMA RestartPreserves ==
  ASSUME IInv, NEW n \in 1..Len(chain), Restart(n)
  PROVE  IInv'
<1>1. base' = n /\ UNCHANGED <<chain, safe, strict, l1Vars>> /\ UNCHANGED <<games, accepted, last, executed, opened, paid>>
  BY DEF Restart, l1Vars
<1>2. base' \in 0..Len(chain)  BY <1>1
<1>3. TypeOK'  BY <1>1, <1>2 DEF IInv, TypeOK
<1>4. OutputsGrow'  BY <1>1 DEF IInv, OutputsGrow
<1> QED  BY <1>1, <1>3, <1>4, SafeChainKept DEF IInv
-----------------------------------------------------------------------------
(* L1. *)

(* A step on the games alone that keeps the games true. *)
LEMMA GamesOnly ==
  ASSUME IInv, UNCHANGED <<nodeVars, strict, accepted, last, executed, opened, paid>>,
         games' \in Seq(DisputeGame), GamesAreTrue'
  PROVE  IInv'
<1>1. UNCHANGED <<chain, base, safe>>  BY DEF nodeVars
<1>2. TypeOK'  BY <1>1 DEF IInv, TypeOK
<1>3. OutputsGrow' /\ AcceptedIsSafe' /\ OpenedIsSafe' /\ PaidForReason'
  BY <1>1 DEF IInv, OutputsGrow, AcceptedIsSafe, OpenedIsSafe, PaidForReason
<1> QED  BY <1>2, <1>3 DEF IInv

(* A new game is a game. *)
LEMMA GameType ==
  ASSUME NEW type \in {"ours", "other"}, NEW c \in Seq(Outputs), NEW honest \in BOOLEAN,
         NEW g, g = Game(type, c, honest)
  PROVE  /\ g \in DisputeGame
         /\ g.gameType = type /\ g.l2BlockNumber = Len(c) /\ g.rootClaim = Claim(c)
         /\ g.honest = honest /\ g.status = IN_PROGRESS
<1>1. Claim(c) \in ClaimPreimage  BY ClaimType
<1>2. Len(c) \in Nat  OBVIOUS
<1>3. g = [gameType |-> type, l2BlockNumber |-> Len(c), rootClaim |-> Claim(c),
           honest |-> honest, status |-> IN_PROGRESS, age |-> 0]
  BY DEF Game
<1>4. g \in DisputeGame  BY <1>1, <1>2, <1>3 DEF DisputeGame
<1>5. g.honest = honest
  <2>1. [gameType |-> type, l2BlockNumber |-> Len(c), rootClaim |-> Claim(c),
         honest |-> honest, status |-> IN_PROGRESS, age |-> 0].honest = honest
    BY Zenon
  <2> QED  BY <2>1, <1>3, Zenon
<1> QED  BY <1>3, <1>4, <1>5

(* A game is added to the others. *)
LEMMA GameAdded ==
  ASSUME IInv, NEW new \in DisputeGame, games' = Append(games, new), UNCHANGED <<nodeVars, strict>>,
         new.honest => /\ new.l2BlockNumber \in 1..safe
                       /\ new.rootClaim = Claim(SubSeq(chain, 1, new.l2BlockNumber)),
         ~new.honest => new.status # DEFENDER_WINS /\ (new.gameType = "ours" => strict)
  PROVE  games' \in Seq(DisputeGame) /\ GamesAreTrue'
<1>1. games \in Seq(DisputeGame)  BY DEF IInv, TypeOK
<1>2. UNCHANGED <<chain, safe>>  BY DEF nodeVars
<1> HIDE DEF DisputeGame
<1>3. /\ games' \in Seq(DisputeGame) /\ DOMAIN games = 1..Len(games) /\ Len(games) \in Nat
      /\ DOMAIN games' = 1..(Len(games) + 1)
      /\ games'[Len(games) + 1] = new /\ \A g \in 1..Len(games) : games'[g] = games[g]
  BY <1>1
<1>4. \A g \in DOMAIN games' : games'[g] = new \/ (g \in DOMAIN games /\ games'[g] = games[g])
  BY <1>3
<1>5. ASSUME NEW g \in DOMAIN games'
      PROVE  /\ games'[g].honest =>
                  /\ games'[g].l2BlockNumber \in 1..safe
                  /\ games'[g].rootClaim = Claim(SubSeq(chain, 1, games'[g].l2BlockNumber))
             /\ ~games'[g].honest =>
                  /\ games'[g].status # DEFENDER_WINS
                  /\ games'[g].gameType = "ours" => strict
  <2>1. CASE games'[g] = new  BY <2>1
  <2>2. CASE g \in DOMAIN games /\ games'[g] = games[g]  BY <2>2 DEF IInv, GamesAreTrue
  <2> QED  BY <1>4, <2>1, <2>2
<1> QED  BY <1>2, <1>3, <1>5 DEF GamesAreTrue

(* op-proposer claims a safe block as it is. *)
LEMMA ProposePreserves ==
  ASSUME IInv, NEW n \in 1..safe, Propose(n)
  PROVE  IInv'
<1> DEFINE c == SubSeq(chain, 1, n)  new == Game("ours", c, TRUE)
<1>1. /\ games' = Append(games, new)
      /\ UNCHANGED <<nodeVars, strict, accepted, last, executed, opened, paid>>
  BY DEF Propose
<1>2. chain \in Seq(Outputs) /\ safe \in 0..Len(chain)  BY DEF IInv, TypeOK
<1>3. c \in Seq(Outputs) /\ Len(c) = n
  <2> HIDE DEF Outputs
  <2> QED  BY <1>2
<1> HIDE DEF new
<1>4. /\ new \in DisputeGame /\ new.honest = TRUE /\ new.l2BlockNumber = n /\ new.rootClaim = Claim(c)
  <2> HIDE DEF c
  <2>1. Game("ours", c, TRUE).honest = TRUE  BY Zenon DEF Game
  <2>2. new.honest = TRUE  BY <2>1 DEF new
  <2> DEFINE ours == "ours"  yes == TRUE
  <2>3. ours \in {"ours", "other"} /\ yes \in BOOLEAN /\ new = Game(ours, c, yes)  BY DEF new
  <2> HIDE DEF ours, yes
  <2>4. new \in DisputeGame /\ new.l2BlockNumber = Len(c) /\ new.rootClaim = Claim(c)
    BY <2>3, <1>3, GameType
  <2> QED  BY <2>2, <2>4, <1>3
<1>5. games' \in Seq(DisputeGame) /\ GamesAreTrue'
  BY <1>1, <1>4, GameAdded
<1> QED  BY <1>1, <1>5, GamesOnly

(* Anybody claims something else: of another type, or where it will lose. *)
LEMMA ProposeWrongPreserves ==
  ASSUME IInv, NEW n \in 1..safe, NEW type \in {"ours", "other"}, NEW kinds \in Emissions,
         ProposeWrong(n, type, kinds)
  PROVE  IInv'
<1> DEFINE c == Extended(n - 1, kinds)  new == Game(type, c, FALSE)
<1>1. /\ games' = Append(games, new) /\ (type = "ours" => strict)
      /\ UNCHANGED <<nodeVars, strict, accepted, last, executed, opened, paid>>
  BY DEF ProposeWrong
<1>2. chain \in Seq(Outputs) /\ safe \in 0..Len(chain) /\ Len(chain) \in Nat  BY DEF IInv, TypeOK
<1>3. n - 1 \in 0..Len(chain)  BY <1>2
<1>4. c \in Seq(Outputs)  BY <1>2, <1>3, ExtendedChain
<1> HIDE DEF c, new
<1>5. /\ new \in DisputeGame /\ new.honest = FALSE /\ new.gameType = type /\ new.status = IN_PROGRESS
  BY <1>4, GameType DEF new
<1>6. IN_PROGRESS # DEFENDER_WINS  BY DEF IN_PROGRESS, DEFENDER_WINS
<1>7. games' \in Seq(DisputeGame) /\ GamesAreTrue'
  BY <1>1, <1>5, <1>6, GameAdded
<1> QED  BY <1>1, <1>7, GamesOnly

(* Games change their status or age and nothing else. *)
LEMMA GamesKept ==
  ASSUME IInv, UNCHANGED <<nodeVars, strict, accepted, last, executed, opened, paid>>,
         DOMAIN games' = DOMAIN games,
         \A g \in DOMAIN games :
           /\ games'[g] \in DisputeGame
           /\ games'[g].honest = games[g].honest
           /\ games'[g].gameType = games[g].gameType
           /\ games'[g].l2BlockNumber = games[g].l2BlockNumber
           /\ games'[g].rootClaim = games[g].rootClaim
           /\ ~games[g].honest => games'[g].status # DEFENDER_WINS,
         \E f : games' = [g \in DOMAIN games |-> f[g]]
  PROVE  IInv'
<1>1. UNCHANGED <<chain, safe>>  BY DEF nodeVars
<1>2. games' \in Seq(DisputeGame)
  <2>1. games \in Seq(DisputeGame)  BY DEF IInv, TypeOK
  <2> HIDE DEF DisputeGame
  <2>2. DOMAIN games = 1..Len(games) /\ Len(games) \in Nat  BY <2>1
  <2>3. games' \in [1..Len(games) -> DisputeGame]  BY <2>2
  <2> QED  BY <2>2, <2>3
<1>3. GamesAreTrue'
  <2>1. SUFFICES ASSUME NEW g \in DOMAIN games
                 PROVE  /\ games'[g].honest =>
                             /\ games'[g].l2BlockNumber \in 1..safe
                             /\ games'[g].rootClaim = Claim(SubSeq(chain, 1, games'[g].l2BlockNumber))
                        /\ ~games'[g].honest =>
                             /\ games'[g].status # DEFENDER_WINS
                             /\ games'[g].gameType = "ours" => strict
    BY <1>1 DEF GamesAreTrue
  <2> QED  BY DEF IInv, GamesAreTrue
<1> QED  BY <1>2, <1>3, GamesOnly

(* A game is decided for the true claim. *)
LEMMA ResolvePreserves ==
  ASSUME IInv, NEW g \in DOMAIN games, Resolve(g)
  PROVE  IInv'
<1> DEFINE st == IF games[g].honest THEN DEFENDER_WINS ELSE CHALLENGER_WINS
<1>1. /\ games' = [games EXCEPT ![g].status = st]
      /\ UNCHANGED <<nodeVars, strict, accepted, last, executed, opened, paid>>
  BY DEF Resolve
<1>2. \A h \in DOMAIN games : games[h] \in DisputeGame
  <2>1. games \in Seq(DisputeGame)  BY DEF IInv, TypeOK
  <2> HIDE DEF DisputeGame
  <2> QED  BY <2>1
<1>3. st \in {IN_PROGRESS, CHALLENGER_WINS, DEFENDER_WINS} /\ (~games[g].honest => st # DEFENDER_WINS)
  BY DEF CHALLENGER_WINS, DEFENDER_WINS
<1> HIDE DEF st
<1>4. games' = [h \in DOMAIN games |-> IF h = g THEN [games[g] EXCEPT !.status = st] ELSE games[h]]
  BY <1>1
<1>5. /\ [games[g] EXCEPT !.status = st] \in DisputeGame
      /\ [games[g] EXCEPT !.status = st].gameType = games[g].gameType
      /\ [games[g] EXCEPT !.status = st].l2BlockNumber = games[g].l2BlockNumber
      /\ [games[g] EXCEPT !.status = st].rootClaim = games[g].rootClaim
      /\ [games[g] EXCEPT !.status = st].status = st
  BY <1>2, <1>3 DEF DisputeGame
<1>6. [games[g] EXCEPT !.status = st].honest = games[g].honest
  BY <1>2, Zenon DEF DisputeGame
<1>7. ASSUME NEW h \in DOMAIN games
      PROVE  /\ games'[h] \in DisputeGame
             /\ games'[h].honest = games[h].honest
             /\ games'[h].gameType = games[h].gameType
             /\ games'[h].l2BlockNumber = games[h].l2BlockNumber
             /\ games'[h].rootClaim = games[h].rootClaim
             /\ ~games[h].honest => games'[h].status # DEFENDER_WINS
  <2>1. CASE h = g
    <3>1. games'[h] = [games[g] EXCEPT !.status = st]  BY <2>1, <1>4
    <3> QED  BY <3>1, <2>1, <1>3, <1>5, <1>6
  <2>2. CASE h # g
    <3>1. games'[h] = games[h]  BY <2>2, <1>4
    <3> QED  BY <3>1, <1>2 DEF IInv, GamesAreTrue
  <2> QED  BY <2>1, <2>2
<1>8. \E f : games' = [h \in DOMAIN games |-> f[h]]  BY <1>4
<1>9. DOMAIN games' = DOMAIN games  BY <1>4
<1> QED  BY <1>1, <1>7, <1>8, <1>9, GamesKept

(* The clock ages the games. *)
LEMMA TickPreserves ==
  ASSUME IInv, Tick
  PROVE  IInv'
<1>1. /\ games' = [g \in DOMAIN games |-> Aged(games[g])]
      /\ UNCHANGED <<nodeVars, strict, accepted, last, executed, opened, paid>>
  BY DEF Tick
<1>2. ASSUME NEW g \in DOMAIN games
      PROVE  /\ games'[g] \in DisputeGame
             /\ games'[g].honest = games[g].honest
             /\ games'[g].gameType = games[g].gameType
             /\ games'[g].l2BlockNumber = games[g].l2BlockNumber
             /\ games'[g].rootClaim = games[g].rootClaim
             /\ ~games[g].honest => games'[g].status # DEFENDER_WINS
  <2>1. games[g] \in DisputeGame
    <3>1. games \in Seq(DisputeGame)  BY DEF IInv, TypeOK
    <3> HIDE DEF DisputeGame
    <3> QED  BY <3>1
  <2> DEFINE age == IF games[g].age < MaturityDelay THEN games[g].age + 1 ELSE games[g].age
  <2>2. games'[g] = [games[g] EXCEPT !.age = age]  BY <1>1 DEF Aged
  <2>3. age \in Nat  BY <2>1 DEF DisputeGame
  <2> HIDE DEF age
  <2>4. /\ games'[g] \in DisputeGame
        /\ games'[g].gameType = games[g].gameType
        /\ games'[g].l2BlockNumber = games[g].l2BlockNumber
        /\ games'[g].rootClaim = games[g].rootClaim
        /\ games'[g].status = games[g].status
    BY <2>1, <2>2, <2>3 DEF DisputeGame
  <2>5. games'[g].honest = games[g].honest  BY <2>1, <2>2, Zenon DEF DisputeGame
  <2> QED  BY <2>4, <2>5 DEF IInv, GamesAreTrue
<1>3. DOMAIN games' = DOMAIN games /\ \E f : games' = [g \in DOMAIN games |-> f[g]]
  <2>1. games' = [g \in DOMAIN games |-> [h \in DOMAIN games |-> Aged(games[h])][g]]  BY <1>1
  <2> QED  BY <1>1, <2>1
<1> QED  BY <1>1, <1>2, <1>3, GamesKept
(* Only a true claim passes the checks accept makes: a wrong game of the     *)
(* chain's type exists only where games have to be won, and is not won.      *)
LEMMA AdmissibleIsTrue ==
  ASSUME IInv, NEW g \in DOMAIN games, Admissible(games[g])
  PROVE  games[g].honest
  BY DEF IInv, GamesAreTrue, Admissible

(* accept: the root and the state it records are of a safe block. *)
LEMMA AcceptPreserves ==
  ASSUME IInv, NEW g \in DOMAIN games, NEW proof, Accept(g, proof)
  PROVE  IInv'
<1> DEFINE n == games[g].l2BlockNumber
           root == proof.messagePasserStorageRoot.outputsRoot
           at == IF n > AcceptedAt(root) THEN n ELSE AcceptedAt(root)
<1>1. /\ Admissible(games[g]) /\ proof = games[g].rootClaim
      /\ accepted' = [r \in DOMAIN accepted \cup {root} |-> IF r = root THEN at ELSE accepted[r]]
      /\ last' = FinalizedAfter(games[g], proof)
      /\ UNCHANGED <<nodeVars, strict, games, executed, opened, paid>>
      /\ UNCHANGED <<chain, base, safe>>
  BY DEF Accept, nodeVars
<1>2. games[g].honest  BY <1>1, AdmissibleIsTrue
<1>3. chain \in Seq(Outputs) /\ safe \in 0..Len(chain) /\ Len(chain) \in Nat /\ safe \in Nat
  BY DEF IInv, TypeOK
<1>4. n \in 1..safe /\ proof = Claim(SubSeq(chain, 1, n))  BY <1>1, <1>2 DEF IInv, GamesAreTrue
<1>5. n \in 1..Len(chain)  BY <1>3, <1>4
<1>6. proof.stateRoot = SubSeq(chain, 1, n) /\ root = OutputsThrough(chain, n)
  BY <1>3, <1>4, <1>5, ClaimOpens
<1>7. SubSeq(chain, 1, n) \in Seq(Outputs)
  <2> HIDE DEF Outputs, n
  <2> QED  BY <1>3, <1>5
<1>8. last \in [l2Block : Nat, machineRoot : Seq(Outputs)]  BY DEF IInv, TypeOK
<1>9. /\ \/ n > last.l2Block /\ last' = [l2Block |-> n, machineRoot |-> SubSeq(chain, 1, n)]
         \/ n <= last.l2Block /\ last' = last
  <2>1. last.l2Block \in Nat  BY <1>8
  <2>2. last' = IF n > last.l2Block THEN [l2Block |-> n, machineRoot |-> proof.stateRoot] ELSE last
    BY <1>1 DEF FinalizedAfter
  <2>3. n \in Nat  BY <1>3, <1>4
  <2> QED  BY <2>1, <2>2, <2>3, <1>6
<1> HIDE DEF n, root
<1>10. last.l2Block \in 0..safe /\ last.machineRoot = SubSeq(chain, 1, last.l2Block)
  BY DEF IInv, AcceptedIsSafe
<1>11. /\ last' \in [l2Block : Nat, machineRoot : Seq(Outputs)]
       /\ last'.l2Block \in 0..safe /\ last'.l2Block >= n /\ last'.l2Block >= last.l2Block
       /\ last'.machineRoot = SubSeq(chain, 1, last'.l2Block)
  <2>1. CASE n > last.l2Block /\ last' = [l2Block |-> n, machineRoot |-> SubSeq(chain, 1, n)]
    <3>1. last'.l2Block = n /\ last'.machineRoot = SubSeq(chain, 1, n)  BY <2>1
    <3>2. last' \in [l2Block : Nat, machineRoot : Seq(Outputs)]
      <4> HIDE DEF Outputs
      <4> QED  BY <2>1, <1>3, <1>4, <1>7
    <3> QED  BY <3>1, <3>2, <2>1, <1>3, <1>4, <1>10
  <2>2. CASE n <= last.l2Block /\ last' = last  BY <2>2, <1>3, <1>4, <1>8, <1>10
  <2> QED  BY <1>9, <2>1, <2>2
<1>12. TypeOK'  BY <1>1, <1>11 DEF IInv, TypeOK
<1>13. \A r \in DOMAIN accepted : accepted[r] \in 1..last.l2Block /\ r = OutputsThrough(chain, accepted[r])
  BY DEF IInv, AcceptedIsSafe
<1>14. at \in 1..last'.l2Block /\ root = OutputsThrough(chain, at)
  <2>1. CASE root \in DOMAIN accepted
    <3>1. AcceptedAt(root) = accepted[root]  BY <2>1 DEF AcceptedAt
    <3> QED  BY <2>1, <3>1, <1>3, <1>4, <1>6, <1>10, <1>11, <1>13
  <2>2. CASE root \notin DOMAIN accepted
    <3>1. AcceptedAt(root) = 0  BY <2>2 DEF AcceptedAt
    <3> QED  BY <3>1, <1>3, <1>4, <1>6, <1>11
  <2> QED  BY <2>1, <2>2
<1> HIDE DEF at
<1>15. ASSUME NEW r \in DOMAIN accepted'
       PROVE  accepted'[r] \in 1..last'.l2Block /\ r = OutputsThrough(chain, accepted'[r])
  <2>1. CASE r = root  BY <2>1, <1>1, <1>14
  <2>2. CASE r # root
    <3>1. r \in DOMAIN accepted /\ accepted'[r] = accepted[r]  BY <2>2, <1>1
    <3> QED  BY <3>1, <1>10, <1>11, <1>13
  <2> QED  BY <2>1, <2>2
<1>16. AcceptedIsSafe'  BY <1>1, <1>11, <1>15 DEF AcceptedIsSafe
<1>17. OutputsGrow' /\ GamesAreTrue' /\ OpenedIsSafe' /\ PaidForReason'
  BY <1>1 DEF IInv, OutputsGrow, GamesAreTrue, OpenedIsSafe, PaidForReason
<1> QED  BY <1>12, <1>16, <1>17 DEF IInv

(* An accepted root is of the safe chain, so what it has at an index is what *)
(* the safe chain has there.                                                 *)
LEMMA ValidatedIsSafe ==
  ASSUME IInv, NEW outputs, NEW index \in Nat, NEW output, index < Len(outputs),
         Validates(outputs, index, output)
  PROVE  /\ output \in Output
         /\ index < Len(OutputsThrough(chain, safe))
         /\ OutputsThrough(chain, safe)[index + 1] = output
<1>1. outputs \in DOMAIN accepted /\ outputs[index + 1] = output
  BY DEF Validates, IsOutputsMerkleRootValid, AcceptedAt
<1>2. chain \in Seq(Outputs) /\ safe \in 0..Len(chain) /\ Len(chain) \in Nat  BY DEF IInv, TypeOK
<1>3. /\ accepted[outputs] \in 1..last.l2Block /\ last.l2Block \in 0..safe
      /\ outputs = OutputsThrough(chain, accepted[outputs])
  BY <1>1 DEF IInv, AcceptedIsSafe
<1>4. accepted[outputs] \in 0..Len(chain) /\ accepted[outputs] <= safe  BY <1>2, <1>3
<1>5. Begins(outputs, OutputsThrough(chain, safe))
  BY <1>2, <1>3, <1>4 DEF IInv, OutputsGrow
<1>6. outputs \in Outputs /\ OutputsThrough(chain, safe) \in Outputs
  BY <1>2, <1>3, <1>4, ThroughType
<1>7. index + 1 \in 1..Len(outputs) /\ Len(outputs) \in Nat /\ Len(OutputsThrough(chain, safe)) \in Nat
  BY <1>6 DEF Outputs
<1>8. output \in Output
  <2> HIDE DEF Output
  <2> QED  BY <1>1, <1>6, <1>7 DEF Outputs
<1> QED  BY <1>1, <1>5, <1>7, <1>8 DEF Begins

(* Payments made once each, by the executor for a voucher in a set. *)
Reasons(p, S) ==
  \A e \in DOMAIN p :
    /\ p[e] = 1
    /\ \/ \E x \in S : e = <<"executor", x[1]>> /\ x[2].kind = "voucher"
       \/ e = <<"portal", e[2]>> /\ e[2].kind = "withdrawal"

(* An index that was not opened is called at most once when it is. *)
LEMMA CalledOnce ==
  ASSUME NEW p, NEW S, NEW index \in Nat, NEW output,
         Reasons(p, S), \A x \in S : x[1] # index
  PROVE  Reasons(Called(p, index, output), S \cup {<<index, output>>})
<1> DEFINE pay == <<"executor", index>>  y == <<index, output>>  T == S \cup {y}  q == Called(p, index, output)
<1>1. ASSUME NEW e \in DOMAIN p, q[e] = p[e]
      PROVE  /\ q[e] = 1
             /\ \/ \E x \in T : e = <<"executor", x[1]>> /\ x[2].kind = "voucher"
                \/ e = <<"portal", e[2]>> /\ e[2].kind = "withdrawal"
  BY <1>1 DEF Reasons
<1>2. CASE ~Calls(output)
  <2>1. q = p  BY <1>2 DEF Called
  <2> QED  BY <2>1, <1>1 DEF Reasons
<1>3. CASE Calls(output)
  <2>1. pay \notin DOMAIN p
    <3>1. SUFFICES ASSUME pay \in DOMAIN p PROVE FALSE  OBVIOUS
    <3>2. pay[1] = "executor" /\ pay[2] = index  OBVIOUS
    <3>3. \A z : <<"portal", z>>[1] = "portal"  OBVIOUS
    <3>4. PICK x \in S : pay = <<"executor", x[1]>>  BY <3>1, <3>2, <3>3 DEF Reasons
    <3> QED  BY <3>4
  <2>2. q = And(p, pay)  BY <1>3 DEF Called
  <2>3. pay = <<"executor", y[1]>> /\ y[2].kind = "voucher" /\ y \in T  BY <1>3 DEF Calls
  <2> HIDE DEF pay, y, q
  <2>4. DOMAIN q = DOMAIN p \cup {pay} /\ q[pay] = 1 /\ \A e \in DOMAIN p : q[e] = p[e]
    BY <2>1, <2>2 DEF And
  <2>5. ASSUME NEW e \in DOMAIN q
        PROVE  /\ q[e] = 1
               /\ \/ \E x \in T : e = <<"executor", x[1]>> /\ x[2].kind = "voucher"
                  \/ e = <<"portal", e[2]>> /\ e[2].kind = "withdrawal"
    <3>1. CASE e = pay  BY <3>1, <2>3, <2>4
    <3>2. CASE e \in DOMAIN p  BY <3>2, <2>4, <1>1
    <3> QED  BY <3>1, <3>2, <2>4
  <2>6. Reasons(q, T)  BY <2>5 DEF Reasons
  <2> QED  BY <2>6 DEF q, y
<1> QED  BY <1>2, <1>3

(* What executeOutput runs is of the safe chain, at an index not flagged. *)
LEMMA ExecutableIsSafe ==
  ASSUME IInv, NEW flagged, NEW g, NEW index \in Nat, NEW output, Executable(flagged, g, index, output)
  PROVE  /\ index \notin flagged
         /\ output \in Output /\ <<index, output>> \in Nat \X Output
         /\ index < Len(OutputsThrough(chain, safe))
         /\ OutputsThrough(chain, safe)[index + 1] = output
<1>1. /\ index < Len(OutputsOf(games[g])) /\ Validates(OutputsOf(games[g]), index, output)
      /\ index \notin flagged
  BY DEF Executable
<1>2. /\ output \in Output /\ index < Len(OutputsThrough(chain, safe))
      /\ OutputsThrough(chain, safe)[index + 1] = output
  BY <1>1, ValidatedIsSafe
<1> QED  BY <1>1, <1>2

(* Outputs of the safe chain are opened and flagged, and paid for once. *)
LEMMA OpenPreserves ==
  ASSUME IInv, NEW S \in SUBSET (Nat \X Output),
         \A x \in S : /\ x[1] \in executed'
                      /\ x[1] < Len(OutputsThrough(chain, safe))
                      /\ OutputsThrough(chain, safe)[x[1] + 1] = x[2],
         opened' = opened \cup S, executed \subseteq executed', executed' \subseteq Nat,
         Reasons(paid', opened'),
         UNCHANGED <<nodeVars, strict, games, accepted, last>>
  PROVE  IInv'
<1>1. UNCHANGED <<chain, base, safe>> /\ UNCHANGED <<strict, games, accepted, last>>  BY DEF nodeVars
<1>2. TypeOK'
  <2>1. opened' \subseteq Nat \X Output  BY DEF IInv, TypeOK
  <2> QED  BY <2>1, <1>1 DEF IInv, TypeOK
<1>3. OpenedIsSafe'
  <2>1. ASSUME NEW y \in opened'
        PROVE  /\ y[1] \in executed' /\ y[1] < Len(OutputsThrough(chain, safe))
               /\ OutputsThrough(chain, safe)[y[1] + 1] = y[2]
    <3>1. CASE y \in S  BY <3>1
    <3>2. CASE y \in opened  BY <3>2 DEF IInv, OpenedIsSafe
    <3> QED  BY <3>1, <3>2
  <2> QED  BY <2>1, <1>1 DEF OpenedIsSafe
<1>4. PaidForReason'  BY DEF PaidForReason, Reasons
<1>5. OutputsGrow' /\ GamesAreTrue' /\ AcceptedIsSafe'
  BY <1>1 DEF IInv, OutputsGrow, GamesAreTrue, AcceptedIsSafe
<1> QED  BY <1>2, <1>3, <1>4, <1>5 DEF IInv

(* executeOutput: an index is run once, and is called only if it is a voucher. *)
LEMMA ExecutePreserves ==
  ASSUME IInv, NEW g \in DOMAIN games, NEW index \in Nat, NEW output, ExecuteOutput(g, index, output)
  PROVE  IInv'
<1> DEFINE x == <<index, output>>
<1>1. /\ Executable(executed, g, index, output)
      /\ executed' = executed \cup {index} /\ opened' = opened \cup {x}
      /\ paid' = Called(paid, index, output)
      /\ UNCHANGED <<nodeVars, strict, games, accepted, last>>
  BY DEF ExecuteOutput
<1>2. /\ index \notin executed /\ x \in Nat \X Output /\ x[1] = index /\ x[2] = output
      /\ index < Len(OutputsThrough(chain, safe))
      /\ OutputsThrough(chain, safe)[index + 1] = output
  BY <1>1, ExecutableIsSafe
<1>3. Reasons(paid, opened)  BY DEF IInv, PaidForReason, Reasons
<1>4. \A y \in opened : y[1] # index  BY <1>2 DEF IInv, OpenedIsSafe
<1>5. Reasons(paid', opened')  BY <1>1, <1>3, <1>4, CalledOnce
<1>6. executed \subseteq executed' /\ executed' \subseteq Nat  BY <1>1 DEF IInv, TypeOK
<1>7. {x} \in SUBSET (Nat \X Output) /\ index \in executed'  BY <1>1, <1>2
<1> HIDE DEF x
<1> QED  BY <1>1, <1>2, <1>5, <1>6, <1>7, OpenPreserves

(* executeOutput from within a voucher's call: the voucher's own index is   *)
(* flagged by then, so the output run inside is another one.                *)
LEMMA WithinPreserves ==
  ASSUME IInv, NEW g \in DOMAIN games, NEW index \in Nat, NEW output, ExecuteWithin(g, index, output)
  PROVE  IInv'
<1>1. PICK h \in DOMAIN games, nested \in Known : \E inner \in Indexes(h) :
         /\ Executable(FlaggedInCall(index), h, inner, nested)
         /\ executed' = executed \cup {index, inner}
         /\ opened' = opened \cup {<<index, output>>, <<inner, nested>>}
         /\ paid' = Called(Called(paid, index, output), inner, nested)
  BY DEF ExecuteWithin
<1>2. PICK inner \in Indexes(h) :
         /\ Executable(FlaggedInCall(index), h, inner, nested)
         /\ executed' = executed \cup {index, inner}
         /\ opened' = opened \cup {<<index, output>>, <<inner, nested>>}
         /\ paid' = Called(Called(paid, index, output), inner, nested)
  BY <1>1
<1> DEFINE x == <<index, output>>  y == <<inner, nested>>
<1>3. inner \in Nat  BY <1>2 DEF Indexes
<1>4. Executable(executed, g, index, output) /\ UNCHANGED <<nodeVars, strict, games, accepted, last>>
  BY DEF ExecuteWithin
<1>5. /\ index \notin executed /\ x \in Nat \X Output /\ x[1] = index /\ x[2] = output
      /\ index < Len(OutputsThrough(chain, safe))
      /\ OutputsThrough(chain, safe)[index + 1] = output
  BY <1>4, ExecutableIsSafe
<1>6. /\ inner \notin FlaggedInCall(index) /\ y \in Nat \X Output /\ y[1] = inner /\ y[2] = nested
      /\ inner < Len(OutputsThrough(chain, safe))
      /\ OutputsThrough(chain, safe)[inner + 1] = nested
  BY <1>2, <1>3, ExecutableIsSafe
<1>7. inner \notin executed /\ inner # index  BY <1>6 DEF FlaggedInCall
<1>8. Reasons(paid, opened)  BY DEF IInv, PaidForReason, Reasons
<1>9. \A z \in opened : z[1] # index /\ z[1] # inner  BY <1>5, <1>7 DEF IInv, OpenedIsSafe
<1>10. Reasons(Called(paid, index, output), opened \cup {x})  BY <1>8, <1>9, CalledOnce
<1>11. \A z \in opened \cup {x} : z[1] # inner  BY <1>5, <1>7, <1>9
<1>12. Reasons(Called(Called(paid, index, output), inner, nested), (opened \cup {x}) \cup {y})
  BY <1>3, <1>10, <1>11, CalledOnce
<1>13. opened' = (opened \cup {x}) \cup {y}  BY <1>2
<1>14. Reasons(paid', opened')  BY <1>2, <1>12, <1>13
<1>15. executed \subseteq executed' /\ executed' \subseteq Nat  BY <1>2, <1>3 DEF IInv, TypeOK
<1>16. /\ {x, y} \in SUBSET (Nat \X Output) /\ opened' = opened \cup {x, y}
       /\ index \in executed' /\ inner \in executed'
  BY <1>2, <1>5, <1>6
<1> HIDE DEF x, y
<1> QED  BY <1>4, <1>5, <1>6, <1>14, <1>15, <1>16, OpenPreserves

(* OptimismPortal pays a withdrawal of a won game, once. *)
LEMMA FinalizePreserves ==
  ASSUME IInv, NEW g \in DOMAIN games, NEW w, FinalizeWithdrawal(g, w)
  PROVE  IInv'
<1> DEFINE pay == <<"portal", w>>
<1>1. /\ games[g].status = DEFENDER_WINS
      /\ w \in games[g].rootClaim.messagePasserStorageRoot.sent
      /\ TimesPaid(pay) = 0 /\ paid' = And(paid, pay)
      /\ UNCHANGED <<nodeVars, strict, games, accepted, last, executed, opened>>
      /\ UNCHANGED <<chain, base, safe>>
  BY DEF FinalizeWithdrawal, nodeVars
<1>2. games[g].honest  BY <1>1 DEF IInv, GamesAreTrue
<1>3. chain \in Seq(Outputs) /\ games[g].l2BlockNumber \in 1..Len(chain)
      /\ games[g].rootClaim = Claim(SubSeq(chain, 1, games[g].l2BlockNumber))
  <2>1. chain \in Seq(Outputs) /\ safe \in 0..Len(chain) /\ Len(chain) \in Nat  BY DEF IInv, TypeOK
  <2> QED  BY <2>1, <1>2 DEF IInv, GamesAreTrue
<1>4. w.kind = "withdrawal"  BY <1>1, <1>3, ClaimOpens
<1>5. pay = <<"portal", pay[2]>> /\ pay[2] = w  OBVIOUS
<1> HIDE DEF pay
<1>6. pay \notin DOMAIN paid  BY <1>1 DEF TimesPaid, IInv, PaidForReason
<1>7. DOMAIN paid' = DOMAIN paid \cup {pay} /\ paid'[pay] = 1 /\ \A e \in DOMAIN paid : paid'[e] = paid[e]
  BY <1>1, <1>6 DEF And
<1>8. PaidForReason'
  <2>1. ASSUME NEW e \in DOMAIN paid'
        PROVE  /\ paid'[e] = 1
               /\ \/ \E x \in opened : e = <<"executor", x[1]>> /\ x[2].kind = "voucher"
                  \/ e = <<"portal", e[2]>> /\ e[2].kind = "withdrawal"
    <3>1. CASE e = pay  BY <3>1, <1>4, <1>5, <1>7
    <3>2. CASE e \in DOMAIN paid  BY <3>2, <1>7 DEF IInv, PaidForReason
    <3> QED  BY <3>1, <3>2, <1>7
  <2> QED  BY <2>1, <1>1 DEF PaidForReason
<1>9. TypeOK'  BY <1>1 DEF IInv, TypeOK
<1>10. OutputsGrow' /\ GamesAreTrue' /\ AcceptedIsSafe' /\ OpenedIsSafe'
  BY <1>1 DEF IInv, OutputsGrow, GamesAreTrue, AcceptedIsSafe, OpenedIsSafe
<1> QED  BY <1>8, <1>9, <1>10 DEF IInv
-----------------------------------------------------------------------------
(* Nothing is proposed or paid at first. *)
LEMMA InitIInv == Init => IInv
<1> SUFFICES ASSUME Init PROVE IInv  OBVIOUS
<1> USE DEF Init
<1>1. << >> \in Seq(Outputs) /\ << >> \in Seq(DisputeGame) /\ Len(<< >>) = 0
  OBVIOUS
<1>2. last \in [l2Block : Nat, machineRoot : Seq(Outputs)]
  <2> HIDE DEF Outputs
  <2> QED  BY <1>1
<1>3. TypeOK  BY <1>1, <1>2 DEF TypeOK
<1>4. OutputsGrow
  <2>1. \A m \in 0..Len(chain) : OutputsThrough(chain, m) = << >>  BY <1>1 DEF OutputsThrough
  <2>2. Begins(<< >>, << >>)  BY <1>1 DEF Begins
  <2> QED  BY <2>1, <2>2 DEF OutputsGrow
<1>5. \A S : S = DOMAIN << >> => S = {}  OBVIOUS
<1>6. GamesAreTrue /\ OpenedIsSafe /\ PaidForReason
  BY <1>5 DEF GamesAreTrue, OpenedIsSafe, PaidForReason
<1>7. AcceptedIsSafe
  <2>1. SubSeq(<< >>, 1, 0) = << >>  OBVIOUS
  <2> QED  BY <2>1, <1>5 DEF AcceptedIsSafe
<1> QED  BY <1>3, <1>4, <1>6, <1>7 DEF IInv

(* Every step of the node, the proposers, the games and the contracts keeps it. *)
LEMMA NextIInv == IInv /\ [Next]_vars => IInv'
<1> SUFFICES ASSUME IInv, [Next]_vars PROVE IInv'  OBVIOUS
<1>1. CASE UNCHANGED vars
  <2>1. UNCHANGED <<chain, base, safe, strict, games, accepted, last, executed, opened, paid>>
    BY <1>1 DEF vars, nodeVars, l1Vars
  <2>2. TypeOK' /\ OutputsGrow' /\ GamesAreTrue'
    BY <2>1 DEF IInv, TypeOK, OutputsGrow, GamesAreTrue
  <2>3. AcceptedIsSafe' /\ OpenedIsSafe' /\ PaidForReason'
    BY <2>1 DEF IInv, AcceptedIsSafe, OpenedIsSafe, PaidForReason
  <2> QED  BY <2>2, <2>3 DEF IInv
<1>2. ASSUME NEW parent \in 0..Len(chain), NEW kinds \in Emissions, AddBlock(parent, kinds)  PROVE IInv'
  BY <1>2, AddBlockPreserves
<1>3. CASE AdvanceSafe  BY <1>3, AdvanceSafePreserves
<1>4. ASSUME NEW n \in 1..Len(chain), Restart(n)  PROVE IInv'  BY <1>4, RestartPreserves
<1>5. ASSUME NEW n \in 1..safe, Propose(n)  PROVE IInv'  BY <1>5, ProposePreserves
<1>6. ASSUME NEW n \in 1..safe, NEW type \in {"ours", "other"}, NEW kinds \in Emissions,
             ProposeWrong(n, type, kinds)
      PROVE  IInv'
  BY <1>6, ProposeWrongPreserves
<1>7. ASSUME NEW g \in DOMAIN games, Resolve(g)  PROVE IInv'  BY <1>7, ResolvePreserves
<1>8. CASE Tick  BY <1>8, TickPreserves
<1>9. ASSUME NEW g \in DOMAIN games, NEW h \in DOMAIN games, Accept(g, games[h].rootClaim)  PROVE IInv'
  BY <1>9, AcceptPreserves
<1>10. CASE Execute
  <2>1. PICK g \in DOMAIN games, output \in Known :
           \E index \in Indexes(g) : ExecuteOutput(g, index, output)
    BY <1>10 DEF Execute
  <2>2. PICK index \in Indexes(g) : ExecuteOutput(g, index, output)  BY <2>1
  <2>3. index \in Nat  BY <2>2 DEF Indexes
  <2> QED  BY <2>2, <2>3, ExecutePreserves
<1>11. CASE Finalize
  <2>1. PICK g \in DOMAIN games :
           \E w \in games[g].rootClaim.messagePasserStorageRoot.sent : FinalizeWithdrawal(g, w)
    BY <1>11 DEF Finalize
  <2> QED  BY <2>1, FinalizePreserves
<1>12. CASE ExecuteTwo
  <2>1. PICK g \in DOMAIN games, output \in Known :
           \E index \in Indexes(g) : ExecuteWithin(g, index, output)
    BY <1>12 DEF ExecuteTwo
  <2>2. PICK index \in Indexes(g) : ExecuteWithin(g, index, output)  BY <2>1
  <2>3. index \in Nat  BY <2>2 DEF Indexes
  <2> QED  BY <2>2, <2>3, WithinPreserves
<1> QED  BY <1>1, <1>2, <1>3, <1>4, <1>5, <1>6, <1>7, <1>8, <1>9, <1>10, <1>11, <1>12 DEF Next

LEMMA Invariant == Spec => []IInv
  BY InitIInv, NextIInv, PTL DEF Spec

(* L1 acts on the chain's own outputs only, and reports its state: what the  *)
(* executor ran is what the chain has at that index, and the machine root is *)
(* that of the highest accepted block, whatever wrong claims are proposed    *)
(* beside the true ones and in whatever order games are accepted.            *)
THEOREM L1Follows == Spec => []L1FollowsTheChain
<1>1. IInv => L1FollowsTheChain
  <2> SUFFICES ASSUME IInv PROVE L1FollowsTheChain  OBVIOUS
  <2>1. chain \in Seq(Outputs) /\ safe \in 0..Len(chain) /\ Len(chain) \in Nat  BY DEF IInv, TypeOK
  <2>2. Begins(OutputsThrough(chain, safe), Canonical)
    BY <2>1 DEF IInv, OutputsGrow, Canonical
  <2>3. OutputsThrough(chain, safe) \in Outputs /\ Canonical \in Outputs
    BY <2>1, ThroughType DEF Canonical
  <2> DEFINE old == OutputsThrough(chain, safe)
  <2>4. Len(old) \in Nat /\ Len(Canonical) \in Nat  BY <2>3 DEF Outputs
  <2> HIDE DEF old
  <2>5. ASSUME NEW x \in opened  PROVE x[1] < Len(Canonical) /\ Canonical[x[1] + 1] = x[2]
    <3>1. x[1] \in Nat /\ x[1] < Len(old) /\ old[x[1] + 1] = x[2]
      BY DEF IInv, TypeOK, OpenedIsSafe, old
    <3>2. x[1] + 1 \in 1..Len(old)  BY <3>1, <2>4
    <3>3. Begins(old, Canonical)  BY <2>2 DEF old
    <3> QED  BY <3>1, <3>2, <3>3, <2>4 DEF Begins
  <2>6. \A r \in DOMAIN accepted : accepted[r] <= last.l2Block  BY DEF IInv, AcceptedIsSafe
  <2> QED  BY <2>5, <2>6 DEF L1FollowsTheChain, IInv, AcceptedIsSafe
<1> QED  BY <1>1, Invariant, PTL

(* No output is paid for twice: the executor calls each voucher once, the    *)
(* portal pays each withdrawal once, and no output is both.                  *)
THEOREM NothingPaidTwice == Spec => []PaidOnce
<1>1. IInv /\ L1FollowsTheChain => PaidOnce
  <2>1. SUFFICES ASSUME IInv, L1FollowsTheChain, NEW i \in DOMAIN Canonical
                 PROVE  TimesPaid(<<"executor", i - 1>>) + TimesPaid(<<"portal", Canonical[i]>>) <= 1
    BY DEF PaidOnce
  <2> DEFINE a == <<"executor", i - 1>>  b == <<"portal", Canonical[i]>>
  <2>2. i \in Nat
    <3>1. chain \in Seq(Outputs) /\ Len(chain) \in 0..Len(chain)  BY <2>1 DEF IInv, TypeOK
    <3>2. Canonical \in Outputs  BY <3>1, ThroughType DEF Canonical
    <3> QED  BY <3>2 DEF Outputs
  <2>3. a[1] = "executor" /\ a[2] = i - 1 /\ b[1] = "portal" /\ b[2] = Canonical[i]  OBVIOUS
  <2>4. \A z : <<"portal", z>>[1] = "portal" /\ <<"executor", z>>[1] = "executor" /\ <<"executor", z>>[2] = z
    OBVIOUS
  <2> HIDE DEF a, b
  <2>5. a \in DOMAIN paid => Canonical[i].kind = "voucher"
    <3>1. SUFFICES ASSUME a \in DOMAIN paid PROVE Canonical[i].kind = "voucher"  OBVIOUS
    <3>2. PICK x \in opened : a = <<"executor", x[1]>> /\ x[2].kind = "voucher"
      BY <3>1, <2>1, <2>3, <2>4 DEF IInv, PaidForReason
    <3>3. x[1] = i - 1 /\ x[1] \in Nat  BY <3>2, <2>1, <2>3, <2>4 DEF IInv, TypeOK
    <3>4. Canonical[x[1] + 1] = x[2]  BY <2>1 DEF L1FollowsTheChain
    <3>5. x[1] + 1 = i  BY <3>3, <2>2
    <3> QED  BY <3>2, <3>4, <3>5
  <2>6. b \in DOMAIN paid => Canonical[i].kind = "withdrawal"
    BY <2>1, <2>3, <2>4 DEF IInv, PaidForReason
  <2>7. /\ a \in DOMAIN paid => paid[a] = 1
        /\ b \in DOMAIN paid => paid[b] = 1
    BY <2>1 DEF IInv, PaidForReason
  <2>8. TimesPaid(a) + TimesPaid(b) <= 1  BY <2>5, <2>6, <2>7 DEF TimesPaid
  <2> QED  BY <2>8 DEF a, b
<1> QED  BY <1>1, Invariant, L1Follows, PTL
=============================================================================
