--------------------------- MODULE MCApplication ---------------------------
(***************************************************************************)
(* A small guest: the owner and one user, two tokens of which the registry *)
(* takes one, one portal, and room for few accounts and balances.          *)
(***************************************************************************)
EXTENDS Application

CONSTANTS owner, alice, zero, portal, l1m, t1, t2, f1, f2

MCToken == {t1, t2}
MCAddress == {owner, alice, zero, portal, l1m, f1, f2, "app", "contract"} \cup BuiltIn
MCl2TokenAddress == [t \in MCToken |-> IF t = t1 THEN f1 ELSE f2]

Base == [target |-> "l2bridge", fromBridge |-> TRUE, fn |-> "finalizeBridgeERC20",
         value |-> 0, token |-> t1, to |-> alice, amount |-> 1, pair |-> TRUE, version |-> 1]

\* An ERC-20 deposit of each token, ether to a user, and ether for the zero
\* address, which the drive refuses.
MCMessage == {Base,
              [Base EXCEPT !.token = t2],
              [Base EXCEPT !.fn = "finalizeBridgeETH", !.value = 1],
              [Base EXCEPT !.target = zero, !.fn = "", !.value = 1]}

Call(fn) == [fn |-> fn, fee |-> 0, kind |-> "none", portal |-> portal, token |-> t1,
             amount |-> 1, to |-> alice, pair |-> TRUE, message |-> Base,
             number |-> 1, short |-> FALSE]

Deposit(from, to, mint, value, call) ==
  [type |-> "deposit", from |-> from, to |-> to, mint |-> mint, value |-> value, call |-> call]

\* Among them tokens for the zero address: the token is registered before
\* the drive refuses the balance.
MCDeposits ==
  {Deposit(alice, alice, 1, 0, Call("")), Deposit(alice, Absent, 1, 0, Call("")),
   Deposit(owner, "contract", 1, 1, Call("other")), Deposit(alice, "app", 0, 1, Call("portal")),
   Deposit(portal, "app", 1, 1, Call("portal")),
   Deposit(portal, alice, 0, 0, [Call("portal") EXCEPT !.token = t2]),
   Deposit(portal, "app", 0, 0, [Call("portal") EXCEPT !.to = zero]),
   Deposit(l1m, "l1block", 0, 0, Call("setL1BlockValues")),
   Deposit(Absent, alice, 1, 0, Call(""))}
  \cup {Deposit(l1m, "messenger", m.value, m.value, [Call("relayMessage") EXCEPT !.message = m]) :
          m \in MCMessage}

Signed(from, to, value, call) ==
  [type |-> "eip1559", from |-> from, to |-> to, value |-> value, call |-> call,
   signature |-> "good", chain |-> "ours"]

MCTransactions ==
  {Signed(owner, "config", 0, [Call("setFee") EXCEPT !.fee = 1]),
   Signed(owner, "config", 0, [Call("registerPortal") EXCEPT !.kind = "erc20"]),
   Signed(owner, "config", 0, [Call("registerPortal") EXCEPT !.kind = "ether"]),
   Signed(owner, "config", 0, Call("registerMessenger")),
   Signed(owner, "config", 0, Call("registerToken")),
   Signed(owner, "config", 0, [Call("setTokenMetadata") EXCEPT !.token = t2]),
   Signed(alice, "config", 0, Call("setFee")),
   Signed(alice, owner, 1, Call("")),
   Signed(alice, "bridge", 1, Call("withdrawEther")),
   Signed(alice, "bridge", 0, Call("withdrawERC20")),
   Signed(alice, "passer", 1, Call("")),
   Signed(alice, "passer", 0, Call("other")),
   Signed(alice, f1, 0, [Call("transfer") EXCEPT !.to = owner]),
   Signed(alice, f1, 0, [Call("transfer") EXCEPT !.to = zero]),
   Signed(alice, "l2bridge", 0, Call("bridgeERC20")),
   Signed(alice, "contract", 1, Call("book")),
   Signed(alice, "contract", 1, Call("bookThenFail")),
   Signed(portal, "l1block", 0, Call("setL1BlockValues")),
   Signed(alice, "l1block", 0, [Call("setL1BlockValues") EXCEPT !.short = TRUE]),
   [Signed(alice, owner, 1, Call("")) EXCEPT !.signature = "high s"],
   [Signed(alice, owner, 1, Call("")) EXCEPT !.signature = "none"],
   [Signed(alice, owner, 1, Call("")) EXCEPT !.chain = "other"],
   [Signed(alice, owner, 1, Call("")) EXCEPT !.type = "eip4844"],
   Signed(alice, Absent, 0, Call(""))}
  \cup {Signed(alice, "messenger", 0, [Call("relayMessage") EXCEPT !.message = m]) : m \in MCMessage}

MCInputs == MCDeposits \cup MCTransactions \cup {[type |-> "none"]}

Contract(abi) == [address |-> "contract", abi |-> abi]

\* One contract; its address twice; a reserved address; one contract too
\* many for the index; an ABI too long for the heap.
MCPrograms == {<<Contract(<<"c", "d">>)>>,
               <<Contract(<<"c">>), Contract(<<"d">>)>>,
               <<[address |-> "config", abi |-> <<"c">>]>>,
               <<Contract(<<"c">>), [address |-> alice, abi |-> <<"d">>]>>,
               <<Contract(<<"c", "d", "e">>)>>}

MCBuiltInAbi == [b \in BuiltIn |-> <<b>>]
=============================================================================
