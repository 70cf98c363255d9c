----------------------------- MODULE MCExecution -----------------------------
EXTENDS Execution

MCTx == {"d", "e", "p", "q", "r"}
MCState == 0..3
MCEmission == {"v"}

\* A guest whose answers depend on the state, on the input number and on the
\* transaction: "d" is always taken, "e" is rejected unless it comes first, "p"
\* alternates, "q" needs an even input number and halts the machine in state 0,
\* "r" burns a whole block of gas.
Answers(verdict, m, cycles, emits) ==
    [verdict |-> verdict, next |-> (m + 1) % 4, cycles |-> cycles, emits |-> emits]

MCGuest(m, n, tx) ==
    IF tx = "d" THEN Answers("accept", m, 2, <<"v">>)
    ELSE IF tx = "e" THEN Answers(IF n = 0 THEN "accept" ELSE "reject", m, 1, <<"v">>)
    ELSE IF tx = "p" THEN Answers(IF m % 2 = 1 THEN "accept" ELSE "reject", m, 2, << >>)
    ELSE IF tx = "q" THEN Answers(IF m = 0 THEN "error" ELSE IF n % 2 = 0 THEN "accept" ELSE "reject",
                                  m, 3, <<"v", "v">>)
    ELSE Answers("accept", m, 9, <<"v">>)

MCDepositLists == {<<"d">>, <<"d", "e">>, <<"e", "d">>, <<"q">>, <<>>}
MCPoolLists == {<<"p", "q", "r">>, <<"q", "r", "p">>, <<"r", "p">>, <<"p", "r", "q">>}
MCSize == [t \in MCTx |-> IF t = "q" THEN 3 ELSE 1]
=============================================================================
