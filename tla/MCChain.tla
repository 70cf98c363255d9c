------------------------------ MODULE MCChain ------------------------------
(***************************************************************************)
(* Chain on two branches that part at genesis, deep enough for the         *)
(* retention window (MaxSnapshots = 1) to close snapshots on both sides of *)
(* a reorg, with one block whose header claims the wrong result.           *)
(***************************************************************************)
EXTENDS Chain

MCPayload == {"a", "b"}
MCBlocks == { << >>, <<"a">>, <<"a", "a">>, <<"a", "a", "a">>,
              <<"b">>, <<"a", "b">> }
\* The header of <<"a", "b">> claims the result of its sibling.
MCClaimed == [b \in MCBlocks |-> IF b = <<"a", "b">> THEN <<"a", "a">> ELSE b]
=============================================================================
