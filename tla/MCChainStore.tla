---------------------------- MODULE MCChainStore ----------------------------
(***************************************************************************)
(* ChainStore on lines of blocks and on a line with a fork.                *)
(***************************************************************************)
EXTENDS ChainStore

MCPayload == {"a", "b"}
MCLine == { << >>, <<"a">>, <<"a", "a">>, <<"a", "a", "a">>, <<"a", "a", "a", "a">> }
MCFork == { << >>, <<"a">>, <<"a", "a">>, <<"b">> }
MCLineClaimed == [b \in MCLine |-> b]
MCForkClaimed == [b \in MCFork |-> b]
=============================================================================
