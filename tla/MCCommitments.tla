--------------------------- MODULE MCCommitments ---------------------------
EXTENDS Commitments

\* A voucher; two withdrawals of one input, each with the notice of its event,
\* after an input that emits nothing; a withdrawal and a voucher of two inputs;
\* nothing at all.
MCShapes == {<< <<"voucher">> >>,
             << << >>, <<"withdrawal", "notice", "withdrawal", "notice">> >>,
             << <<"withdrawal", "notice">>, <<"voucher">> >>,
             << >>}
=============================================================================
