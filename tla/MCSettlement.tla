---------------------------- MODULE MCSettlement ----------------------------
EXTENDS Settlement

\* A voucher; a withdrawal with the notice of its event.
MCEmissions == {<<"voucher">>, <<"withdrawal", "notice">>}
=============================================================================
