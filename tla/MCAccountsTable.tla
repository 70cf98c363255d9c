--------------------------- MODULE MCAccountsTable ---------------------------
EXTENDS AccountsTable

CONSTANTS a, b, c, d, fresh, used

\* fresh and used tell a zero nonce from a nonzero one.
MCKey == {a, b, c, d}
\* Keys are interchangeable and the table is a ring, so the homes are taken up
\* to the order of the keys and up to rotation.
MCHomes == {h \in [MCKey -> Slot] : h[a] = 0 /\ h[a] <= h[b] /\ h[b] <= h[c] /\ h[c] <= h[d]}
MCProtected(v) == v = used
=============================================================================
