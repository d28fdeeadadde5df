-------------------------- MODULE MCSQLTransaction --------------------------
(* Two workers and a direct caller; transactions that lock the same two    *)
(* rows in opposite orders, so that the server finds deadlocks, one that   *)
(* may violate a key, and one without statements.                          *)
EXTENDS SQLTransaction
CONSTANTS w1, w2, c1, x1, x2, empty, row1, row2

MCWorkers == {w1, w2}
OneWorker == {w1}
MCCallers == {c1}
NoCallers == {}
OneTransaction == {x1}
WithEmpty == {x1, x2, empty}
MCRowsOf(X) == [x \in X |-> CASE x = x1 -> <<row1, row2>>
                              [] x = x2 -> <<row2, row1>>
                              [] x = empty -> <<>>]
RowsOfOne == MCRowsOf(OneTransaction)
RowsOfWithEmpty == MCRowsOf(WithEmpty)
FaultySecond == {x2}
NoFaulty == {}
=============================================================================
