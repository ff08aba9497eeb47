----------------------------- MODULE MCCellClaims ---------------------------
EXTENDS CellClaims
CONSTANTS w1, w2, w3, x, y

TwoWalks == {w1, w2}
ThreeWalks == {w1, w2, w3}

\* Two walks meet the cells in opposite orders.
Crossed == [w \in Walks |-> IF w = w1 THEN <<x, y>> ELSE <<y, x>>]
=============================================================================
