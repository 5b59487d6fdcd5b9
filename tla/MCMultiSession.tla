--------------------------- MODULE MCMultiSession ---------------------------
EXTENDS MultiSession

Sizes34 == {3, 4}
Size3 == {3}
Size2 == {2}

NoEject == {}
EjectIn == {{"in"}, {"in", "out"}}
EjectOut == {{"out"}}
=============================================================================
