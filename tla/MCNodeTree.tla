------------------------------ MODULE MCNodeTree ------------------------------
EXTENDS NodeTree

SomeDirs == {1, 2}
TwoLeaves == {3, 4}
ThreeLeaves == {3, 4, 5}
=============================================================================
