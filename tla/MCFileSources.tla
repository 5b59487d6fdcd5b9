---------------------------- MODULE MCFileSources ----------------------------
EXTENDS FileSources

CONSTANTS fileA, fileB

TwoFiles  == {fileA, fileB}
Symmetry  == Permutations(TwoFiles)
\* The empty file, the largest single extent, and a file of three extents.
SomeSizes == {0, 5, 11}
\* Not the size 5: the block count of such an extent wraps around.
SomeClaims == {0, 11}
=============================================================================
