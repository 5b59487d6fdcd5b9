---------------------------- MODULE MCBlockCache ----------------------------
EXTENDS BlockCache

Shifts == {-1, 0, 2}
NoShift == {0}
BothRoles == {"mmc", "file"}
FileOnly == {"file"}
=============================================================================
