---------------------------- MODULE MCFifoSource ----------------------------
(***************************************************************************)
(* A fifo of three chunks of two bytes each, so that it wraps around in    *)
(* mid-stream, over inputs that end at a chunk boundary or within a chunk. *)
(***************************************************************************)
EXTENDS FifoSource

MCInputLens == {0, 2, 7, 8}
MCPeekLens  == {1, 3}
MCFailing   == {FALSE, TRUE}
MCChunkwise == {2}
MCDouble    == {4}
MCPeeks     == {2, 4}
=============================================================================
