---------------------------- MODULE MCRingBuffer ----------------------------
(***************************************************************************)
(* A small ring buffer: the capacity is no multiple of the call sizes, so  *)
(* that calls wrap around and need several passes, and a call may be       *)
(* larger than the buffer; the stream goes round the buffer twice.         *)
(***************************************************************************)
EXTENDS RingBuffer

MCWriteSizes == {1, 4}
MCReadSizes  == {2, 4}
=============================================================================
