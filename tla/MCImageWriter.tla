--------------------------- MODULE MCImageWriter ---------------------------
(***************************************************************************)
(* An image of three blocks through a ring buffer of two: the writer has   *)
(* to wait for its reader before it comes to its end.  libburn may         *)
(* announce a size which is too small, or too large for the image.         *)
(***************************************************************************)
EXTENDS ImageWriter

MCWriteSizes == {1, 2}
MCReadSizes  == {1, 2}
MCSetSizes   == {2, 4}
=============================================================================
