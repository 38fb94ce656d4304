------------------------------ MODULE MCWsonIo ------------------------------
(***************************************************************************)
(* WsonIo on a small instance.  The growth parameters are scaled down so   *)
(* that each branch of wson_io_buffer_resize is taken within a few calls:  *)
(* an empty block, one below SmallLimit and one above it.                  *)
(***************************************************************************)
EXTENDS WsonIo

MCNewSizes == {0, 2, 5}
MCRawBytes == {NullType}
MCUints    == {0, 200}
MCInts     == {-65}
MCLongs    == {<<1, 2, 3, 4, 5, 6, 7, 8>>}
MCFloats   == {<<1, 2, 3, 4>>}
MCStrings  == {<<>>, <<7>>, <<7, 9, 7>>}
=============================================================================
