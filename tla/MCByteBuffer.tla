---------------------------- MODULE MCByteBuffer ----------------------------
(***************************************************************************)
(* ByteBuffer for TLC: arrays of a few bytes, and calls that ask for less, *)
(* as much and more than they hold.                                        *)
(***************************************************************************)
EXTENDS ByteBuffer
=============================================================================
