---------------------------- MODULE MCSerialASIO ----------------------------
(* Small instances of SerialASIO for TLC: an answer of two bytes after the
   first two, and an exception of one. *)
EXTENDS SerialASIO
=============================================================================
