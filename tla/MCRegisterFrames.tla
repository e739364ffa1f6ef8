-------------------------- MODULE MCRegisterFrames --------------------------
(* Small instances of RegisterFrames for TLC: the smallest and the largest
   numbers of registers, addresses that need both bytes, and the limits of
   32 bits.  The first register at 12286 is 0x40F3, the checksum of the
   exception 01 83 04, which two registers read there become when the high
   bit of the function code is damaged. *)
EXTENDS RegisterFrames

MCReads == {1, 2, MaxRead}
MCWrites == {1, 2, MaxWrite}
MCStarts == {12286, 65535}
MCSeeds == {0, 65535}
MCWides == {1, -1, 65535, 65536, -65536, -65537, 2147483647, -2147483647 - 1}
MCFlips == {1, 128, 255}
=============================================================================
