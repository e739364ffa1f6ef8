-------------------------- MODULE MCMotorRegisters --------------------------
(* A small instance of MotorRegisters for TLC: the limits of 32 bits and a
   value whose halves both have a sign of their own, the first and the last
   motions, a next motion left out, given, and given as the last one, and what
   an empty message_data still holds. *)
EXTENDS MotorRegisters

MCSeeds == {-65537, 2147483647}
MCMotionIDs == {0, 1, 31}
MCNextIDs == {-1, 31}
MCLeftovers == {0, 32768}
=============================================================================
