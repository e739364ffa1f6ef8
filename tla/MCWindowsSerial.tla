--------------------------- MODULE MCWindowsSerial ---------------------------
(* Small instances of WindowsSerial for TLC: two bytes each way, and the port
   opened twice. *)
EXTENDS WindowsSerial
=============================================================================
