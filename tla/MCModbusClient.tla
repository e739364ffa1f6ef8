--------------------------- MODULE MCModbusClient ---------------------------
(* Small instances of ModbusClient for TLC.  A data frame of three bytes and
   an exception of two keep every case of received_expected_number_of_bytes:
   too few bytes, an exception before the data length, the data length. *)
EXTENDS ModbusClient

MCRequest(important, broadcast, length) ==
    [important |-> important, broadcast |-> broadcast, length |-> length]

\* every kind of request, the unknown length included
MCAllRequests ==
    {MCRequest(TRUE, FALSE, 3), MCRequest(FALSE, FALSE, 3),
     MCRequest(TRUE, TRUE, 3), MCRequest(TRUE, FALSE, -1)}

\* the requests that a motor answers
MCAnsweredRequests == MCAllRequests \ {MCRequest(TRUE, TRUE, 3)}

MCAllKinds == FrameKind
\* a damaged frame may as well be the one that looks like an exception
MCMostKinds == FrameKind \ {"garbled"}
\* one of each way a reception can end: success, early, too long, never valid
MCFewKinds == {"data", "exception", "garbled_code"}
=============================================================================
