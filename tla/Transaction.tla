---------------------------- MODULE Transaction ----------------------------
(***************************************************************************)
(* transaction.h: one Modbus RTU request together with the answer received *)
(* for it.  A Transaction object is a record; its methods are operators    *)
(* that return a truth value or the record after the call.                 *)
(*                                                                         *)
(* Bytes are kept to what the client's decisions depend on.  A byte on the *)
(* serial line names the answer frame it is part of and its position in    *)
(* it.  That decides whether the address byte is the addressed motor's,    *)
(* whether the function code byte has its high bit (0x80) set and whether  *)
(* a reception is one undamaged frame, which is when its CRC is correct.   *)
(***************************************************************************)
EXTENDS Integers, Sequences

CONSTANTS
    MaxRetries,       \* conclude_transaction retries while num_retries < 5
    ExceptionLength   \* bytes of an exception response, 5 in transaction.h

ASSUME RetryAssumption == MaxRetries \in Nat
ASSUME ExceptionLengthAssumption == ExceptionLength \in Nat /\ ExceptionLength >= 2

-----------------------------------------------------------------------------
\* An answer frame.  "data" is the answer asked for and "exception" the
\* motor's refusal; "garbled" arrives damaged, "garbled_code" damaged with the
\* high bit of the function code set, and "stranger" bears another address.
FrameKind == {"data", "exception", "garbled", "garbled_code", "stranger"}

\* The attempt a frame answers: the request's number and its num_retries.
Attempt == [id : Nat, retries : Nat]

Byte == [kind : FrameKind, of : Attempt, length : Nat, pos : Nat]

\* Bits of reception_validity (error_id).
ErrorId == {"INTERCHAR_TIMEOUT_ERROR", "RESPONSE_TIMEOUT_ERROR",
            "UNEXPECTED_RESPONDER", "CRC_ERROR"}

\* TRANSMIT_STATE; dequeued marks a copy that has left the queue, where
\* nothing looks at the mark again.
TransmitState == {"unused", "queued", "sent", "ready_to_process"}

Transaction ==
    [id        : Nat,                \* numbers the requests, a retry keeps it
     important : BOOLEAN,
     broadcast : BOOLEAN,            \* tx_buffer[0] = 0
     length    : Int,                \* reception_length, -1 when unknown
     retries   : Nat,                \* num_retries
     unsent    : BOOLEAN,            \* bytes_left_to_send() > 0
     state     : TransmitState,      \* my_state
     rx        : Seq(Byte),          \* rx_buffer[0 .. rx_buffer_size - 1]
     failure   : SUBSET ErrorId]     \* reception_validity

\* What a caller hands over: the request is loaded and has seen no answer.
Request == [important : BOOLEAN, broadcast : BOOLEAN, length : Int]

load_transmission_data(n, r) ==
    [id |-> n, important |-> r.important, broadcast |-> r.broadcast,
     length |-> r.length, retries |-> 0, unsent |-> TRUE,
     state |-> "unused", rx |-> << >>, failure |-> {}]

\* Mutant: the retry keeps the transmission index of the failed transaction.
generate_retry_KeepsIndex(t) ==
    [t EXCEPT !.important = TRUE, !.retries = @ + 1,
              !.state = "unused", !.rx = << >>, !.failure = {}]

\* The copy conclude_transaction queues after a failure: the same frame, sent
\* from its first byte, with an empty reception.
generate_retry(t) ==
    [t EXCEPT !.important = TRUE, !.retries = @ + 1, !.unsent = TRUE,
              !.state = "unused", !.rx = << >>, !.failure = {}]

AttemptOf(t) == [id |-> t.id, retries |-> t.retries]

-----------------------------------------------------------------------------
load_reception(t, bytes) == [t EXCEPT !.rx = @ \o bytes]

HighBit(b) == b.pos >= 2 /\ b.kind \in {"exception", "garbled_code"}

is_error_response(t) == Len(t.rx) >= 2 /\ HighBit(t.rx[2])

\* Mutant: the expected length has to be met exactly.
received_expected_Exactly(t) ==
    \/ Len(t.rx) = t.length
    \/ is_error_response(t) /\ Len(t.rx) >= ExceptionLength

received_expected_number_of_bytes(t) ==
    \/ Len(t.rx) >= t.length
    \/ is_error_response(t) /\ Len(t.rx) >= ExceptionLength

is_expected_length_known(t) == t.length # -1

\* rx_buffer is zeroed, so an empty reception "comes from" address 0.
FromAddressed(t) ==
    IF t.rx = << >> THEN t.broadcast
    ELSE ~t.broadcast /\ t.rx[1].pos = 1 /\ t.rx[1].kind # "stranger"

\* The reception is one whole undamaged frame.
check_rx_buffer_crc(t) ==
    /\ Len(t.rx) >= 2
    /\ t.rx[1].kind \notin {"garbled", "garbled_code"}
    /\ Len(t.rx) = t.rx[1].length
    /\ \A i \in 1 .. Len(t.rx) : t.rx[i] = [t.rx[1] EXCEPT !.pos = i]

\* invalidate for each of errors; for none of them it is mark_finished.
invalidate(t, errors) ==
    [t EXCEPT !.failure = @ \cup errors, !.state = "ready_to_process"]

\* Mutant: a wrong CRC sets a bit that no failure is reported for.
ResponseErrors_WrongBit(t) ==
    (IF FromAddressed(t) THEN {} ELSE {"UNEXPECTED_RESPONDER"})
        \cup (IF check_rx_buffer_crc(t) THEN {} ELSE {"R_OVERRUN_ERROR"})

ResponseErrors(t) ==
    (IF FromAddressed(t) THEN {} ELSE {"UNEXPECTED_RESPONDER"})
        \cup (IF check_rx_buffer_crc(t) THEN {} ELSE {"CRC_ERROR"})

validate_response(t) ==
    IF ResponseErrors(t) = {} /\ t.failure # {} THEN t
    ELSE invalidate(t, ResponseErrors(t))

is_reception_valid(t) == t.failure = {}

\* The reception that conclude_transaction takes for a success.
Succeeded(t) == is_reception_valid(t) /\ ~is_error_response(t)

\* Mutants: one retry too many; retries whatever came back.
needs_retry_OneMore(t) ==
    ~Succeeded(t) /\ t.important /\ t.retries <= MaxRetries
needs_retry_Always(t) == t.important /\ t.retries < MaxRetries

needs_retry(t) == ~Succeeded(t) /\ t.important /\ t.retries < MaxRetries
=============================================================================
