----------------------------- MODULE SerialASIO -----------------------------
(***************************************************************************)
(* SerialASIO.h: the serial interface on top of asio.  The caller queues   *)
(* the bytes of a request, starts the write in tx_enable and takes what    *)
(* was read; a second thread runs the handlers of the write and of the two *)
(* reads that follow it, one for the first two bytes of an answer and one  *)
(* for the rest.  Steps are the sections under one of the two locks and    *)
(* the statements outside of them.                                         *)
(***************************************************************************)
EXTENDS Integers, Sequences, Functions

CONSTANTS AnswerLength, ExceptionLength, MaxRequests

HeaderLength == 2

ASSUME SerialAssumption ==
    /\ {AnswerLength, ExceptionLength, MaxRequests} \subseteq Nat
    /\ HeaderLength < ExceptionLength /\ ExceptionLength <= AnswerLength

VARIABLES
    pc,             \* what the calling thread does next
    send_data,      \* for each byte queued, the number of its request
    read_data,      \* bytes read and not yet taken
    bytes_to_read,
    read_buffer,    \* where the reads put their bytes
    write,          \* what an outstanding write sends: a set of at most one
    reads,          \* the outstanding reads, in numbered places
    posted,         \* completed operations whose handlers have not run
    io,             \* "header" inside the handler of the first read
    notified,       \* the wait in receive_bytes_blocking was notified
    line,           \* bytes the port has or will have for the program
    motor,          \* requests the motor has and has not answered
    current,        \* history: number of the last request begun
    quiet,          \* history: nothing was under way when it began
    answer,         \* history: the motor's answer to it
    collected       \* history: what the caller took since its tx_enable

callerVars == << pc, notified, collected >>
requestVars == << current, quiet >>
portVars == << line, motor, answer >>
opVars == << write, reads, read_buffer >>
dataVars == << send_data, read_data, bytes_to_read >>
ioVars == << posted, io >>
vars == << callerVars, requestVars, portVars, opVars, dataVars, ioVars >>

FrameKind == {"data", "exception"}
Byte == [of : 0..MaxRequests, kind : FrameKind, pos : 0..AnswerLength]
NoByte == [of |-> 0, kind |-> "data", pos |-> 0]

FrameLength(kind) == IF kind = "data" THEN AnswerLength ELSE ExceptionLength
Frame(n, kind) ==
    [p \in 1..FrameLength(kind) |-> [of |-> n, kind |-> kind, pos |-> p]]

\* The two bytes that stand for the frame of request n.
Request(n) == << n, n >>

\* A read of `want` bytes to read_buffer[first] and on.  When it has a part
\* of them the io thread starts it again; cancel does not reach it meanwhile.
Read(first, want) ==
    [first |-> first, want |-> want, got |-> 0, resuming |-> FALSE]

Done(op, want) == [op |-> op, want |-> want]

Quiet ==
    /\ posted = << >> /\ io = "idle" /\ write = {}
    /\ line = << >> /\ motor = << >>
    /\ \A i \in DOMAIN reads : ~reads[i].resuming

\* reads with one more in a free place: there is at most one a request.
Free == CHOOSE n \in 1..MaxRequests : n \notin DOMAIN reads
With(read) ==
    [n \in DOMAIN reads \cup {Free} |-> IF n = Free THEN read ELSE reads[n]]

Without(n) == Restrict(reads, DOMAIN reads \ {n})

-----------------------------------------------------------------------------
(* The calling thread: the bytes of a request, then tx_enable.             *)

\* An outstanding write may still use memory that send_data has outgrown;
\* what it sends then is nobody's request.
QueueByte(n) ==
    /\ send_data' = Append(send_data, n)
    /\ \/ UNCHANGED write
       \/ write # {} /\ write' = {<< >>}
    /\ UNCHANGED << reads, read_buffer, read_data, bytes_to_read >>
    /\ UNCHANGED << portVars, ioVars, notified, collected >>

send_first_byte ==
    /\ pc = "idle" /\ current < MaxRequests
    /\ pc' = "send"
    /\ current' = current + 1 /\ quiet' = Quiet
    /\ QueueByte(current')

send_last_byte ==
    /\ pc = "send" /\ pc' = "expect"
    /\ QueueByte(current)
    /\ UNCHANGED requestVars

tx_enable_expect ==
    /\ pc = "expect" /\ pc' = "cancel"
    /\ bytes_to_read' = AnswerLength
    /\ UNCHANGED << notified, collected, requestVars, portVars, opVars,
                    send_data, read_data, ioVars >>

\* Mutant: what was read for the previous request is left to run.
tx_enable_cancel_WriteOnly ==
    /\ pc = "cancel" /\ pc' = "clear"
    /\ write' = {}
    /\ posted' = posted \o
           (IF write = {} THEN << >> ELSE << Done("aborted_write", 0) >>)
    /\ UNCHANGED << notified, collected, requestVars, portVars, reads,
                    read_buffer, dataVars, io >>

\* The handler of a cancelled read returns at once; that of a cancelled
\* write clears send_data first.  Completed operations are not undone.
tx_enable_cancel ==
    /\ pc = "cancel" /\ pc' = "clear"
    /\ reads' = Restrict(reads, {n \in DOMAIN reads : reads[n].resuming})
    /\ write' = {}
    /\ posted' = posted \o
           (IF write = {} THEN << >> ELSE << Done("aborted_write", 0) >>)
    /\ UNCHANGED << notified, collected, requestVars, portVars, read_buffer,
                    dataVars, io >>

\* Mutant: what an earlier answer left is kept.
tx_enable_clear_KeepsData ==
    /\ pc = "clear" /\ pc' = "write"
    /\ collected' = << >> /\ answer' = << >>
    /\ UNCHANGED << notified, requestVars, line, motor, opVars, dataVars, ioVars >>

tx_enable_clear ==
    /\ pc = "clear" /\ pc' = "write"
    /\ read_data' = << >>
    /\ collected' = << >> /\ answer' = << >>
    /\ UNCHANGED << notified, requestVars, line, motor, opVars, send_data,
                    bytes_to_read, ioVars >>

tx_enable_write ==
    /\ pc = "write" /\ pc' = "idle"
    /\ write' = {send_data}
    /\ UNCHANGED << notified, collected, requestVars, portVars, reads,
                    read_buffer, dataVars, ioVars >>

-----------------------------------------------------------------------------
(* The calling thread: receive_byte after ready_to_receive, and            *)
(* receive_bytes_blocking, whose wait may also end early.                  *)

receive_byte ==
    /\ pc = "idle" /\ read_data # << >>
    /\ collected' = Append(collected, Head(read_data))
    /\ read_data' = Tail(read_data)
    /\ UNCHANGED << pc, notified, requestVars, portVars, opVars, send_data,
                    bytes_to_read, ioVars >>

TakeAll ==
    /\ collected' = collected \o read_data /\ read_data' = << >>
    /\ UNCHANGED << requestVars, portVars, opVars, send_data, bytes_to_read, ioVars >>

receive_bytes_at_once ==
    /\ pc = "idle" /\ Len(read_data) >= bytes_to_read
    /\ TakeAll /\ UNCHANGED << pc, notified >>

receive_bytes_wait ==
    /\ pc = "idle" /\ Len(read_data) < bytes_to_read
    /\ pc' = "wait" /\ notified' = FALSE
    /\ UNCHANGED << collected, requestVars, portVars, opVars, dataVars, ioVars >>

receive_bytes_notified ==
    /\ pc = "wait" /\ notified
    /\ pc' = "idle" /\ TakeAll /\ UNCHANGED notified

receive_bytes_timed_out ==
    /\ pc = "wait" /\ ~notified
    /\ pc' = "idle" /\ TakeAll /\ UNCHANGED notified

-----------------------------------------------------------------------------
(* The io thread.                                                          *)

NextHandler(ops) == io = "idle" /\ posted # << >> /\ Head(posted).op \in ops

\* Mutant: what was sent stays queued.
on_written_KeepsData ==
    /\ NextHandler({"write", "aborted_write"})
    /\ posted' = Tail(posted)
    /\ reads' = IF Head(posted).op = "write"
                THEN With(Read(1, HeaderLength)) ELSE reads
    /\ UNCHANGED << io, write, read_buffer, dataVars >>
    /\ UNCHANGED << callerVars, requestVars, portVars >>

on_written ==
    /\ NextHandler({"write", "aborted_write"})
    /\ posted' = Tail(posted)
    /\ send_data' = << >>
    /\ reads' = IF Head(posted).op = "write"
                THEN With(Read(1, HeaderLength)) ELSE reads
    /\ UNCHANGED << io, write, read_buffer, read_data, bytes_to_read >>
    /\ UNCHANGED << callerVars, requestVars, portVars >>

\* Whether bit 0x80 is set: any byte but a function code may have it.
HighBit(byte) == IF byte.pos = 2 THEN {byte.kind = "exception"} ELSE BOOLEAN

\* Mutant: an exception is waited for as if it were a whole answer.
on_header_length_Unchanged ==
    /\ NextHandler({"header"}) /\ io' = "header"
    /\ posted' = Tail(posted)
    /\ UNCHANGED << dataVars, opVars, callerVars, requestVars, portVars >>

\* outside of read_lock
on_header_length ==
    /\ NextHandler({"header"}) /\ io' = "header"
    /\ posted' = Tail(posted)
    /\ \E exception \in HighBit(read_buffer[2]) :
           bytes_to_read' = IF exception THEN ExceptionLength ELSE bytes_to_read
    /\ UNCHANGED << send_data, read_data, opVars, callerVars, requestVars, portVars >>

\* Mutant: the rest is taken to be as long as the whole.
on_header_TooMany ==
    /\ io = "header" /\ io' = "idle"
    /\ read_data' = read_data \o SubSeq(read_buffer, 1, HeaderLength)
    /\ reads' = With(Read(HeaderLength + 1, bytes_to_read))
    /\ UNCHANGED << posted, write, read_buffer, send_data, bytes_to_read >>
    /\ UNCHANGED << callerVars, requestVars, portVars >>

\* Mutant: the first part of the answer ends the caller's wait.
on_header_Notifies ==
    /\ io = "header" /\ io' = "idle"
    /\ read_data' = read_data \o SubSeq(read_buffer, 1, HeaderLength)
    /\ reads' = With(Read(HeaderLength + 1, bytes_to_read - HeaderLength))
    /\ notified' = (notified \/ pc = "wait")
    /\ UNCHANGED << posted, write, read_buffer, send_data, bytes_to_read >>
    /\ UNCHANGED << pc, collected, requestVars, portVars >>

on_header ==
    /\ io = "header" /\ io' = "idle"
    /\ read_data' = read_data \o SubSeq(read_buffer, 1, HeaderLength)
    /\ reads' = With(Read(HeaderLength + 1, bytes_to_read - HeaderLength))
    /\ UNCHANGED << posted, write, read_buffer, send_data, bytes_to_read >>
    /\ UNCHANGED << callerVars, requestVars, portVars >>

on_body ==
    /\ NextHandler({"body"})
    /\ posted' = Tail(posted)
    /\ read_data' = read_data \o
           SubSeq(read_buffer, HeaderLength + 1, HeaderLength + Head(posted).want)
    /\ notified' = (notified \/ pc = "wait")
    /\ UNCHANGED << io, opVars, send_data, bytes_to_read >>
    /\ UNCHANGED << pc, collected, requestVars, portVars >>

resume_read(i) ==
    /\ reads[i].resuming
    /\ reads' = [reads EXCEPT ![i].resuming = FALSE]
    /\ UNCHANGED << write, read_buffer, callerVars, requestVars, portVars,
                    dataVars, ioVars >>

IoThread ==
    \/ on_written \/ on_header_length \/ on_header \/ on_body
    \/ io = "idle" /\ \E i \in DOMAIN reads : resume_read(i)

-----------------------------------------------------------------------------
(* The port and the motor.                                                 *)

\* The port takes the bytes of a write; the motor understands one request.
write_completes ==
    \E bytes \in write :
        /\ write' = {}
        /\ posted' = Append(posted, Done("write", 0))
        /\ motor' = IF bytes # << >> /\ bytes = Request(bytes[1])
                    THEN Append(motor, bytes[1]) ELSE motor
        /\ UNCHANGED << reads, read_buffer, io, line, answer >>
        /\ UNCHANGED << callerVars, requestVars, dataVars >>

\* One byte of the line to one of the outstanding reads.
read_byte(i) ==
    LET r == reads[i]  finished == r.got + 1 = r.want IN
    /\ ~r.resuming /\ line # << >>
    /\ line' = Tail(line)
    /\ read_buffer' = [read_buffer EXCEPT ![r.first + r.got] = Head(line)]
    /\ reads' = IF finished THEN Without(i)
                ELSE [reads EXCEPT ![i].got = @ + 1, ![i].resuming = TRUE]
    /\ posted' = IF finished
                 THEN Append(posted, Done(IF r.first = 1 THEN "header" ELSE "body",
                                          r.want))
                 ELSE posted
    /\ UNCHANGED << io, write, motor, answer >>
    /\ UNCHANGED << callerVars, requestVars, dataVars >>

ReadByte == \E i \in DOMAIN reads : read_byte(i)

\* The motor answers the request, or a prefix of the answer gets through.
Answer ==
    /\ motor # << >>
    /\ motor' = Tail(motor)
    /\ \E kind \in FrameKind : \E length \in 0..FrameLength(kind) :
        LET bytes == SubSeq(Frame(Head(motor), kind), 1, length) IN
        /\ line' = line \o bytes
        /\ answer' = IF Head(motor) = current /\ pc \in {"idle", "wait"}
                     THEN bytes ELSE answer
    /\ UNCHANGED << callerVars, requestVars, opVars, dataVars, ioVars >>

-----------------------------------------------------------------------------
Init ==
    /\ pc = "idle" /\ notified = FALSE /\ collected = << >>
    /\ send_data = << >> /\ read_data = << >> /\ bytes_to_read = 0
    /\ read_buffer = [p \in 1..AnswerLength |-> NoByte]
    /\ write = {} /\ reads = << >> /\ posted = << >> /\ io = "idle"
    /\ line = << >> /\ motor = << >> /\ answer = << >>
    /\ current = 0 /\ quiet = TRUE

tx_enable ==
    tx_enable_expect \/ tx_enable_cancel \/ tx_enable_clear \/ tx_enable_write

Caller ==
    \/ send_first_byte \/ send_last_byte \/ tx_enable \/ receive_byte
    \/ receive_bytes_at_once \/ receive_bytes_wait
    \/ receive_bytes_notified \/ receive_bytes_timed_out

Next == Caller \/ IoThread \/ write_completes \/ ReadByte \/ Answer

Spec == Init /\ [][Next]_vars

\* The io thread runs, the port writes and delivers what it has.
FairSpec == Spec /\ WF_vars(IoThread) /\ WF_vars(write_completes) /\ WF_vars(ReadByte)

-----------------------------------------------------------------------------
(* Properties.  An exchange is quiet when nothing of an earlier one was    *)
(* under way as its first byte was queued: no handler behind, no byte on   *)
(* the line.  A read that still waits for an answer is no disturbance.     *)

SerialTypeOK ==
    /\ pc \in {"idle", "send", "expect", "cancel", "clear", "write", "wait"}
    /\ send_data \in Seq(1..MaxRequests)
    /\ read_data \in Seq(Byte) /\ line \in Seq(Byte)
    /\ answer \in Seq(Byte) /\ collected \in Seq(Byte)
    /\ bytes_to_read \in {0, AnswerLength, ExceptionLength}
    /\ read_buffer \in [1..AnswerLength -> Byte]
    /\ write \in SUBSET Seq(1..MaxRequests)
    /\ \A i \in DOMAIN reads :
        /\ reads[i].got < reads[i].want
        /\ reads[i].first + reads[i].want <= AnswerLength + 1
    /\ \A i \in DOMAIN posted :
        posted[i].op \in {"write", "aborted_write", "header", "body"}
    /\ io \in {"idle", "header"} /\ motor \in Seq(1..MaxRequests)
    /\ {notified, quiet} \subseteq BOOLEAN /\ current \in 0..MaxRequests

\* The caller has been through tx_enable's clearing for the current request.
Cleared == pc \in {"write", "idle", "wait"}

\* In a quiet exchange the caller gets bytes of the motor's answer to its
\* own request, in order, none twice and none left out.
OwnBytes ==
    quiet /\ Cleared =>
        LET taken == collected \o read_data IN
        /\ Len(taken) <= Len(answer)
        /\ taken = SubSeq(answer, 1, Len(taken))

\* A quiet exchange writes its own request, and all of it.
WritesOwnRequest == quiet => write \subseteq {Request(current)}

\* Who uses read_buffer: the reads, and their handlers to run or running.
BufferUsers ==
    {<< "read", n >> : n \in DOMAIN reads}
    \cup {<< "posted", i >> : i \in {i \in DOMAIN posted :
                                       posted[i].op \in {"header", "body"}}}
    \cup {<< "running", i >> : i \in IF io = "header" THEN {1} ELSE {}}

\* In a quiet exchange read_buffer has one user: a read, or the handler of one.
BufferHasOneUser ==
    quiet /\ Cleared => \A user, other \in BufferUsers : user = other

\* In a quiet exchange a notified wait returns with the whole answer.
NotifiedMeansWhole ==
    [][receive_bytes_notified /\ quiet =>
           Len(collected') >= bytes_to_read /\ collected' = answer]_vars

Whole == answer # << >> /\ Len(answer) = FrameLength(answer[1].kind)

\* Once the motor has answered in full in a quiet exchange, the caller has
\* the answer in the end, unless it begins another request first.
AnswerDelivered ==
    \A n \in 1..MaxRequests :
        (quiet /\ current = n /\ pc \in {"idle", "wait"} /\ Whole)
            ~> (current # n \/ collected \o read_data = answer)

\* tx_enable writes all bytes that were queued for it (serial_interface.h).
QueuedBytesAreWritten ==
    [][tx_enable_write =>
           \A bytes \in write' :
               Len(SelectSeq(bytes, LAMBDA n : n = current)) = Len(Request(current))]_vars
=============================================================================
