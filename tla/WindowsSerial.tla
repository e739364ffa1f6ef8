---------------------------- MODULE WindowsSerial ----------------------------
(***************************************************************************)
(* windows_serial_interface.h: the serial interface on overlapped Windows  *)
(* I/O.  The calling thread queues bytes, starts writes and takes what was *)
(* read; a backend thread polls for completed operations and keeps one     *)
(* read of one byte outstanding.  A call takes light_mutex and then        *)
(* backend_thread_mutex, and is one step under both; the backend holds     *)
(* backend_thread_mutex during an iteration and passes light_mutex after   *)
(* it.  Who holds a mutex is a matter of where the two threads are.        *)
(***************************************************************************)
EXTENDS Integers, Sequences

CONSTANTS MaxOpens, MaxBytes    \* bytes each way

ASSUME WindowsAssumption == MaxOpens \in Nat /\ MaxBytes \in Nat

VARIABLES
    pc,                 \* what the calling thread does next
    backend,            \* what the backend thread does next
    run_backend_thread,
    serial_success,
    sendBuffer,
    write_in_progress,
    writing,            \* what an outstanding write sends: a set of at most one
    rcvBuf,
    read_in_progress,
    read_overlapped,    \* of the reads: whether it shows one completed, and well
    reads,              \* the number of outstanding reads
    readCStyleBuffer,   \* the one byte the reads share
    line,               \* bytes the port has for the program
    queued, wire,       \* history: bytes queued; those written, or dropped by
                        \* the open, which clears the buffers
    arrived, received,  \* history: bytes the reads got; those the caller took,
                        \* or that the open dropped
    opens,              \* history: how often the port was opened
    stale,              \* history: it was opened with read_in_progress still set
    faulty              \* history: an operation failed since; at most one does

writeVars == << sendBuffer, write_in_progress, writing, queued, wire >>
opVars == << read_in_progress, read_overlapped, reads, readCStyleBuffer >>
readVars == << rcvBuf, opVars, line, arrived >>
openVars == << run_backend_thread, serial_success, opens, stale >>
vars == << pc, backend, writeVars, readVars, received, openVars, faulty >>

Completed(ok) == [completed |-> TRUE, ok |-> ok]
Pending == [completed |-> FALSE, ok |-> FALSE]

\* The backend thread is between locking and unlocking its mutex.
BackendLocked == backend \in {"read", "complete", "initiate"}

Calls == {"send_byte", "tx_enable", "receive_byte"}

\* The calling thread holds light_mutex; backend_thread_mutex comes next.
LightLocked == pc \in Calls

-----------------------------------------------------------------------------
(* Reads, by the backend thread or by the open that starts them.           *)

\* initiate_read's reset and ReadFile: the read is pending, it was completed
\* at once, or it could not be started.
ReadOutcome == {"pending", "at_once", "error"}

ReadFile(outcome) ==
    \/ /\ outcome = "pending"
       /\ reads' = reads + 1 /\ read_overlapped' = Pending
       /\ UNCHANGED << readCStyleBuffer, line, arrived, faulty >>
    \/ /\ outcome = "at_once"
       /\ line # << >> /\ line' = Tail(line)
       /\ readCStyleBuffer' = Head(line) /\ arrived' = Append(arrived, Head(line))
       /\ read_overlapped' = Completed(TRUE)
       /\ UNCHANGED << reads, faulty >>
    \/ /\ outcome = "error"
       /\ ~faulty /\ faulty' = TRUE
       /\ UNCHANGED << reads, read_overlapped, readCStyleBuffer, line, arrived >>

\* GetOverlappedResult waits.  It leaves the number of bytes alone when the
\* read failed, and handle_read_complete uses it all the same.
GetOverlappedResult ==
    /\ read_overlapped.completed
    /\ \/ rcvBuf' = Append(rcvBuf, readCStyleBuffer)
       \/ ~read_overlapped.ok /\ UNCHANGED rcvBuf

-----------------------------------------------------------------------------
(* The calling thread.                                                     *)

LockLight(call) ==
    /\ pc' = call
    /\ UNCHANGED << backend, writeVars, readVars, received, openVars, faulty >>

call_send_byte ==
    /\ pc = "idle" /\ Len(queued) < MaxBytes
    /\ LockLight("send_byte")

\* Mutant: a write in progress is no reason to leave.
call_tx_enable_Always ==
    /\ pc = "idle" /\ serial_success
    /\ LockLight("tx_enable")

\* With a write in progress tx_enable leaves the bytes where they are.
call_tx_enable ==
    /\ pc = "idle" /\ serial_success /\ ~write_in_progress
    /\ LockLight("tx_enable")

\* The caller asks ready_to_receive first; nobody else takes bytes.
call_receive_byte ==
    /\ pc = "idle" /\ rcvBuf # << >> /\ ~BackendLocked
    /\ LockLight("receive_byte")

UnderBothLocks(call) == pc = call /\ ~BackendLocked

send_byte ==
    /\ UnderBothLocks("send_byte") /\ pc' = "idle"
    /\ queued' = Append(queued, Len(queued) + 1)
    /\ sendBuffer' = Append(sendBuffer, Len(queued) + 1)
    /\ UNCHANGED << write_in_progress, writing, wire >>
    /\ UNCHANGED << backend, readVars, received, openVars, faulty >>

\* initiate_write: pending, completed at once (handle_write_complete), error.
WriteFile(bytes) ==
    \/ /\ writing' = {bytes} /\ write_in_progress' = TRUE
       /\ UNCHANGED << wire, faulty >>
    \/ /\ wire' = wire \o bytes /\ write_in_progress' = FALSE
       /\ UNCHANGED << writing, faulty >>
    \/ /\ ~faulty /\ faulty' = TRUE
       /\ UNCHANGED << wire, writing, write_in_progress >>

tx_enable ==
    /\ UnderBothLocks("tx_enable") /\ pc' = "idle"
    /\ WriteFile(sendBuffer)
    /\ sendBuffer' = << >>
    /\ UNCHANGED << queued, backend, readVars, received, openVars >>

\* Mutant: the byte is not popped.
receive_byte_KeepsByte ==
    /\ UnderBothLocks("receive_byte") /\ pc' = "idle"
    /\ received' = Append(received, Head(rcvBuf))
    /\ UNCHANGED << readVars, backend, writeVars, openVars, faulty >>

receive_byte ==
    /\ UnderBothLocks("receive_byte") /\ pc' = "idle"
    /\ received' = Append(received, Head(rcvBuf)) /\ rcvBuf' = Tail(rcvBuf)
    /\ UNCHANGED << opVars, line, arrived >>
    /\ UNCHANGED << backend, writeVars, openVars, faulty >>

\* open_serial_port up to the start of the thread.  It leaves an open port
\* as it is, whatever its number, and it may not get the port.
open_serial_port ==
    /\ pc = "idle" /\ ~serial_success /\ opens < MaxOpens
    /\ pc' = "initiate" /\ backend' = "loop"
    /\ serial_success' = TRUE /\ run_backend_thread' = TRUE
    /\ opens' = opens + 1 /\ stale' = read_in_progress /\ faulty' = FALSE
    /\ sendBuffer' = << >> /\ rcvBuf' = << >>
    /\ wire' = queued /\ received' = arrived
    /\ UNCHANGED << write_in_progress, writing, queued, opVars, line, arrived >>

\* Its first read, which it starts without a lock.
open_initiate_read ==
    /\ pc = "initiate"
    /\ \E outcome \in ReadOutcome :
        /\ ReadFile(outcome)
        /\ pc' = CASE outcome = "pending" -> "pending"
                   [] outcome = "at_once" -> "complete"
                   [] outcome = "error" -> "idle"
    /\ UNCHANGED << rcvBuf, read_in_progress, received, backend, writeVars, openVars >>

open_read_pending ==
    /\ pc = "pending" /\ pc' = "idle"
    /\ read_in_progress' = TRUE
    /\ UNCHANGED << rcvBuf, read_overlapped, reads, readCStyleBuffer, line, arrived >>
    /\ UNCHANGED << backend, writeVars, received, openVars, faulty >>

open_handle_read_complete ==
    /\ pc = "complete" /\ pc' = "initiate"
    /\ read_in_progress' = FALSE
    /\ GetOverlappedResult
    /\ UNCHANGED << read_overlapped, reads, readCStyleBuffer, line, arrived >>
    /\ UNCHANGED << backend, writeVars, received, openVars, faulty >>

close_stop_thread ==
    /\ pc = "idle" /\ pc' = "join"
    /\ run_backend_thread' = FALSE
    /\ UNCHANGED << serial_success, opens, stale >>
    /\ UNCHANGED << backend, writeVars, readVars, received, faulty >>

\* After the join and at most 50 ms for each operation: closing the handle
\* aborts what is outstanding and drops what the port has.
close_handles ==
    /\ pc = "join" /\ backend = "none" /\ pc' = "idle"
    /\ serial_success' = FALSE
    /\ writing' = {} /\ reads' = 0 /\ line' = << >>
    /\ read_overlapped' = IF reads > 0 THEN Completed(FALSE) ELSE read_overlapped
    /\ UNCHANGED << sendBuffer, write_in_progress, queued, wire >>
    /\ UNCHANGED << rcvBuf, read_in_progress, readCStyleBuffer, arrived, received >>
    /\ UNCHANGED << backend, run_backend_thread, opens, stale, faulty >>

BeginCall ==
    \/ call_send_byte \/ call_tx_enable \/ call_receive_byte
    \/ open_serial_port \/ close_stop_thread

ContinueCall ==
    \/ send_byte \/ tx_enable \/ receive_byte
    \/ open_initiate_read \/ open_read_pending \/ open_handle_read_complete
    \/ close_handles

-----------------------------------------------------------------------------
(* The backend thread.                                                     *)

Goto(from, to) == backend = from /\ backend' = to

leave_loop ==
    /\ ~run_backend_thread /\ Goto("loop", "none")
    /\ UNCHANGED << pc, writeVars, readVars, received, openVars, faulty >>

\* With the mutex locked; a completed write is over, well done or not.
handle_write_complete ==
    /\ run_backend_thread /\ Goto("loop", "read")
    /\ write_in_progress' = (write_in_progress /\ writing # {})
    /\ UNCHANGED << sendBuffer, writing, queued, wire >>
    /\ UNCHANGED << pc, readVars, received, openVars, faulty >>

ReadDone == read_in_progress /\ read_overlapped.completed

\* read_in_progress is reset on the way into handle_read_complete.
check_read ==
    /\ Goto("read", IF ReadDone THEN "complete" ELSE "gate")
    /\ read_in_progress' = (read_in_progress /\ ~ReadDone)
    /\ UNCHANGED << rcvBuf, read_overlapped, reads, readCStyleBuffer, line, arrived >>
    /\ UNCHANGED << pc, writeVars, received, openVars, faulty >>

handle_read_complete ==
    /\ Goto("complete", IF run_backend_thread THEN "initiate" ELSE "gate")
    /\ GetOverlappedResult
    /\ UNCHANGED << opVars, line, arrived >>
    /\ UNCHANGED << pc, writeVars, received, openVars, faulty >>

\* Mutant: the next read is left to the next completed one.
initiate_read_Once ==
    /\ Goto("initiate", "gate")
    /\ UNCHANGED << rcvBuf, opVars, line, arrived, faulty >>
    /\ UNCHANGED << pc, writeVars, received, openVars >>

initiate_read ==
    /\ backend = "initiate"
    /\ \E outcome \in ReadOutcome :
        /\ ReadFile(outcome)
        /\ backend' = IF outcome = "at_once" THEN "complete" ELSE "gate"
        /\ read_in_progress' = (read_in_progress \/ outcome = "pending")
    /\ UNCHANGED << rcvBuf, pc, writeVars, received, openVars >>

\* Mutant: the loop goes on without regard to light_mutex.
pass_light_mutex_NoLock ==
    /\ Goto("gate", "loop")
    /\ UNCHANGED << pc, writeVars, readVars, received, openVars, faulty >>

\* After unlocking: light_mutex is locked and unlocked with nothing between.
pass_light_mutex ==
    /\ Goto("gate", "loop") /\ ~LightLocked
    /\ UNCHANGED << pc, writeVars, readVars, received, openVars, faulty >>

BackendThread ==
    \/ leave_loop \/ handle_write_complete \/ check_read
    \/ handle_read_complete \/ initiate_read \/ pass_light_mutex

-----------------------------------------------------------------------------
(* The port, and what the motor sends.                                     *)

write_completes ==
    /\ \E bytes \in writing : wire' = wire \o bytes
    /\ writing' = {}
    /\ UNCHANGED << sendBuffer, write_in_progress, queued >>
    /\ UNCHANGED << pc, backend, readVars, received, openVars, faulty >>

write_fails ==
    /\ writing # {} /\ writing' = {} /\ ~faulty /\ faulty' = TRUE
    /\ UNCHANGED << sendBuffer, write_in_progress, queued, wire >>
    /\ UNCHANGED << pc, backend, readVars, received, openVars >>

read_completes ==
    /\ reads > 0 /\ line # << >>
    /\ reads' = reads - 1 /\ line' = Tail(line)
    /\ readCStyleBuffer' = Head(line) /\ arrived' = Append(arrived, Head(line))
    /\ read_overlapped' = Completed(TRUE)
    /\ UNCHANGED << rcvBuf, read_in_progress, received >>
    /\ UNCHANGED << pc, backend, writeVars, openVars, faulty >>

read_fails ==
    /\ reads > 0 /\ reads' = reads - 1 /\ ~faulty /\ faulty' = TRUE
    /\ read_overlapped' = Completed(FALSE)
    /\ UNCHANGED << rcvBuf, read_in_progress, readCStyleBuffer, line, arrived >>
    /\ UNCHANGED << pc, backend, writeVars, received, openVars >>

motor_sends ==
    /\ serial_success /\ Len(arrived) + Len(line) < MaxBytes
    /\ line' = Append(line, Len(arrived) + Len(line) + 1)
    /\ UNCHANGED << rcvBuf, opVars, arrived, received >>
    /\ UNCHANGED << pc, backend, writeVars, openVars, faulty >>

-----------------------------------------------------------------------------
Init ==
    /\ pc = "idle" /\ backend = "none"
    /\ run_backend_thread = FALSE /\ serial_success = FALSE
    /\ sendBuffer = << >> /\ write_in_progress = FALSE /\ writing = {}
    /\ rcvBuf = << >> /\ read_in_progress = FALSE
    /\ read_overlapped = Completed(TRUE) /\ reads = 0 /\ readCStyleBuffer = 0
    /\ line = << >>
    /\ queued = << >> /\ wire = << >> /\ arrived = << >> /\ received = << >>
    /\ opens = 0 /\ stale = FALSE /\ faulty = FALSE

Next ==
    \/ BeginCall \/ ContinueCall \/ BackendThread
    \/ write_completes \/ write_fails \/ read_completes \/ read_fails
    \/ motor_sends

Spec == Init /\ [][Next]_vars

\* Both threads run and the port does what it is asked to; nobody has to
\* begin a call, and the motor may be silent.  The calling thread has
\* light_mutex for a call now and then, so the backend gets it in the end;
\* of backend_thread_mutex, which an iteration holds all along, no such
\* thing is assumed.
FairSpec ==
    /\ Spec
    /\ WF_vars(ContinueCall) /\ WF_vars(BackendThread)
    /\ SF_vars(pass_light_mutex)
    /\ WF_vars(write_completes) /\ WF_vars(read_completes)

-----------------------------------------------------------------------------
(* Properties.                                                             *)

SeqRange(s) == {s[i] : i \in DOMAIN s}

Outstanding == IF writing = {} THEN << >> ELSE CHOOSE bytes \in writing : TRUE

\* What was queued since the open is written in the order it was queued,
\* nothing twice and nothing left out, until an operation fails.
WrittenInOrder ==
    serial_success /\ ~faulty => wire \o Outstanding \o sendBuffer = queued

\* The open found no trace of an earlier read, and nothing has failed.
Healthy == ~stale /\ ~faulty

\* What the port gave since the open reaches the caller in order, and only
\* the last byte may not be in rcvBuf yet.
ReadInOrder ==
    Healthy =>
        LET taken == received \o rcvBuf IN
        /\ Len(arrived) - 1 <= Len(taken) /\ Len(taken) <= Len(arrived)
        /\ taken = SubSeq(arrived, 1, Len(taken))

\* Every call returns, on a port that was not opened with read_in_progress set.
FreshCallReturns == pc # "idle" /\ ~stale ~> pc = "idle" \/ stale

\* A byte that the port has reaches rcvBuf, and ready_to_send becomes true
\* again after a write, unless an operation fails or the port is closed.
TransfersEnd ==
    /\ \A n \in 1..MaxBytes :
           n \in SeqRange(line) /\ Healthy
               ~> n \in SeqRange(received \o rcvBuf) \/ ~Healthy \/ ~run_backend_thread
    /\ write_in_progress /\ ~stale ~> ~write_in_progress \/ ~run_backend_thread \/ stale
=============================================================================
