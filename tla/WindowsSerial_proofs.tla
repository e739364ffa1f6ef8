------------------------ MODULE WindowsSerial_proofs ------------------------
(***************************************************************************)
(* Proofs about WindowsSerial, for every number of bytes and of opens.     *)
(***************************************************************************)
EXTENDS WindowsSerial, SequenceTheorems, TLAPS

-----------------------------------------------------------------------------
(* The inductive invariant, in four parts.                                 *)

\* Types: of the two threads, of what is sent, and of what is received.
ThreadTypes ==
    /\ pc \in Calls \cup {"idle", "initiate", "pending", "complete", "join"}
    /\ backend \in {"none", "loop", "gate", "read", "complete", "initiate"}
    /\ run_backend_thread \in BOOLEAN /\ serial_success \in BOOLEAN
    /\ stale \in BOOLEAN /\ faulty \in BOOLEAN /\ opens \in 0..MaxOpens

WriteTypes ==
    /\ sendBuffer \in Seq(1..MaxBytes) /\ writing \subseteq Seq(1..MaxBytes)
    /\ queued \in Seq(1..MaxBytes) /\ wire \in Seq(1..MaxBytes)
    /\ write_in_progress \in BOOLEAN

ReadTypes ==
    /\ line \in Seq(1..MaxBytes) /\ arrived \in Seq(1..MaxBytes)
    /\ rcvBuf \in Seq(0..MaxBytes) /\ received \in Seq(0..MaxBytes)
    /\ reads \in Nat /\ readCStyleBuffer \in 0..MaxBytes
    /\ read_overlapped \in {Pending, Completed(TRUE), Completed(FALSE)}
    /\ read_in_progress \in BOOLEAN

WindowsTypeOK == ThreadTypes /\ WriteTypes /\ ReadTypes

Opening == pc \in {"initiate", "pending", "complete"}
Completing == backend \in {"complete", "initiate"}

\* What a call found when it began still holds when it has its locks.
CallInv ==
    /\ pc = "send_byte" => Len(queued) < MaxBytes
    /\ pc = "tx_enable" => serial_success
    /\ pc = "receive_byte" => rcvBuf # << >>

\* On a closed port there is nothing outstanding and no backend thread.
ClosedInv ==
    /\ Opening => serial_success
    /\ ~serial_success => backend = "none" /\ reads = 0 /\ writing = {}

\* A write is outstanding only while it is in progress, and there is one.
WriteInv ==
    /\ writing # {} => write_in_progress
    /\ writing = {} \/ \E bytes \in Seq(1..MaxBytes) : writing = {bytes}
    /\ pc = "tx_enable" => ~write_in_progress
    /\ WrittenInOrder

\* Where the last byte is that the port gave.
Taken == received \o rcvBuf
NoRead == reads = 0 /\ arrived = Taken
Waiting == reads = 1 /\ read_overlapped = Pending /\ arrived = Taken
Ahead ==
    /\ reads = 0 /\ read_overlapped = Completed(TRUE)
    /\ arrived = Append(Taken, readCStyleBuffer)
Aborted ==
    /\ ~serial_success /\ reads = 0 /\ arrived = Taken
    /\ read_overlapped = Completed(FALSE)

\* There is one read at a time, and whoever starts or ends it has
\* read_in_progress reset; otherwise the flag says whether there is one.
OneRead ==
    /\ pc = "initiate" \/ backend = "initiate" => NoRead
    /\ pc = "pending" => Waiting \/ Ahead
    /\ pc = "complete" \/ backend = "complete" => Ahead
    /\ Opening \/ Completing => ~read_in_progress
    /\ ~(Opening /\ Completing)
    /\ ~Opening /\ ~Completing =>
           IF read_in_progress THEN Waiting \/ Ahead \/ Aborted ELSE NoRead

ReadInv == Healthy => OneRead

WindowsInv == WindowsTypeOK /\ CallInv /\ ClosedInv /\ WriteInv /\ ReadInv

-----------------------------------------------------------------------------
(* Sequences.                                                              *)

LEMMA OutstandingOne ==
    ASSUME NEW bytes, writing = {bytes}
    PROVE  Outstanding = bytes
  BY DEF Outstanding

\* Taking a byte from rcvBuf does not change what was taken and what waits.
LEMMA TakeOne ==
    ASSUME NEW S, NEW s \in Seq(S), NEW t \in Seq(S), t # << >>
    PROVE  Append(s, Head(t)) \o Tail(t) = s \o t
  <1>1. /\ Head(t) \in S /\ Tail(t) \in Seq(S) /\ Len(Tail(t)) = Len(t) - 1
        /\ Len(t) \in Nat /\ Len(t) > 0 /\ Len(s) \in Nat
        /\ \A i \in 1..Len(Tail(t)) : Tail(t)[i] = t[i + 1]
        /\ Head(t) = t[1]
    BY HeadTailProperties, LenProperties, EmptySeq
  <1>2. /\ Append(s, Head(t)) \in Seq(S) /\ Len(Append(s, Head(t))) = Len(s) + 1
        /\ \A i \in 1..Len(s) : Append(s, Head(t))[i] = s[i]
        /\ Append(s, Head(t))[Len(s) + 1] = Head(t)
    BY <1>1, AppendProperties
  <1> DEFINE l == Append(s, Head(t)) \o Tail(t)
             r == s \o t
  <1>3. /\ l \in Seq(S) /\ Len(l) = Len(s) + Len(t)
        /\ \A i \in 1..Len(l) :
               l[i] = IF i <= Len(s) + 1 THEN Append(s, Head(t))[i]
                      ELSE Tail(t)[i - (Len(s) + 1)]
    BY <1>1, <1>2, ConcatProperties
  <1>4. /\ r \in Seq(S) /\ Len(r) = Len(s) + Len(t)
        /\ \A i \in 1..Len(r) : r[i] = IF i <= Len(s) THEN s[i] ELSE t[i - Len(s)]
    BY <1>1, ConcatProperties
  <1>5. ASSUME NEW i \in 1..Len(l) PROVE l[i] = r[i]
    <2> HIDE DEF l, r
    <2>1. CASE i <= Len(s)
      BY <2>1, <1>1, <1>2, <1>3, <1>4
    <2>2. CASE i = Len(s) + 1
      BY <2>2, <1>1, <1>2, <1>3, <1>4
    <2>3. CASE i > Len(s) + 1
      <3>1. i - (Len(s) + 1) \in 1..Len(Tail(t))
        BY <2>3, <1>1, <1>3
      <3>2. Tail(t)[i - (Len(s) + 1)] = t[(i - (Len(s) + 1)) + 1]
        BY <3>1, <1>1
      <3>3. (i - (Len(s) + 1)) + 1 = i - Len(s)
        BY <1>1, <1>3
      <3> QED
        BY <2>3, <3>2, <3>3, <1>1, <1>3, <1>4
    <2>4. i \in Int /\ Len(s) \in Int
      BY <1>1, <1>3
    <2> QED
      BY <2>1, <2>2, <2>3, <2>4
  <1>6. l = r
    <2> HIDE DEF l, r
    <2> QED
      BY <1>3, <1>4, <1>5, SeqEqual
  <1> QED
    BY <1>6

\* A byte put behind the second part is put behind the whole.
LEMMA AppendToConcat ==
    ASSUME NEW S, NEW s \in Seq(S), NEW t \in Seq(S), NEW e \in S
    PROVE  s \o Append(t, e) = Append(s \o t, e)
  <1>1. << e >> \in Seq(S) /\ s \o t \in Seq(S)
    BY ConcatProperties
  <1> QED
    BY <1>1, AppendIsConcat, ConcatAssociative

-----------------------------------------------------------------------------
(* Which steps touch what.                                                 *)

LEMMA WriteActions ==
    ASSUME [Next]_vars
    PROVE  \/ UNCHANGED writeVars
           \/ send_byte \/ tx_enable \/ open_serial_port \/ close_handles
           \/ handle_write_complete \/ write_completes \/ write_fails
  BY DEF Next, vars, BeginCall, ContinueCall, BackendThread,
         call_send_byte, call_tx_enable, call_receive_byte, LockLight,
         close_stop_thread, receive_byte, open_initiate_read, open_read_pending,
         open_handle_read_complete, leave_loop, check_read, handle_read_complete,
         initiate_read, pass_light_mutex, read_completes, read_fails, motor_sends

LEMMA ReadActions ==
    ASSUME [Next]_vars
    PROVE  \/ UNCHANGED << readVars, received >>
           \/ receive_byte \/ open_serial_port \/ open_initiate_read
           \/ open_read_pending \/ open_handle_read_complete \/ close_handles
           \/ check_read \/ handle_read_complete \/ initiate_read
           \/ read_completes \/ read_fails \/ motor_sends
  BY DEF Next, vars, BeginCall, ContinueCall, BackendThread,
         call_send_byte, call_tx_enable, call_receive_byte, LockLight,
         close_stop_thread, send_byte, tx_enable, leave_loop,
         handle_write_complete, pass_light_mutex, write_completes, write_fails

\* The port is opened by one step and closed by one.
LEMMA PortActions ==
    ASSUME [Next]_vars
    PROVE  \/ open_serial_port
           \/ close_handles
           \/ UNCHANGED << serial_success, stale, opens >>
  BY DEF Next, vars, openVars, BeginCall, ContinueCall, BackendThread,
         call_send_byte, call_tx_enable, call_receive_byte, LockLight,
         close_stop_thread, send_byte, tx_enable, receive_byte,
         open_initiate_read, open_read_pending, open_handle_read_complete,
         leave_loop, handle_write_complete, check_read, handle_read_complete,
         initiate_read, pass_light_mutex, write_completes, write_fails,
         read_completes, read_fails, motor_sends

LEMMA BooleanActions ==
    ASSUME [Next]_vars
    PROVE  /\ run_backend_thread' \in {run_backend_thread, TRUE, FALSE}
           /\ faulty' \in {faulty, TRUE, FALSE}
  BY DEF Next, vars, openVars, BeginCall, ContinueCall, BackendThread,
         call_send_byte, call_tx_enable, call_receive_byte, LockLight,
         open_serial_port, close_stop_thread, send_byte, tx_enable, WriteFile,
         receive_byte, open_initiate_read, ReadFile, open_read_pending,
         open_handle_read_complete, close_handles, leave_loop,
         handle_write_complete, check_read, handle_read_complete, initiate_read,
         pass_light_mutex, write_completes, write_fails, read_completes,
         read_fails, motor_sends

-----------------------------------------------------------------------------
(* Types.                                                                  *)

LEMMA ByteTypes ==
    /\ MaxBytes \in Nat /\ 1..MaxBytes \subseteq 0..MaxBytes
    /\ << >> \in Seq(1..MaxBytes) /\ << >> \in Seq(0..MaxBytes)
  BY WindowsAssumption, EmptySeq

LEMMA ArrivedType ==
    ASSUME ReadTypes
    PROVE  arrived \in Seq(0..MaxBytes)
  BY ByteTypes, SeqMonotonic DEF ReadTypes

LEMMA WriteTypesStep ==
    ASSUME WriteTypes, CallInv, [Next]_vars
    PROVE  WriteTypes'
  <1>1. CASE UNCHANGED writeVars
    BY <1>1 DEF WriteTypes, writeVars
  <1>2. CASE send_byte
    <2>1. Len(queued) + 1 \in 1..MaxBytes
      BY <1>2, LenProperties, ByteTypes
         DEF send_byte, UnderBothLocks, CallInv, WriteTypes
    <2>2. /\ Append(queued, Len(queued) + 1) \in Seq(1..MaxBytes)
          /\ Append(sendBuffer, Len(queued) + 1) \in Seq(1..MaxBytes)
      BY <2>1, AppendProperties DEF WriteTypes
    <2> QED
      BY <1>2, <2>2 DEF send_byte, WriteTypes
  <1>3. CASE tx_enable
    <2>1. wire \o sendBuffer \in Seq(1..MaxBytes)
      BY ConcatProperties DEF WriteTypes
    <2>2. /\ wire' \in {wire, wire \o sendBuffer}
          /\ writing' \in {writing, {sendBuffer}}
          /\ write_in_progress' \in {write_in_progress, TRUE, FALSE}
          /\ sendBuffer' = << >> /\ queued' = queued
      BY <1>3 DEF tx_enable, WriteFile
    <2> QED
      BY <2>1, <2>2, ByteTypes DEF WriteTypes
  <1>4. CASE open_serial_port
    BY <1>4, ByteTypes DEF open_serial_port, WriteTypes
  <1>5. CASE close_handles
    BY <1>5 DEF close_handles, WriteTypes
  <1>6. CASE handle_write_complete
    <2>1. write_in_progress' \in BOOLEAN
      BY <1>6, Zenon DEF handle_write_complete
    <2> QED
      BY <1>6, <2>1 DEF handle_write_complete, WriteTypes
  <1>7. CASE write_completes
    <2>1. wire' \in Seq(1..MaxBytes)
      BY <1>7, ConcatProperties DEF write_completes, WriteTypes
    <2> QED
      BY <1>7, <2>1 DEF write_completes, WriteTypes
  <1>8. CASE write_fails
    BY <1>8 DEF write_fails, WriteTypes
  <1> QED
    BY <1>1, <1>2, <1>3, <1>4, <1>5, <1>6, <1>7, <1>8, WriteActions

\* What starting a read takes.
LEMMA ReadFileTypes ==
    ASSUME ReadTypes, NEW outcome \in ReadOutcome, ReadFile(outcome)
    PROVE  /\ line' \in Seq(1..MaxBytes) /\ arrived' \in Seq(1..MaxBytes)
           /\ reads' \in Nat /\ readCStyleBuffer' \in 0..MaxBytes
           /\ read_overlapped' \in {Pending, Completed(TRUE), Completed(FALSE)}
  <1> USE DEF ReadTypes
  <1>1. CASE outcome = "at_once"
    <2>1. /\ line # << >> /\ line' = Tail(line)
          /\ readCStyleBuffer' = Head(line) /\ arrived' = Append(arrived, Head(line))
          /\ read_overlapped' = Completed(TRUE) /\ UNCHANGED reads
      BY <1>1 DEF ReadFile
    <2>2. Head(line) \in 1..MaxBytes /\ Tail(line) \in Seq(1..MaxBytes)
      BY <2>1, HeadTailProperties
    <2>3. Append(arrived, Head(line)) \in Seq(1..MaxBytes)
      BY <2>2, AppendProperties
    <2> QED
      BY <2>1, <2>2, <2>3, ByteTypes
  <1>2. CASE outcome # "at_once"
    <2>1. /\ reads' \in {reads, reads + 1}
          /\ read_overlapped' \in {read_overlapped, Pending}
          /\ UNCHANGED << readCStyleBuffer, line, arrived >>
      BY <1>2 DEF ReadFile
    <2>2. reads' \in Nat
      BY <2>1
    <2>3. read_overlapped' \in {Pending, Completed(TRUE), Completed(FALSE)}
      BY <2>1
    <2> QED
      BY <2>1, <2>2, <2>3
  <1> QED
    BY <1>1, <1>2

\* What taking a read's byte leaves in rcvBuf.
LEMMA OverlappedTypes ==
    ASSUME ReadTypes, GetOverlappedResult
    PROVE  /\ rcvBuf' \in Seq(0..MaxBytes)
           /\ rcvBuf # << >> => rcvBuf' # << >>
  <1>1. /\ Append(rcvBuf, readCStyleBuffer) \in Seq(0..MaxBytes)
        /\ Append(rcvBuf, readCStyleBuffer) # << >>
    BY AppendProperties DEF ReadTypes
  <1> QED
    BY <1>1 DEF GetOverlappedResult, ReadTypes

LEMMA ReadTypesStep ==
    ASSUME ReadTypes, CallInv, [Next]_vars
    PROVE  ReadTypes'
  <1> USE DEF ReadTypes, opVars
  <1>1. CASE UNCHANGED << readVars, received >>
    BY <1>1 DEF readVars
  <1>2. CASE receive_byte
    <2>1. /\ Head(rcvBuf) \in 0..MaxBytes /\ Tail(rcvBuf) \in Seq(0..MaxBytes)
      BY <1>2, HeadTailProperties DEF receive_byte, UnderBothLocks, CallInv
    <2>2. Append(received, Head(rcvBuf)) \in Seq(0..MaxBytes)
      BY <2>1, AppendProperties
    <2> QED
      BY <1>2, <2>1, <2>2 DEF receive_byte
  <1>3. CASE open_serial_port
    BY <1>3, ByteTypes, ArrivedType DEF open_serial_port
  <1>4. CASE open_initiate_read
    BY <1>4, ReadFileTypes DEF open_initiate_read
  <1>5. CASE open_read_pending
    BY <1>5 DEF open_read_pending
  <1>6. CASE open_handle_read_complete
    BY <1>6, OverlappedTypes DEF open_handle_read_complete
  <1>7. CASE close_handles
    BY <1>7, ByteTypes DEF close_handles
  <1>8. CASE check_read
    <2>1. read_in_progress' \in BOOLEAN
      BY <1>8, Zenon DEF check_read
    <2> QED
      BY <1>8, <2>1 DEF check_read
  <1>9. CASE handle_read_complete
    BY <1>9, OverlappedTypes DEF handle_read_complete
  <1>10. CASE initiate_read
    <2>1. PICK outcome \in ReadOutcome :
              /\ ReadFile(outcome)
              /\ read_in_progress' = (read_in_progress \/ outcome = "pending")
      BY <1>10 DEF initiate_read
    <2>2. read_in_progress' \in BOOLEAN
      BY <2>1, Zenon
    <2> QED
      BY <1>10, <2>1, <2>2, ReadFileTypes DEF initiate_read
  <1>11. CASE read_completes
    <2>1. Head(line) \in 1..MaxBytes /\ Tail(line) \in Seq(1..MaxBytes)
      BY <1>11, HeadTailProperties DEF read_completes
    <2>2. Append(arrived, Head(line)) \in Seq(1..MaxBytes)
      BY <2>1, AppendProperties
    <2> QED
      BY <1>11, <2>1, <2>2, ByteTypes DEF read_completes
  <1>12. CASE read_fails
    BY <1>12 DEF read_fails
  <1>13. CASE motor_sends
    <2>1. Len(arrived) + Len(line) + 1 \in 1..MaxBytes
      BY <1>13, LenProperties, ByteTypes DEF motor_sends
    <2>2. line' \in Seq(1..MaxBytes)
      BY <1>13, <2>1, AppendProperties DEF motor_sends
    <2> QED
      BY <1>13, <2>2 DEF motor_sends
  <1> QED
    BY <1>1, <1>2, <1>3, <1>4, <1>5, <1>6, <1>7, <1>8, <1>9, <1>10, <1>11,
       <1>12, <1>13, ReadActions

LEMMA ThreadTypesStep ==
    ASSUME ThreadTypes, ReadTypes, [Next]_vars
    PROVE  ThreadTypes'
  <1>1. pc' \in Calls \cup {"idle", "initiate", "pending", "complete", "join"}
    <2> USE DEF ThreadTypes, Calls
    <2>1. CASE BeginCall
      BY <2>1 DEF BeginCall, call_send_byte, call_tx_enable, call_receive_byte,
                  LockLight, open_serial_port, close_stop_thread
    <2>2. CASE ContinueCall
      BY <2>2 DEF ContinueCall, UnderBothLocks, send_byte, tx_enable, receive_byte,
                  open_initiate_read, ReadOutcome, open_read_pending,
                  open_handle_read_complete, close_handles
    <2>3. CASE UNCHANGED pc
      BY <2>3
    <2> QED
      BY <2>1, <2>2, <2>3
         DEF Next, vars, BackendThread, leave_loop, handle_write_complete, check_read,
             handle_read_complete, initiate_read, pass_light_mutex, write_completes,
             write_fails, read_completes, read_fails, motor_sends
  <1>2. backend' \in {"none", "loop", "gate", "read", "complete", "initiate"}
    <2> USE DEF ThreadTypes
    <2>1. CASE BackendThread
      BY <2>1 DEF BackendThread, Goto, leave_loop, handle_write_complete, check_read,
                  handle_read_complete, initiate_read, pass_light_mutex
    <2>2. CASE open_serial_port
      BY <2>2 DEF open_serial_port
    <2>3. CASE UNCHANGED backend
      BY <2>3
    <2> QED
      BY <2>1, <2>2, <2>3
         DEF Next, vars, BeginCall, call_send_byte, call_tx_enable, call_receive_byte,
             LockLight, close_stop_thread, ContinueCall, send_byte, tx_enable,
             receive_byte, open_initiate_read, open_read_pending,
             open_handle_read_complete, close_handles, write_completes, write_fails,
             read_completes, read_fails, motor_sends
  <1>3. /\ opens' \in 0..MaxOpens /\ serial_success' \in BOOLEAN
        /\ stale' \in BOOLEAN
    <2>1. CASE open_serial_port
      BY <2>1, WindowsAssumption DEF open_serial_port, ThreadTypes, ReadTypes
    <2>2. CASE ~open_serial_port
      BY <2>2, PortActions DEF close_handles, ThreadTypes
    <2> QED
      BY <2>1, <2>2
  <1>4. run_backend_thread' \in {run_backend_thread, TRUE, FALSE}
        /\ faulty' \in {faulty, TRUE, FALSE}
    BY BooleanActions
  <1> QED
    BY <1>1, <1>2, <1>3, <1>4 DEF ThreadTypes

-----------------------------------------------------------------------------
(* What a call found when it began is not undone by the others, and a      *)
(* closed port has nothing under way.                                      *)

LEMMA CallStep ==
    ASSUME ReadTypes, CallInv, [Next]_vars
    PROVE  CallInv'
  <1> USE DEF CallInv
  <1>1. CASE BeginCall
    BY <1>1 DEF BeginCall, call_send_byte, call_tx_enable, call_receive_byte,
                LockLight, open_serial_port, close_stop_thread,
                writeVars, readVars, openVars
  <1>2. CASE ContinueCall
    BY <1>2 DEF ContinueCall, UnderBothLocks, send_byte, tx_enable, receive_byte,
                open_initiate_read, ReadOutcome, open_read_pending,
                open_handle_read_complete, close_handles
  <1>3. CASE ~BeginCall /\ ~ContinueCall
    <2>1. UNCHANGED << pc, queued, serial_success >>
      BY <1>3 DEF Next, vars, writeVars, openVars, BackendThread, leave_loop,
                  handle_write_complete, check_read, handle_read_complete,
                  initiate_read, pass_light_mutex, write_completes, write_fails,
                  read_completes, read_fails, motor_sends
    <2>2. rcvBuf # << >> => rcvBuf' # << >>
      BY <1>3, ReadActions, OverlappedTypes
         DEF readVars, BeginCall, ContinueCall, check_read, handle_read_complete,
             initiate_read, read_completes, read_fails, motor_sends
    <2> QED
      BY <2>1, <2>2
  <1> QED
    BY <1>1, <1>2, <1>3

LEMMA ClosedStep ==
    ASSUME CallInv, ClosedInv, [Next]_vars
    PROVE  ClosedInv'
  <1> USE DEF ClosedInv, Opening
  <1>1. CASE open_serial_port
    BY <1>1 DEF open_serial_port
  <1>2. CASE close_handles
    BY <1>2 DEF close_handles
  <1>3. CASE ~open_serial_port /\ ~close_handles
    <2>1. serial_success' = serial_success
      BY <1>3, PortActions
    <2>2. CASE ~serial_success
      <3>1. /\ reads' = 0 /\ backend' = backend
        BY <1>3, <2>2
           DEF Next, vars, readVars, opVars, BeginCall, ContinueCall, BackendThread,
               Goto, call_send_byte, call_tx_enable, call_receive_byte, LockLight,
               close_stop_thread, send_byte, tx_enable, receive_byte,
               open_initiate_read, open_read_pending, open_handle_read_complete,
               leave_loop, handle_write_complete, check_read, handle_read_complete,
               initiate_read, pass_light_mutex, write_completes, write_fails,
               read_completes, read_fails, motor_sends
      <3>2. writing' = {}
        BY <1>3, <2>2, WriteActions
           DEF writeVars, send_byte, tx_enable, UnderBothLocks, CallInv,
               handle_write_complete, write_completes, write_fails
      <3>3. ~Opening'
        BY <1>3, <2>2
           DEF Next, vars, BeginCall, ContinueCall, BackendThread,
               Goto, call_send_byte, call_tx_enable, call_receive_byte, LockLight,
               close_stop_thread, send_byte, tx_enable, receive_byte,
               open_initiate_read, open_read_pending, open_handle_read_complete,
               leave_loop, handle_write_complete, check_read, handle_read_complete,
               initiate_read, pass_light_mutex, write_completes, write_fails,
               read_completes, read_fails, motor_sends
      <3> QED
        BY <2>1, <2>2, <3>1, <3>2, <3>3
    <2> QED
      BY <2>1, <2>2
  <1> QED
    BY <1>1, <1>2, <1>3

\* Only an open ends a failure.
LEMMA FailureStays ==
    ASSUME [Next]_vars, ~open_serial_port
    PROVE  /\ faulty => faulty'
           /\ serial_success' => serial_success
           /\ stale' = stale
  <1>1. faulty => faulty'
    BY DEF Next, vars, BeginCall, ContinueCall, BackendThread,
           call_send_byte, call_tx_enable, call_receive_byte, LockLight,
           close_stop_thread, send_byte, tx_enable, WriteFile,
           receive_byte, open_initiate_read, ReadFile, open_read_pending,
           open_handle_read_complete, close_handles, leave_loop,
           handle_write_complete, check_read, handle_read_complete, initiate_read,
           pass_light_mutex, write_completes, write_fails, read_completes,
           read_fails, motor_sends
  <1>2. serial_success' => serial_success
    BY PortActions, Zenon DEF close_handles
  <1>3. stale' = stale
    BY PortActions DEF close_handles
  <1> QED
    BY <1>1, <1>2, <1>3

\* tx_enable is entered only when no write is in progress.
LEMMA TxActions ==
    ASSUME [Next]_vars, pc' = "tx_enable"
    PROVE  pc = "tx_enable" \/ ~write_in_progress
  BY DEF Next, vars, BeginCall, ContinueCall, BackendThread,
         call_send_byte, call_tx_enable, call_receive_byte, LockLight,
         open_serial_port, close_stop_thread, send_byte, tx_enable,
         receive_byte, open_initiate_read, ReadOutcome, open_read_pending,
         open_handle_read_complete, close_handles, leave_loop,
         handle_write_complete, check_read, handle_read_complete, initiate_read,
         pass_light_mutex, write_completes, write_fails, read_completes,
         read_fails, motor_sends

-----------------------------------------------------------------------------
(* Each step keeps what was queued in order.                               *)

LEMMA NothingOutstanding ==
    ASSUME writing = {}
    PROVE  Outstanding = << >>
  BY DEF Outstanding

LEMMA NothingOutstandingPrime ==
    ASSUME writing' = {}
    PROVE  Outstanding' = << >>
  BY DEF Outstanding

LEMMA OutstandingOnePrime ==
    ASSUME NEW bytes, writing' = {bytes}
    PROVE  Outstanding' = bytes
  BY DEF Outstanding

LEMMA OutstandingType ==
    ASSUME WriteTypes, WriteInv
    PROVE  Outstanding \in Seq(1..MaxBytes)
  BY ByteTypes, OutstandingOne, NothingOutstanding DEF WriteInv

LEMMA WriteStep ==
    ASSUME WriteTypes, CallInv, ClosedInv, WriteInv, [Next]_vars
    PROVE  WriteInv'
  <1> DEFINE S == Seq(1..MaxBytes)
  <1>0. /\ sendBuffer \in S /\ queued \in S /\ wire \in S /\ Outstanding \in S
        /\ << >> \in S /\ writing \subseteq S
    BY OutstandingType, ByteTypes DEF WriteTypes
  <1>1. CASE UNCHANGED writeVars /\ ~open_serial_port
    <2>1. Outstanding' = Outstanding
      BY <1>1 DEF writeVars, Outstanding
    <2> QED
      BY <1>1, <2>1, FailureStays, TxActions DEF writeVars, WriteInv, WrittenInOrder
  <1>2. CASE send_byte
    <2> DEFINE n == Len(queued) + 1
    <2>1. n \in 1..MaxBytes
      BY <1>2, LenProperties, ByteTypes
         DEF send_byte, UnderBothLocks, CallInv, WriteTypes
    <2>2. /\ queued' = Append(queued, n) /\ sendBuffer' = Append(sendBuffer, n)
          /\ UNCHANGED << write_in_progress, writing, wire, serial_success, faulty >>
          /\ pc' = "idle"
      BY <1>2 DEF send_byte, openVars
    <2>3. Outstanding' = Outstanding
      BY <2>2 DEF Outstanding
    <2>4. wire \o Outstanding \in S
      BY <1>0, ConcatProperties
    <2>5. (wire \o Outstanding) \o Append(sendBuffer, n)
              = Append((wire \o Outstanding) \o sendBuffer, n)
      <3> HIDE DEF n
      <3> QED
        BY <1>0, <2>1, <2>4, AppendToConcat
    <2>6. WrittenInOrder'
      <3> HIDE DEF n
      <3> QED
        BY <2>2, <2>3, <2>5 DEF WriteInv, WrittenInOrder
    <2> QED
      BY <2>2, <2>6 DEF WriteInv
  <1>3. CASE tx_enable
    <2>1. /\ writing = {} /\ Outstanding = << >> /\ serial_success
          /\ serial_success' /\ pc' = "idle" /\ sendBuffer' = << >> /\ queued' = queued
      BY <1>3, NothingOutstanding
         DEF tx_enable, UnderBothLocks, WriteInv, CallInv, openVars
    <2>2. wire \o << >> = wire /\ wire \o sendBuffer \in S
      BY <1>0, ConcatEmptySeq, ConcatProperties
    <2>3. (wire \o sendBuffer) \o << >> = wire \o sendBuffer
      BY <2>2, ConcatEmptySeq
    <2>4. ~faulty => wire \o sendBuffer = queued
      BY <2>1, <2>2 DEF WriteInv, WrittenInOrder
    <2>5. CASE writing' = {sendBuffer} /\ write_in_progress' /\ UNCHANGED << wire, faulty >>
      <3>1. Outstanding' = sendBuffer
        BY <2>5, OutstandingOnePrime
      <3> QED
        BY <1>0, <2>1, <2>3, <2>4, <2>5, <3>1 DEF WriteInv, WrittenInOrder
    <2>6. CASE wire' = wire \o sendBuffer /\ UNCHANGED << writing, faulty >>
      <3>1. writing' = {} /\ Outstanding' = << >>
        BY <2>1, <2>6, NothingOutstandingPrime
      <3> QED
        BY <2>1, <2>3, <2>4, <2>6, <3>1 DEF WriteInv, WrittenInOrder
    <2>7. CASE faulty' /\ UNCHANGED writing
      BY <2>1, <2>7 DEF WriteInv, WrittenInOrder
    <2> QED
      BY <1>3, <2>5, <2>6, <2>7 DEF tx_enable, WriteFile
  <1>4. CASE open_serial_port
    <2>1. /\ writing' = {} /\ sendBuffer' = << >> /\ wire' = queued /\ queued' = queued
          /\ pc' = "initiate"
      BY <1>4 DEF open_serial_port, ClosedInv
    <2>2. Outstanding' = << >> /\ queued \o << >> = queued
      BY <1>0, <2>1, NothingOutstandingPrime, ConcatEmptySeq
    <2> QED
      BY <2>1, <2>2 DEF WriteInv, WrittenInOrder
  <1>5. CASE close_handles
    BY <1>5 DEF close_handles, WriteInv, WrittenInOrder
  <1>6. CASE handle_write_complete
    <2>1. /\ UNCHANGED << writing, sendBuffer, queued, wire, pc, serial_success, faulty >>
          /\ write_in_progress' = (write_in_progress /\ writing # {})
      BY <1>6 DEF handle_write_complete, openVars
    <2>2. Outstanding' = Outstanding
      BY <2>1 DEF Outstanding
    <2>3. WrittenInOrder'
      BY <2>1, <2>2 DEF WriteInv, WrittenInOrder
    <2> QED
      BY <2>1, <2>3 DEF WriteInv
  <1>7. CASE write_completes
    <2>1. PICK bytes \in writing : wire' = wire \o bytes
      BY <1>7 DEF write_completes
    <2>2. /\ writing' = {}
          /\ UNCHANGED << sendBuffer, queued, pc, serial_success, faulty, write_in_progress >>
      BY <1>7 DEF write_completes, openVars
    <2>3. writing = {bytes}
      BY <2>1 DEF WriteInv
    <2>4. Outstanding = bytes /\ Outstanding' = << >>
      BY <2>2, <2>3, OutstandingOne, NothingOutstandingPrime
    <2>5. wire \o bytes \in S
      BY <1>0, <2>4, ConcatProperties
    <2>6. (wire \o bytes) \o << >> = wire \o bytes
      BY <2>5, ConcatEmptySeq
    <2>7. WrittenInOrder'
      BY <2>1, <2>2, <2>4, <2>6 DEF WriteInv, WrittenInOrder
    <2> QED
      BY <2>2, <2>7 DEF WriteInv
  <1>8. CASE write_fails
    BY <1>8 DEF write_fails, WriteInv, WrittenInOrder
  <1> QED
    BY <1>1, <1>2, <1>3, <1>4, <1>5, <1>6, <1>7, <1>8, WriteActions

-----------------------------------------------------------------------------
(* Each step keeps track of the last byte read.                            *)

LEMMA TakenType ==
    ASSUME ReadTypes
    PROVE  Taken \in Seq(0..MaxBytes) /\ arrived \in Seq(0..MaxBytes)
  BY ArrivedType, ConcatProperties DEF ReadTypes, Taken

\* The outcomes of a read that is started when there is none.
LEMMA ReadFileEffect ==
    ASSUME NoRead, ReadTypes, NEW outcome \in ReadOutcome, ReadFile(outcome),
           UNCHANGED << rcvBuf, received >>, ~faulty'
    PROVE  \/ outcome = "pending" /\ Waiting'
           \/ outcome = "at_once" /\ Ahead'
  <1>1. Taken' = Taken /\ outcome # "error"
    BY DEF Taken, ReadFile
  <1>2. CASE outcome = "pending"
    BY <1>1, <1>2 DEF ReadFile, NoRead, Waiting
  <1>3. CASE outcome = "at_once"
    BY <1>1, <1>3 DEF ReadFile, NoRead, Ahead
  <1> QED
    BY <1>1, <1>2, <1>3 DEF ReadOutcome

\* A byte that arrived is taken when its read completed well.
LEMMA OverlappedEffect ==
    ASSUME Ahead, ReadTypes, GetOverlappedResult, UNCHANGED << reads, arrived, received >>
    PROVE  NoRead'
  <1>1. read_overlapped.ok /\ rcvBuf' = Append(rcvBuf, readCStyleBuffer)
    BY DEF Ahead, Completed, GetOverlappedResult
  <1>2. received \o Append(rcvBuf, readCStyleBuffer) = Append(Taken, readCStyleBuffer)
    BY AppendToConcat DEF ReadTypes, Taken
  <1> QED
    BY <1>1, <1>2 DEF Ahead, NoRead, Taken

LEMMA CompletedIsNotPending == Completed(TRUE) # Pending /\ ~Pending.completed
  BY DEF Completed, Pending

\* The other steps start and end no read.
LEMMA OtherSteps ==
    ASSUME [Next]_vars
    PROVE  \/ /\ UNCHANGED << readVars, received, serial_success >>
              /\ pc' = pc \/ (~Opening /\ ~Opening')
              /\ backend' = backend \/ (~Completing /\ ~Completing')
           \/ receive_byte \/ open_serial_port \/ open_initiate_read
           \/ open_read_pending \/ open_handle_read_complete \/ close_handles
           \/ check_read \/ handle_read_complete \/ initiate_read
           \/ read_completes \/ read_fails \/ motor_sends
  <1> USE DEF Opening, Completing, openVars
  <1>1. CASE BeginCall
    BY <1>1 DEF BeginCall, call_send_byte, call_tx_enable, call_receive_byte,
                LockLight, close_stop_thread
  <1>2. CASE send_byte \/ tx_enable
    BY <1>2 DEF send_byte, tx_enable, UnderBothLocks
  <1>3. CASE leave_loop \/ handle_write_complete \/ pass_light_mutex
    BY <1>3 DEF leave_loop, handle_write_complete, pass_light_mutex, Goto
  <1>4. CASE write_completes \/ write_fails
    BY <1>4 DEF write_completes, write_fails
  <1>5. CASE UNCHANGED vars
    BY <1>5 DEF vars
  <1> QED
    BY <1>1, <1>2, <1>3, <1>4, <1>5 DEF Next, ContinueCall, BackendThread

LEMMA ReadStep ==
    ASSUME ReadTypes, CallInv, ClosedInv, ReadInv, [Next]_vars
    PROVE  ReadInv'
  <1> USE DEF opVars, openVars
  <1>1. CASE open_serial_port
    <2> SUFFICES ASSUME Healthy' PROVE OneRead'
      BY DEF ReadInv
    <2>1. ~read_in_progress' /\ reads' = 0 /\ pc' = "initiate" /\ backend' = "loop"
      BY <1>1 DEF open_serial_port, Healthy, ClosedInv
    <2>2. Taken' = arrived /\ arrived' = arrived
      BY <1>1, ArrivedType, ConcatEmptySeq DEF open_serial_port, Taken
    <2> QED
      BY <2>1, <2>2 DEF OneRead, Opening, Completing, NoRead
  <1>2. CASE ~open_serial_port
    <2> SUFFICES ASSUME Healthy' PROVE OneRead'
      BY DEF ReadInv
    <2>1. Healthy /\ OneRead /\ ~faulty'
      BY <1>2, FailureStays DEF Healthy, ReadInv
    <2> USE DEF Opening, Completing
    <2>2. CASE /\ UNCHANGED << readVars, received, serial_success >>
               /\ pc' = pc \/ (~Opening /\ ~Opening')
               /\ backend' = backend \/ (~Completing /\ ~Completing')
      <3>1. /\ Taken' = Taken /\ NoRead' = NoRead /\ Waiting' = Waiting
            /\ Ahead' = Ahead /\ Aborted' = Aborted
            /\ read_in_progress' = read_in_progress
        BY <2>2 DEF readVars, Taken, NoRead, Waiting, Ahead, Aborted
      <3> QED
        BY <2>1, <2>2, <3>1 DEF OneRead
    <2>3. CASE receive_byte
      <3>1. /\ UNCHANGED << read_in_progress, read_overlapped, reads, readCStyleBuffer >>
            /\ UNCHANGED << arrived, backend, serial_success >>
            /\ pc = "receive_byte" /\ pc' = "idle"
        BY <2>3 DEF receive_byte, UnderBothLocks
      <3>2. Taken' = Taken
        BY <2>3, <3>1, TakeOne DEF receive_byte, CallInv, Taken, ReadTypes
      <3> QED
        BY <2>1, <3>1, <3>2 DEF OneRead, NoRead, Waiting, Ahead, Aborted
    <2>4. CASE open_initiate_read
      <3>1. PICK outcome \in ReadOutcome :
                /\ ReadFile(outcome)
                /\ pc' = CASE outcome = "pending" -> "pending"
                           [] outcome = "at_once" -> "complete"
                           [] outcome = "error" -> "idle"
        BY <2>4 DEF open_initiate_read
      <3>2. /\ pc = "initiate"
            /\ UNCHANGED << rcvBuf, received, read_in_progress, backend >>
        BY <2>4 DEF open_initiate_read
      <3>3. NoRead /\ ~read_in_progress /\ ~Completing
        BY <2>1, <3>2 DEF OneRead
      <3> QED
        BY <2>1, <3>1, <3>2, <3>3, ReadFileEffect DEF OneRead
    <2>5. CASE open_read_pending
      <3>1. /\ pc = "pending" /\ pc' = "idle" /\ read_in_progress'
            /\ UNCHANGED << reads, read_overlapped, readCStyleBuffer, arrived >>
            /\ UNCHANGED << rcvBuf, received, backend >>
        BY <2>5 DEF open_read_pending
      <3>2. Waiting' = Waiting /\ Ahead' = Ahead
        BY <3>1 DEF Waiting, Ahead, Taken
      <3> QED
        BY <2>1, <3>1, <3>2 DEF OneRead
    <2>6. CASE open_handle_read_complete
      <3>1. /\ pc = "complete" /\ pc' = "initiate" /\ ~read_in_progress'
            /\ GetOverlappedResult
            /\ UNCHANGED << reads, arrived, received, backend >>
        BY <2>6 DEF open_handle_read_complete
      <3>2. Ahead /\ ~Completing
        BY <2>1, <3>1 DEF OneRead
      <3>3. NoRead'
        BY <3>1, <3>2, OverlappedEffect
      <3> QED
        BY <3>1, <3>2, <3>3 DEF OneRead
    <2>7. CASE close_handles
      <3>1. /\ pc = "join" /\ backend = "none" /\ pc' = "idle" /\ backend' = "none"
            /\ ~serial_success' /\ reads' = 0
            /\ read_overlapped' = IF reads > 0 THEN Completed(FALSE) ELSE read_overlapped
            /\ UNCHANGED << read_in_progress, readCStyleBuffer, arrived, rcvBuf, received >>
        BY <2>7 DEF close_handles
      <3>2. Taken' = Taken
        BY <3>1 DEF Taken
      <3>3. IF read_in_progress THEN Waiting \/ Ahead \/ Aborted ELSE NoRead
        BY <2>1, <3>1 DEF OneRead
      <3>4. Waiting => Aborted'
        BY <3>1, <3>2 DEF Waiting, Aborted
      <3>5. Ahead => Ahead'
        BY <3>1, <3>2 DEF Ahead
      <3>6. Aborted => Aborted'
        BY <3>1, <3>2 DEF Aborted
      <3>7. NoRead => NoRead'
        BY <3>1, <3>2 DEF NoRead
      <3> QED
        BY <3>1, <3>3, <3>4, <3>5, <3>6, <3>7 DEF OneRead
    <2>8. CASE check_read
      <3>1. /\ backend = "read" /\ backend' = (IF ReadDone THEN "complete" ELSE "gate")
            /\ read_in_progress' = (read_in_progress /\ ~ReadDone)
            /\ UNCHANGED << reads, read_overlapped, readCStyleBuffer, arrived, rcvBuf >>
            /\ UNCHANGED << received, pc, serial_success >>
        BY <2>8 DEF check_read, Goto
      <3>2. /\ NoRead' = NoRead /\ Waiting' = Waiting /\ Ahead' = Ahead
            /\ Aborted' = Aborted
        BY <3>1 DEF NoRead, Waiting, Ahead, Aborted, Taken
      <3>3. serial_success /\ ~Aborted
        BY <3>1 DEF ClosedInv, Aborted
      <3>4. ReadDone => ~Waiting /\ read_in_progress
        BY CompletedIsNotPending DEF ReadDone, Waiting
      <3>5. CASE ReadDone
        <4>1. ~Opening /\ Ahead
          BY <2>1, <3>1, <3>3, <3>4, <3>5 DEF OneRead
        <4> QED
          BY <3>1, <3>2, <3>5, <4>1 DEF OneRead
      <3>6. CASE ~ReadDone
        BY <2>1, <3>1, <3>2, <3>6 DEF OneRead
      <3> QED
        BY <3>5, <3>6
    <2>9. CASE handle_read_complete
      <3>1. /\ backend = "complete" /\ backend' \in {"initiate", "gate"}
            /\ GetOverlappedResult
            /\ UNCHANGED << reads, arrived, received, pc, read_in_progress >>
        BY <2>9 DEF handle_read_complete, Goto
      <3>2. Ahead /\ ~Opening /\ ~read_in_progress
        BY <2>1, <3>1 DEF OneRead
      <3>3. NoRead'
        BY <3>1, <3>2, OverlappedEffect
      <3> QED
        BY <3>1, <3>2, <3>3 DEF OneRead
    <2>10. CASE initiate_read
      <3>1. PICK outcome \in ReadOutcome :
                /\ ReadFile(outcome)
                /\ backend' = IF outcome = "at_once" THEN "complete" ELSE "gate"
                /\ read_in_progress' = (read_in_progress \/ outcome = "pending")
        BY <2>10 DEF initiate_read
      <3>2. backend = "initiate" /\ UNCHANGED << rcvBuf, received, pc >>
        BY <2>10 DEF initiate_read
      <3>3. NoRead /\ ~read_in_progress /\ ~Opening
        BY <2>1, <3>2 DEF OneRead
      <3>4. \/ outcome = "pending" /\ Waiting'
            \/ outcome = "at_once" /\ Ahead'
        BY <2>1, <3>1, <3>2, <3>3, ReadFileEffect
      <3> QED
        BY <3>1, <3>2, <3>3, <3>4 DEF OneRead
    <2>11. CASE read_completes
      <3>1. /\ reads > 0 /\ reads' = reads - 1 /\ read_overlapped' = Completed(TRUE)
            /\ readCStyleBuffer' = Head(line) /\ arrived' = Append(arrived, Head(line))
            /\ UNCHANGED << rcvBuf, received, read_in_progress, pc, backend >>
        BY <2>11 DEF read_completes
      <3>2. Taken' = Taken /\ (Waiting => Ahead')
        BY <3>1 DEF Waiting, Ahead, Taken
      <3>3. ~NoRead /\ ~Ahead /\ ~Aborted
        <4>1. reads # 0
          BY <3>1
        <4> QED
          BY <4>1 DEF NoRead, Ahead, Aborted
      <3> QED
        BY <2>1, <3>1, <3>2, <3>3 DEF OneRead
    <2>12. CASE read_fails
      BY <2>1, <2>12 DEF read_fails
    <2>13. CASE motor_sends
      <3>1. /\ UNCHANGED << read_in_progress, read_overlapped, reads, readCStyleBuffer >>
            /\ UNCHANGED << rcvBuf, received, arrived, pc, backend, serial_success >>
        BY <2>13 DEF motor_sends
      <3> QED
        BY <2>1, <3>1 DEF OneRead, NoRead, Waiting, Ahead, Aborted, Taken
    <2> QED
      BY <1>2, <2>2, <2>3, <2>4, <2>5, <2>6, <2>7, <2>8, <2>9, <2>10, <2>11,
         <2>12, <2>13, OtherSteps
  <1> QED
    BY <1>1, <1>2

-----------------------------------------------------------------------------
LEMMA InitInv == Init => WindowsInv
  <1> SUFFICES ASSUME Init PROVE WindowsInv
    OBVIOUS
  <1>1. ThreadTypes /\ WriteTypes /\ ReadTypes
    <2>1. 0 \in 0..MaxOpens /\ 0 \in 0..MaxBytes
      BY WindowsAssumption
    <2> QED
      BY <2>1, ByteTypes DEF Init, ThreadTypes, WriteTypes, ReadTypes
  <1>2. CallInv /\ ClosedInv
    BY DEF Init, CallInv, ClosedInv, Opening
  <1>3. WriteInv
    BY DEF Init, WriteInv, WrittenInOrder
  <1>4. ReadInv
    <2>1. << >> \o << >> = << >>
      BY ConcatEmptySeq, ByteTypes
    <2> QED
      BY <2>1 DEF Init, ReadInv, OneRead, Opening, Completing, NoRead, Taken
  <1> QED
    BY <1>1, <1>2, <1>3, <1>4 DEF WindowsInv, WindowsTypeOK

\* The calling thread, the backend thread and the port keep the parts of the
\* invariant, whatever of their operations fail and however often the port is
\* opened: the types, that calls are not overtaken, what is under way on a
\* closed port, and where the bytes of either direction are.
THEOREM WindowsInvariant == Spec => []WindowsInv
  <1>1. WindowsInv /\ [Next]_vars => WindowsInv'
    BY ThreadTypesStep, WriteTypesStep, ReadTypesStep, CallStep, ClosedStep,
       WriteStep, ReadStep
       DEF WindowsInv, WindowsTypeOK
  <1> QED
    BY <1>1, InitInv, PTL DEF Spec

\* The types of the threads, of what is sent and of what is received.
THEOREM WindowsTypeCorrect == Spec => []WindowsTypeOK
  <1>1. WindowsInv => WindowsTypeOK
    BY DEF WindowsInv
  <1> QED
    BY <1>1, WindowsInvariant, PTL

\* Until an operation fails, the bytes of send_byte are written in order,
\* each once.
THEOREM AlwaysWrittenInOrder == Spec => []WrittenInOrder
  <1>1. WindowsInv => WrittenInOrder
    BY DEF WindowsInv, WriteInv
  <1> QED
    BY <1>1, WindowsInvariant, PTL

\* What the port gave reaches the caller in order, at most one byte behind.
THEOREM AlwaysReadInOrder == Spec => []ReadInOrder
  <1>1. WindowsInv => ReadInOrder
    <2> SUFFICES ASSUME WindowsInv, Healthy
                 PROVE  /\ Len(arrived) - 1 <= Len(Taken) /\ Len(Taken) <= Len(arrived)
                        /\ Taken = SubSeq(arrived, 1, Len(Taken))
      BY DEF ReadInOrder, Taken
    <2>1. Taken \in Seq(0..MaxBytes) /\ arrived \in Seq(0..MaxBytes)
      BY TakenType DEF WindowsInv, WindowsTypeOK
    <2>2. CASE arrived = Taken
      BY <2>1, <2>2, SubSeqFull, LenProperties
    <2>3. CASE Ahead
      <3>1. /\ Len(arrived) = Len(Taken) + 1 /\ Len(Taken) \in Nat
            /\ \A i \in 1..Len(Taken) : arrived[i] = Taken[i]
        BY <2>1, <2>3, AppendProperties, LenProperties
           DEF Ahead, WindowsInv, WindowsTypeOK, ReadTypes
      <3>2. /\ SubSeq(arrived, 1, Len(Taken)) \in Seq(0..MaxBytes)
            /\ Len(SubSeq(arrived, 1, Len(Taken))) = Len(Taken)
            /\ \A i \in 1..Len(Taken) : SubSeq(arrived, 1, Len(Taken))[i] = arrived[i]
        <4>1. \A i \in 1..Len(Taken) : arrived[i] \in 0..MaxBytes
          BY <2>1, <3>1, LenProperties, ElementOfSeq
        <4> DEFINE l == Len(Taken)
        <4>2. /\ SubSeq(arrived, 1, l) \in Seq(0..MaxBytes)
              /\ Len(SubSeq(arrived, 1, l)) = IF 1 <= l THEN l - 1 + 1 ELSE 0
              /\ \A i \in 1..(l - 1 + 1) : SubSeq(arrived, 1, l)[i] = arrived[1 + i - 1]
          <5> l \in Int
            BY <3>1
          <5> HIDE DEF l
          <5>1. \A i \in 1..l : arrived[i] \in 0..MaxBytes
            BY <4>1 DEF l
          <5> QED
            BY <5>1, SubSeqProperties
        <4>3. l \in Nat /\ l - 1 + 1 = l /\ \A i \in 1..l : 1 + i - 1 = i
          BY <3>1
        <4> HIDE DEF l
        <4>4. /\ SubSeq(arrived, 1, l) \in Seq(0..MaxBytes)
              /\ Len(SubSeq(arrived, 1, l)) = l
              /\ \A i \in 1..l : SubSeq(arrived, 1, l)[i] = arrived[i]
          BY <4>2, <4>3
        <4> QED
          BY <4>4 DEF l
      <3>3. Taken = SubSeq(arrived, 1, Len(Taken))
        BY <2>1, <3>1, <3>2, SeqEqual
      <3> QED
        BY <3>1, <3>3
    <2> QED
      BY <2>2, <2>3
         DEF WindowsInv, ReadInv, OneRead, Opening, Completing, NoRead, Waiting, Aborted
  <1> QED
    BY <1>1, WindowsInvariant, PTL
=============================================================================
