------------------------------ MODULE Actuator ------------------------------
(***************************************************************************)
(* actuator.cpp and orca_stream.cpp: the object a program talks to a motor *)
(* through.  One thread calls it, either run() in a loop, which injects    *)
(* stream commands and claims what has come back, or a blocking read or    *)
(* write, which queues a request and flushes the queue until it is empty.  *)
(* Time and the line move on between any two of its steps.                 *)
(***************************************************************************)
EXTENDS ModbusClient

CONSTANTS AnswerLength, Calls
\* AnswerLength: the expected length of an answer by function code
\* Calls: the blocking calls made, [function, important]

FunctionCode == {"read", "write", "stream"}

RequestFor(function, important) ==
    [important |-> important, broadcast |-> FALSE,
     length |-> AnswerLength[function]]

\* orca_stream.cpp: a stream command is never important
StreamRequest == RequestFor("stream", FALSE)

ASSUME ActuatorAssumption ==
    /\ AnswerLength \in [FunctionCode -> Nat]
    /\ Calls \subseteq [function : {"read", "write"}, important : BOOLEAN]
    /\ Requests = {StreamRequest} \cup
                      {RequestFor(c.function, c.important) : c \in Calls}
    /\ BlockingCalls

VARIABLES
    pc,              \* what the calling thread does next
    functions,       \* the function code of each submitted request
    stream_enabled,  \* OrcaStream::enabled
    stream_paused,
    message_error,   \* reception_validity of the last response handled
    message_data,    \* registers out of it
    stream_cache,    \* what the last stream answer said
    call,            \* the blocking call in progress: its request, and the
                     \* pause setting flush gives back
    handled          \* history: the attempt handled last

streamVars == << stream_enabled, stream_paused >>
resultVars == << message_error, message_data, stream_cache, handled >>
callVars == << functions, streamVars, resultVars, call >>
actuatorVars == << vars, pc, callVars >>

NoData == [of |-> [id |-> 0, retries |-> 0], valid |-> FALSE]

Goto(from, to) == pc = from /\ pc' = to

-----------------------------------------------------------------------------
\* The function code in rx_buffer[1], zero when it was not received.
RxFunctionCode(t) ==
    IF Len(t.rx) >= 2 /\ t.rx[2].pos = 2 /\ ~is_error_response(t)
    THEN functions[t.rx[2].of.id] ELSE "none"

\* Register values are kept as the attempt they answer and whether the
\* reception they were read from was valid.
DataOf(t) == [of |-> t.rx[2].of, valid |-> is_reception_valid(t)]

\* Mutant: the registers of an earlier read are not cleared.
handle_transaction_response_KeepsData(t) ==
    /\ message_error' = t.failure
    /\ message_data' =
           IF RxFunctionCode(t) = "read" THEN DataOf(t) ELSE message_data
    /\ stream_cache' =
           IF RxFunctionCode(t) = "stream" THEN DataOf(t) ELSE stream_cache
    /\ handled' = AttemptOf(t)

handle_transaction_response(t) ==
    /\ message_error' = t.failure
    /\ message_data' = IF RxFunctionCode(t) = "read" THEN DataOf(t) ELSE NoData
    /\ stream_cache' =
           IF RxFunctionCode(t) = "stream" THEN DataOf(t) ELSE stream_cache
    /\ handled' = AttemptOf(t)

enqueue_function(function, important) ==
    /\ enqueue_transaction(RequestFor(function, important))
    /\ functions' = Append(functions, function)

claim_and_handle ==
    /\ dequeue_transaction
    /\ handle_transaction_response(Active)
    /\ UNCHANGED << functions, streamVars, call >>

-----------------------------------------------------------------------------
(* run(): run_in, claim a response, handle_stream, run_out.                *)

run == Goto("idle", "run_in") /\ UNCHANGED << vars, callVars >>

RunIn ==
    /\ Goto("run_in", "claim")
    /\ \/ run_in
       \/ /\ ~CanReceive
          /\ \A t \in Timer \ {"interframe_delay"} : ~has_timer_expired(t)
          /\ UNCHANGED vars
    /\ UNCHANGED callVars

\* Mutant: whatever is in front is claimed.
Claim_Unready ==
    /\ Goto("claim", "stream")
    /\ \/ queue # << >> /\ claim_and_handle
       \/ queue = << >> /\ UNCHANGED << vars, callVars >>

Claim ==
    /\ Goto("claim", "stream")
    /\ \/ is_response_ready(queue) /\ claim_and_handle
       \/ ~is_response_ready(queue) /\ UNCHANGED << vars, callVars >>

\* Mutant: stream commands are added to those that wait.
StreamDue_Always == ~stream_paused /\ stream_enabled

StreamDue == ~stream_paused /\ stream_enabled /\ queue = << >>

handle_stream ==
    /\ Goto("stream", "run_out")
    /\ \/ StreamDue /\ enqueue_function("stream", FALSE)
       \/ (~StreamDue \/ Len(submitted) = MaxRequests)
              /\ UNCHANGED << vars, functions >>
    /\ UNCHANGED << streamVars, resultVars, call >>

RunOut ==
    /\ Goto("run_out", "idle")
    /\ run_out \/ (~MayTransmit /\ UNCHANGED vars)
    /\ UNCHANGED callVars

-----------------------------------------------------------------------------
(* A blocking call: enqueue, then flush the queue.                         *)

blocking_call(c) ==
    /\ Goto("idle", "flush")
    /\ enqueue_function(c.function, c.important)
    /\ call' = [id |-> Len(submitted'), important |-> c.important,
                paused |-> stream_paused]
    /\ stream_paused' = TRUE
    /\ UNCHANGED << stream_enabled, resultVars >>

\* Mutant: flush waits for the stream command in flight to be claimed by run.
FlushSend_OnlyQueued ==
    /\ Goto("flush", "receive")
    /\ queue # << >>
    /\ send_front_message
    /\ UNCHANGED callVars

\* send_front_message returns at once when the front was sent by run_out
FlushSend ==
    /\ Goto("flush", "receive")
    /\ queue # << >>
    /\ \/ send_front_message
       \/ ~available_to_send(queue) /\ UNCHANGED vars
    /\ UNCHANGED callVars

FlushReceive ==
    /\ Goto("receive", "handle")
    /\ receive_blocking
    /\ UNCHANGED callVars

FlushHandle == Goto("handle", "flush") /\ claim_and_handle

\* The loop is over; the call returns message_error and message_data.
FlushEnd ==
    /\ Goto("flush", "return")
    /\ queue = << >>
    /\ stream_paused' = call.paused
    /\ UNCHANGED << vars, functions, stream_enabled, resultVars, call >>

Return == Goto("return", "idle") /\ UNCHANGED << vars, callVars >>

-----------------------------------------------------------------------------
enable_stream ==
    /\ pc = "idle" /\ stream_enabled' = TRUE
    /\ UNCHANGED << vars, pc, functions, stream_paused, resultVars, call >>

disable_stream ==
    /\ pc = "idle" /\ stream_enabled' = FALSE
    /\ UNCHANGED << vars, pc, functions, stream_paused, resultVars, call >>

open_serial_port ==
    /\ pc = "idle" /\ reset_state
    /\ UNCHANGED << pc, callVars >>

Environment == (Tick \/ Arrive) /\ UNCHANGED << pc, callVars >>

Thread ==
    \/ run \/ RunIn \/ Claim \/ handle_stream \/ RunOut
    \/ \E c \in Calls : blocking_call(c)
    \/ FlushSend \/ FlushReceive \/ FlushHandle \/ FlushEnd \/ Return

ActuatorInit ==
    /\ Init
    /\ pc = "idle" /\ functions = << >>
    /\ stream_enabled = FALSE /\ stream_paused = FALSE
    /\ message_error = {} /\ message_data = NoData /\ stream_cache = NoData
    /\ call = [id |-> 0, important |-> FALSE, paused |-> FALSE]
    /\ handled = [id |-> 0, retries |-> 0]

ActuatorNext ==
    Thread \/ enable_stream \/ disable_stream \/ open_serial_port \/ Environment

ActuatorSpec == ActuatorInit /\ [][ActuatorNext]_actuatorVars

\* The thread keeps running, and its wait for an answer ends.
ActuatorFairSpec == ActuatorSpec /\ WF_actuatorVars(Thread)

-----------------------------------------------------------------------------
(* Properties                                                              *)

\* run and flush use the client as it has to be used: a transaction is taken
\* only when it is finished, and receive_blocking waits for one that is out.
KeepsClientContract == Spec

\* A blocking call returns the outcome of its own request, not of a stream
\* command or a failed try that flush handled on the way, and it reports an
\* error for an important request only when the last retry has failed.
ResultIsOwn ==
    pc = "return" =>
        /\ handled.id = call.id
        /\ message_error # {} /\ call.important => handled.retries = MaxRetries
        /\ message_error = {} /\ message_data # NoData =>
               message_data.of.id = call.id

\* The Actuator keeps the queue short: at most the command or the failed try
\* in front and one request behind it, however run and calls alternate.
QueueStaysShort == Len(queue) <= 2

\* flush ends: every blocking call returns.
CallReturns == pc = "flush" ~> pc = "return"

\* A blocking call that reports no error has succeeded (OrcaError: "evaluation
\* of false means the operation completed successfully").
NoErrorMeansSuccess ==
    pc = "return" /\ message_error = {} => call.id \in settled

\* The stream cache holds data of valid answers only (run_in: "Parses
\* successful messages").
CacheIsValid == stream_cache # NoData => stream_cache.valid
=============================================================================
