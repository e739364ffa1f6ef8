# A TLA+ verification project for orcaSDK

orcaSDK is the client library for Orca linear motors: it speaks Modbus RTU over
a serial line, one motor to a port, and is driven by the program that uses it.
This directory models its communication core, checks it with TLC and proves its
central invariants with TLAPS. Paths below are paths of the repository.

## 1. The system

| Component | State | Operations | Used by / uses |
|---|---|---|---|
| `Transaction` (`src/transaction.h`) | request frame and index of the next byte to send, bytes received, expected length, importance, retries, state, failure bits | load, mark queued / sent / finished, load a received byte, validate, invalidate, generate_retry | held by the queue, written through a pointer to the front |
| `MessageQueue` (`src/message_queue.h`) | a list of transactions | enqueue at the end, insert_next behind the front, dequeue the front, reset | `ModbusClient` |
| `ModbusClient` (`src/modbus_client.h`) | the queue, one timer (which, and since when) | run_in, run_out, send_front_message, receive_blocking, enqueue, dequeue, reset_state | called by `Actuator` and `OrcaStream`, calls `SerialInterface` and `Clock` |
| `Actuator` (`actuator.h`, `src/actuator.cpp`) | last error and data, stream cache, pause switch | run, every blocking read and write (enqueue, then flush), open_serial_port, set_mode, stream switches | the user's thread |
| `OrcaStream` (`src/orca_stream.*`) | enabled, mode, commanded values | handle_stream: queue one stream command when the queue is empty | called from `Actuator::run_out` |
| request functions (`src/standard_modbus_functions.*`) | none | build a frame; expected answer length, priority | `Actuator` |
| `SerialASIO` (`src/SerialASIO.h`) | bytes to send, bytes read, expected length, two locks, a condition variable | tx_enable, receive_byte, receive_bytes_blocking; write and read handlers on an io thread | implements `SerialInterface` |
| `command_and_confirm` | none | write / read / read under a deadline | `set_mode` |
| setters and getters of `Actuator` (`src/actuator.cpp`, `orca600_api/`) | none here; the motor's registers | one blocking call each, two for `tune_position_controller` | the user's thread |
| `windows_serial_interface.h` | two buffers, two overlapped operations and their flags, two mutexes | send_byte, tx_enable, receive_byte, open, close; a backend thread that polls | implements `SerialInterface` for Windows; `CMakeLists.txt` lists it, no source includes it |
| `ModbusCRC`, `DiagnosticsTracker`, `Timer`, `Log`, `OrcaError` | tables, counters, a start time, a file, a code | pure or I/O | everywhere |

A request is loaded into a transaction and enqueued. From there it is driven in
one of two ways: the program polls `run()`, so that `run_out` sends the front
and `run_in` collects its answer and watches the timer; or a blocking call
flushes the queue with `send_front_message` and `receive_blocking`. Both end
in `conclude_transaction`, which starts the interframe delay and queues a
retry, and then the transaction is taken from the front and handled.

What is hard: the two ways meet in one queue, so `flush` may find a stream
command in flight that `run` sent; the answer is matched to a request by
nothing but being next; one timer serves four purposes; a retry is a copy
inserted into the list while others wait; bytes are lost, damaged, early or
late; and behind the serial interface a second thread reads and writes.
`PROJECT.json` lists each hazard at its line.

What makes it correct, by component:

* client: the timer always belongs to a transaction; every request ends; requests
  keep their order and their retry budget; a finished result is not touched;
  receptions stay within the expected length; the interframe delay is kept;
* actuator: it uses the client as it has to be used; a blocking call returns, and
  with the outcome of its own request; the queue stays short; data shown to the
  user is data of a valid answer and a refusal is an error;
* serial interface: bytes of one exchange never become part of another; nothing
  is lost between a cancelled operation and its handler;
* Windows serial interface: two threads and operations that complete when they
  like neither lose, repeat nor reorder a byte, and neither thread waits for ever;
* setters and getters: what is in the motor's registers is what one call asked
  for, whole, whichever frames were lost or refused, and what a getter returns, unless
  the motor refused it, was measured;
* command and confirm: success means the motor has the new mode, and the stream
  follows it.

## 2. Modules

| Module | Models | Extends |
|---|---|---|
| `Transaction` | the record and its methods, as operators | - |
| `MessageQueue` | the list operations, as operators on sequences | `Transaction` |
| `ModbusClient` | the client, the line and the clock | `MessageQueue` |
| `RequestService` | abstract: requests served in order, tried at most `MaxRetries + 1` times | - |
| `Actuator` | `run()` and the blocking calls as a thread with a program counter, on top of the client | `ModbusClient` |
| `SerialASIO` | the serial interface: the calling thread, the io thread and its handlers, the port, the motor | - |
| `CommandAndConfirm` | the loop of `command_and_confirm` under `set_mode`, with the stream's mode and the motor's | - |
| `ModbusCRC` | the table-driven checksum, and its bitwise definition | - |
| `RegisterFrames` | request frames of blocking calls and of the stream, byte counts, expected lengths, the parsing of answers | `ModbusCRC` |
| `MotorRegisters` | every setter and getter of the actuator, the memory map they use, and the registers of the motor over calls that are lost, answered or refused | - |
| `WindowsSerial` | `windows_serial_interface.h`: the calling thread, the backend thread, their mutexes, overlapped reads and writes | - |
| `MCModbusClient`, `MCActuator`, `MCSerialASIO`, `MCCommandAndConfirm`, `MCRegisterFrames`, `MCMotorRegisters`, `MCWindowsSerial` | small constants for TLC | |
| `ModbusClient_proofs` | theorems about `ModbusClient`: the front and its timer, retries and order, results, receptions, valid answers, the interframe delay, and that the client implements the service | `ModbusClient` |
| `CommandAndConfirm_proofs` | theorems about `CommandAndConfirm` | `CommandAndConfirm` |
| `WindowsSerial_proofs` | theorems about `WindowsSerial` | `WindowsSerial` |
| `SerialASIO_proofs` | theorems about `SerialASIO` | `SerialASIO` |
| `Actuator_proofs` | theorems about `Actuator`, and the client's carried over to it | `Actuator`, `ModbusClient_proofs` |
| `MotorRegisters_proofs` | theorems about `MotorRegisters` | `MotorRegisters` |
| `ModbusCRC_proofs` | theorems about exclusive or, the tables and the checksum of a message | `ModbusCRC` |
| `RegisterFrames_proofs` | theorems about `RegisterFrames` | `RegisterFrames`, `ModbusCRC_proofs` |

The modules meet at the interfaces the code has. `ModbusClient` takes the serial
interface as bytes that arrive or do not; `SerialASIO` shows which of its
assumptions hold. `CommandAndConfirm` takes a blocking call as one step with any
of the outcomes `Actuator` allows. `RegisterFrames` opens the frames the others
treat as wholes, and `MotorRegisters` takes them as understood: it is about which
registers a call writes and reads, and what is left when some of the calls fail.

### How state corresponds to code

* `queue` is `messages`, the active transaction first; `timer` is
  `my_enabled_timer`; `elapsed` is `now - timer_start_time`, cut off at
  `Horizon`, where every timer has expired; `received` is what the serial
  interface holds (`read_data`); `line` is what is still to arrive.
* The history variables `submitted`, `sends`, `settled` and `quiet` record what
  the properties talk about and nothing reads them in a guard, except that the
  number of requests is bounded. `quiet` counts the ticks since a reception of at
  least one byte ended; one that ends in silence leaves it as it is.
* A byte is the frame it belongs to, the attempt that frame answers and its
  place in it. Address, function code bit and CRC follow from that: the address
  is right unless the frame is a stranger's or the reception does not start with
  a first byte; the CRC is right exactly for one whole undamaged frame. A
  damaged frame that passes the CRC by chance is left out; `RegisterFrames` shows
  the one way in which a single damaged byte leads to that.
* Handlers are atomic in `ModbusClient`, because client and actuator run on one
  thread and the serial interface can only add to `received` meanwhile. A byte
  that arrives inside the loop of `receive` is the same as one that arrived
  before `run_in` or one that is left for the next.
* `run_in` is the disjunction of what it can do: `receive_all` and
  `receive_part` are `receive()` with and without a byte that completes the
  reception (either restarts the timer, so the timer test after it finds
  nothing expired), `response_timeout`, `interchar_timeout` and
  `turnaround_delay` are the cases of the timer switch when there is nothing to
  receive. `run_out_send` and `run_out_idle` are `run_out` with and without a
  message to send.
* `conclude_transaction(t)` includes the retry and its insertion.
* Two reductions inside steps: `tx_enable` puts the whole answer, or a prefix of
  it, on the line when the request is sent, and delivery is what takes time;
  `flush_remaining_bytes` is visible in `run_out_idle` only, since `tx_enable`
  drops the same bytes again when a message is sent.
* `Actuator` splits `run()` and `flush()` at every call into the client, so that
  time and bytes move on between any two of them. `set_stream_paused(true)`
  happens with the enqueue, both on the same thread before anything can be seen.
* `SerialASIO`: each statement of `tx_enable` outside a lock, and each section
  under one, is a step; so are the two halves of the header's handler.
  `reads`, `write` and `posted` are asio's: operations outstanding, and handlers
  that are due. Reads stand in numbered places, a function from the places in
  use; a read takes a free place and leaves it when it ends. The handler of a cancelled read returns at once and is dropped.
  `resuming` is the moment when a read has part of its bytes and the io thread
  is about to start it again: `cancel` does not reach it then. A byte goes to any
  outstanding read. `send_byte` may move `send_data` under a running write; what
  that write sends is modelled as nobody's request. A write takes its bytes at
  once, and a request is two bytes, the first and the last.
* An exchange of `SerialASIO` is *quiet* if, when its first byte was queued, no
  handler was due, no byte on the line and no write running; a read that waits
  for an answer that never came does not matter. This is the condition under
  which `LateAnswers = FALSE` is justified in the other modules.
* `CommandAndConfirm`: `write_register_blocking` and `read_register_blocking`
  include the flush of a stream command that is out. A refused read returns
  without an error and with any value (`message_data[0]` of an empty vector).
  `commanded` lets the motor follow a write with any delay. `held` begins when
  `set_mode` succeeds with the motor in the goal, no other write still to take
  effect, and a mode the stream has a command for, which excludes
  `AutoZeroMode`; it ends with the next `set_mode` or an error of the motor.
* `ModbusCRC`: `Xor` is the operator `^` of the code on 16 bits, a recursive
  function, so that it can be reasoned about. `OverBytes` is the loop over a
  message, which the code and the definition of the checksum share; what a byte
  does to the sum they do not. It goes by halves, which is the same loop and
  keeps TLC's stack short for messages of 250 bytes. `generate_step` looks it up in the two tables,
  `Remainder` shifts it out bit by bit, eight shifts to a byte (`ShiftedOut`).
* `RegisterFrames` keeps the order of conversions (`uint8_t(num_registers) * 2`
  cut to 8 bits) and gives the frame to `Meaning`, which is written from the
  Modbus protocol and shares no definition but the pairing of bytes with the
  code's side. The 8-bit address is fixed. `StreamCalls` adds the stream's
  commands to the blocking ones: what `OrcaStream` was told is what the motor
  understands, and what the motor sensed is what `stream_cache` returns.
  `Reception` is what the client takes of the motor's frame: a function code with
  its high bit set ends it after five bytes. So damage to that bit cuts an
  answer, and what is left may have a right checksum: `01 03 04 40 F3 ..` becomes
  the exception `01 83 04 40 F3`. `DamageIsSeen` says that nothing else passes.
* `MotorRegisters`: a blocking call ends in one of three ways (`Outcomes`): it is
  lost, and the motor may have done it all the same; it is answered; or it is
  refused with an exception, which the caller is told as success.
  `tune_position_controller` is two calls, and sets its flag even after a gain
  write that was lost or refused, as the code does. The state
  is the motor's `registers`; a register nobody wrote is zero. The memory map is
  a function from names to addresses, put together from sections of consecutive
  names; the springs and the oscillators, whose names repeat, are sequences of
  sections. Arguments are made of seeds, which are 32-bit values. A setter's
  arguments are what the motor is to have, so a wrong address, order, half or
  neighbour shows in `Has`. `possible` is the set of arguments a setting may have
  by what the motor answered, `tuned` the arguments of every tune so far,
  `seen` what the quantity was while a getter ran. As a refusal is no error to the
  caller (the finding of `actuator_exception`), neither "reported success" nor
  "reported no error" is enough for `SettingsIntact` and `GetterIsTrue`: they
  count the calls that were answered. A refused getter returns what it finds in
  the storage of an empty `message_data` (`Leftovers`). Unsigned 32-bit values are
  kept as the signed ones with the same bits.
  IDs are those the
  motor has: the code does not check them.
* `WindowsSerial`: who holds a mutex follows from where the two threads are. A
  call takes `light_mutex`, which is the step before it, and does its work under
  `backend_thread_mutex` in one step; the backend's iteration is one step for
  each operation it looks at, all under its mutex, then `pass_light_mutex`.
  Resetting the event and `ReadFile` are one step, and so are locking and
  `handle_write_complete`. `reads` and `writing` are the operations the port
  has; `read_overlapped` is what their `OVERLAPPED` shows. When a read failed,
  the number of bytes is uninitialised, so one byte or none is appended, and
  that byte is what the buffer happens to hold. At most one operation fails
  after an open. `stale` says that the port was opened again with
  `read_in_progress` still set: the open starts a second read on the same
  `OVERLAPPED`, after which the backend may wait in `GetOverlappedResult` with
  its mutex held and every call wait for that mutex. The system may really stop
  there, so this run does not check deadlock, and its properties are about ports
  opened without such a trace. `adjust_baud_rate`, an open that fails and the 512
  bytes of a write's buffer are left out. The class overrides neither
  `receive_bytes_blocking` nor `open_serial_port` with a path.
* Left out: logging, counters, the texts of errors, a serial interface whose
  `ready_to_send` is false (SerialASIO always returns true), and a call to
  `open_serial_port` that fails (it changes nothing in the client).

## 3. Runs

| Run | Module, cfg | Question | Outcome |
|---|---|---|---|
| `client_safety` | `MCModbusClient`, `MCClientSafety.cfg` | does the client keep its invariants however its operations are mixed, and implement `RequestService`? | holds |
| `client_polled` | `MCClientPolled.cfg` | what polling alone guarantees: bounded receptions, interframe delay, every request ends | holds |
| `actuator` | `MCActuator`, `MCActuator.cfg` | do `run()` and blocking calls use the client correctly, and return their own result? | holds |
| `actuator_interframe` | `MCActuatorInterframeObserved.cfg` | does flush keep the interframe delay after bytes were received? | violated |
| `actuator_exception` | `MCActuatorNoErrorMeansSuccess.cfg` | does a refused call report an error? | violated |
| `actuator_cache` | `MCActuatorCacheIsValid.cfg` | is the stream cache filled from valid answers only? | violated |
| `serial_asio` | `MCSerialASIO`, `MCSerialASIO.cfg` | in a quiet exchange, does the caller get its answer's bytes, all and no others, whatever the threads do? | holds |
| `serial_write` | `MCSerialASIO`, `MCSerialWrite.cfg` | does `tx_enable` write everything that was queued? | violated |
| `command_and_confirm` | `MCCommandAndConfirm`, `MCCommandAndConfirm.cfg` | does success of `set_mode` mean the mode, failure a reason, and does the stream keep it? | holds |
| `register_frames` | `MCRegisterFrames`, `MCRegisterFrames.cfg` | do frames mean to the motor what the caller or the stream meant, and does a damaged answer never pass for the one asked for? | holds |
| `windows_serial` | `MCWindowsSerial`, `MCWindowsSerial.cfg` | are bytes written and read once and in order, does every call return and every transfer end, over two opens and a failure? | holds |
| `motor_registers` | `MCMotorRegisters`, `MCMotorRegisters.cfg` | is every setting what one call asked for, are the gains in use of one tune, and do getters return what was measured, over calls lost, answered or refused? | holds |

What the violated runs show, with the lines of code and of documentation that
disagree, is under `findings` in `PROJECT.json`. In short: `flush` sends a
retry in the very tick in which bytes of an answer came in and were given up;
an undamaged exception response leaves `message_error` empty; the function code
and registers of an invalid reception are parsed all the same; and the handler
of an earlier write clears all of `send_data`, so bytes queued after that write
began may never be sent.

Three more disagreements have no run. A broadcast is never taken from the front
of a polled client (`EveryRequestEnds` is checked for requests that want an
answer). `receive_blocking` has no timeout of its own, so silence is reported as
a wrong address and a wrong CRC. And `set_mode` fails with "within 25ms"
(`actuator.cpp`), while the loop waits for the default of 125 ms.

### Bounds

* `MaxRequests` is 2, or 3 for the actuator: one request in front with its retry
  and one behind is all the queue's operations tell apart, and a blocking call
  that meets a stream command needs two. The third lets a call follow a call.
* `MaxRetries` is 1 instead of 5: first try, a retry, the last retry failing.
* A data frame has 3 bytes, an exception 2 (`ExceptionLength`, 5 in the code).
  That keeps too few bytes, an exception that completes early, the whole frame,
  and bytes left over. `MaxLine` is 3 bytes in flight, so with late answers the
  rest of an old frame and the start of a new one share the line.
* Timeouts of 0 or 1 tick: a timer expires when *more* ticks than that passed,
  and bytes may arrive in any tick, so early, just late and never all happen.
  `client_safety` gives one tick to the response timeout, so that a part of an
  answer can precede or follow its expiry.
* Frame kinds: `client_safety` leaves out only the damaged frame whose function
  code is intact, as the damaged one that looks like an exception takes the same
  paths and one more; `client_polled` uses data, exception
  and the damaged frame that looks like an exception, one for each way a
  reception can end; `actuator` uses data and exception, as a frame cut short is
  invalid already.
* `SerialASIO` has two requests, of which the second may be quiet or not, an
  answer of 4 bytes and an exception of 3, so that each has a header and a rest
  and the rests differ in length. Two exchanges are all that state is carried
  over; a third does not finish in reasonable time.
* `CommandAndConfirm`: a deadline and a slowest call of 3 ticks each, so that the
  deadline falls before, between and after reads of the first round; the modes
  are one for each case of the stream's switch that differs: sleep, a mode with
  a register for its command, one with a code of its own, and one without any.
* `RegisterFrames`: 1, 2 and the largest number of registers (125 read, 64
  written: one more overflows `rx_buffer` or `data[128]`), addresses and values
  at both ends of their range, the limits of 32 bits, and three kinds of damage
  at every byte of an answer. One of the kinds is the high bit, and one of the
  addresses, 12286, has the motor answer with the bytes above, so that the cut
  answer with a right checksum does occur.
* `MotorRegisters`: `MaxCalls` is 2, any call followed by any other, which is
  enough for a setting to be lost, overwritten or touched by a neighbour's call.
  The two seeds are the largest 32-bit value and one whose halves both have a
  sign of their own; the words of a call are made of its seed and all differ.
  Motions are the first two and the last, so that neighbours meet and the map
  ends; the next motion is left out or given. `Leftovers` are zero and the
  smallest word with a sign.
* `WindowsSerial`: `MaxOpens` is 2 and `MaxBytes` 2 each way: a byte behind
  another, a byte that comes while the last one is handled, and a second open
  over what the first left. One failure after each open.
* No symmetry is used: requests are numbered.

### Fairness

`FairSpec` assumes what `actuator.h` asks of its user ("you must call this
function in a regular loop"): the clock ticks, and `run_in`, `run_out` and the
claim of a finished response are not put off for ever. Nothing is assumed of the
line or of the motor. `ActuatorFairSpec` assumes only that the calling thread
goes on: `receive_bytes_blocking` returns after 25 ms at the latest, so its wait
ends. No call is assumed to be made. `FairSpec` of `SerialASIO` lets the io thread
run, which is a thread of its own, and the port write and deliver what it has;
the motor need not answer. `FairSpec` of `CommandAndConfirm` lets the calling
thread go on inside `set_mode`, whose blocking calls return (`CallReturns`).

`FairSpec` of `WindowsSerial` lets both threads and the port go on. It is weak
fairness for all but `pass_light_mutex`: there the backend waits for a mutex
that the calling thread takes and gives back with every call, so it may be
enabled and disabled for ever. The client leaves that mutex for milliseconds
between calls, and a comment in the loop says that it is there to let the
other thread in, which justifies strong fairness. Of `backend_thread_mutex`
nothing is assumed: whoever waits for it gets it because an iteration ends.

`LateAnswers` is FALSE where a property needs that no byte outlives the pause
before the next request (`ValidAnswerIsOwn`, `ResultIsOwn` with it): with late
bytes the protocol cannot tell an old answer from a new one, as Modbus RTU
answers carry no number. The hazard list says so.

## 4. Proofs

`ModbusClient_proofs` proves, for every set of requests, every retry limit,
every timeout, with late answers or without, and with blocking calls or without:

* `TypeCorrect`, `TimerAlwaysHasActive`, `ActiveAlwaysTimed`,
  `OnlyFrontEverProgresses` from the inductive invariant `FrontInv`;
* `SendBudgetKept`, `AlwaysServedInOrder`, `SuccessAlwaysEndsRequest`,
  `RetryAlwaysFollowsFailure` from `FrontInv /\ RequestInv`.

`TimerHasActive` is not inductive by itself: receiving and concluding need that
the front is the active transaction, that it waits for at least one more byte
(`ActiveInv`), and that those behind it are untouched (`StatesInv`), since one
of them becomes the front. `RequestInv` relates a place in the queue to the
histories: a transaction with `n` retries has been sent `n` times while queued
and `n + 1` times after (`AttemptInv`), numbers grow along the queue except for
a failed front and its retry (`OrderInv`), and that retry is there (`RetryInv`).

The argument goes by what a step does to the queue place by place: lemmas
`EnqueueEffect`, `DequeueEffect`, `ConcludeEffect`, `SendEffect` and
`PartEffect` say so once, `ConcludingStep` reduces the four ways a reception
ends to one, and each invariant has one lemma for each of these kinds of step.

The same module proves `ResultAlwaysKept` and `IntercharAlwaysKnowsLength` for
every client, and, for one that is only polled (`BlockingCalls = FALSE`),
`PolledAlwaysObservesInterframe` and `PolledReceptionWithinLength`. The delay
needs `QuietInv`: the interframe timer is no older than the pause since the last byte. The
length needs that `receive` stops at the byte that completes the reception, and
that a reception under way still waits for one. `actuator_interframe` shows that
the assumption on the first is needed, and `receive_blocking`, which takes
whatever is there, that the one on the second is.

`ValidAnswerAlwaysOwn` says that an answer taken for valid answers that very
attempt. It assumes `LateAnswers = FALSE` and is about polled and blocking use
alike. `OwnInv` says that all the active transaction has read, and all it may
read yet, answers its present attempt; `ValidInv` that a valid result had a
right checksum, hence is a whole frame and not empty.

Last comes `ClientImplementsService`: the client implements `RequestService`. The mapping leaves out a failed transaction whose
retry stands behind it; `RequestInv` says when that is so, that nobody else
shares a request, and that whoever comes to the front next was never sent. Each
kind of step of the client is one lemma that names the step of the service.

`CommandAndConfirm_proofs` proves, for every set of modes, deadline and duration
of a call, `ConfirmTypeCorrect`, `ConfirmedModeReached`, `StreamAlwaysHoldsMode`,
`DeadlineAlwaysKept` and `AlwaysFailsForAReason` from `ConfirmInv`. Each property
but the first two needs more than itself: `TimeInv` says when calls begin;
`HoldInv` that whatever is still on its way to the motor, a stream command or a
write, asks for the mode it has, and that the last read leaves no stream command
out; `ReasonInv` follows an undisturbed call through write and first read. There
is one lemma for each kind of step, and two for what a blocking call does.

`WindowsSerial_proofs` proves, for any number of opens and bytes,
`WindowsTypeCorrect`, `AlwaysWrittenInOrder` and `AlwaysReadInOrder` from
`WindowsInv`. `WriteInv` is about the write path: a write is outstanding only
while `write_in_progress` is set, so that `tx_enable` never replaces the bytes
of one. `ReadInv` says that a byte the port gave is in exactly one place: taken,
in `rcvBuf`, or in the one-byte buffer the reads share, and for the last
(`OneRead`) who is to take it from there: no read runs (`NoRead`), one is
outstanding (`Waiting`), it has completed and is not handled yet (`Ahead`), or
the close aborted it (`Aborted`). Both need `CallInv`, what a call under way
implies, and `ClosedInv`, what a closed port has: no backend thread, no
outstanding operation. The lemmas go by what a step touches, so that each
invariant is argued for the few steps that can disturb it.

`SerialASIO_proofs` proves, for answers and exceptions of any length and any
number of requests, `SerialTypeCorrect` (no read reaches past `read_buffer`),
`OwnBytesTheorem`, `WritesOwnRequestTheorem`, `BufferHasOneUserTheorem` and, as
an action property, `NotifiedMeansWholeTheorem`, from `SerialInv`. All but the
first are about quiet exchanges. `OwnBytes` alone says nothing of bytes that are
still on their way, and so cannot be inductive: `ExchangeInv` says that a quiet
exchange is either being prepared with nothing under way, or in one of eight
phases, from `Writing` over `ReadingHeader` to `Finished`. In each but the
last exactly one operation or handler is outstanding, and in all of them each
byte of the answer is in one place: taken, in `read_buffer` or on the line. `SendInv` is needed between
exchanges: bytes left in `send_data` have a handler on its way that clears them,
so an exchange that begins with no handler due begins with no bytes of another.

`Actuator_proofs` proves, for any calls, timeouts, retry limit and number of
requests, `ActuatorKeepsClientContract`, `QueueAlwaysShort` and `OutcomeIsOwn`,
and with `LateAnswers = FALSE` also `ResultAlwaysOwn`. The first is the
composition: every step of an `Actuator` is a step of the client's
specification or leaves the client alone, since a transaction is taken only
when it is finished, and `receive_blocking` is called only for a request that
is out (`ContractInv`). With it whatever is proved of the client holds inside
an `Actuator`: `ActuatorImplementsService` and `ActuatorAnswerIsOwn`. `ShortInv`
says that `run` leaves no more than one stream command, which is never retried,
so a call finds at most that. `CallInv` says that the last in the queue is the
call's request or its retry, so what `flush` handled last, when the queue is
empty, was the call's (`OutcomeIsFinal`), and an error then was that of the
last retry. `DataInv` follows the registers of that answer.

`MotorRegisters_proofs` proves, for all 32-bit arguments and any sequence of
calls, lost, answered or refused, `SettingsAlwaysIntact`, `GainsAlwaysOfOneCall`, `GetterAlwaysTrue` and the
action property `NeighboursUndisturbed`, from `RegistersInv`. The argument is
about addresses. A setting lives in a `Place`, a range of registers; no two
places meet (`PlacesApart`), whatever the motion, spring or oscillator; what a
setting `Has` depends on its place only (`HasUnchanged`); and a setter writes
all of the place of its setting and leaves there what it was given
(`SettersRight`), which for wide values needs that two 16-bit halves combine to
the value they were taken from, negative or not (`CombineHalves`). `GainsInv`
adds to `GainsOfOneCall` that the gains a flag would take over *now* are those
of one tune, since the flag is a call of its own and is written even when the
write of the gains was lost or refused. `GetterInv` says that the level a running getter
would measure is among those it has seen.

`ModbusCRC_proofs` proves `ChecksumIsRemainder`, that the checksum of the two
tables is the remainder by the polynomial for every message of any length, and
`DamageChangesChecksum`, that two messages of one length which differ in one byte
have different checksums. The library's induction theorems are out of reach, as
they have an operator for a parameter. `Induction` and `StrongInduction` are
stated for sets of numbers instead, from the least number of a set, which is
`WFMin` of the well-founded order of the numbers. They give that the recursive
functions exist (`XorExists`, `OverBytesRuns`) and then what they compute.
Exclusive or is argued digit by digit: it stays within 16 bits, commutes,
associates and cancels. With that `Shift` is linear (`ShiftLinear`) and, because
the polynomial's highest bit shows whether it was applied, injective
(`ShiftInjective`). An entry of the tables is eight shifts of its index
(`TablesHoldShifts`): it is enough to look at an even index, whose entry is
shifted to that of its half, and at an odd one, whose entry is the sum of that of
the index before and that of 1. So one step of the code is eight shifts
(`StepIsShifts`), and two loops whose steps keep a relation end in it
(`OverBytesRelated`): "the same sum" for the first theorem, "the same before the
damaged byte, different ever after" for the second.

`RegisterFrames_proofs` proves the three invariants of its run,
`RequestIsUnderstood`, `AnswerIsReadBack` and `DamageIsAlwaysSeen`, for every
number of registers that fits, every address, all values and every damage of one
byte. A frame is taken apart by what it `Holds` at a place: a byte, a word, a
32-bit value, a row of registers. Words, wide values of either sign and registers
come back as they went in (`WordBytes`, `WideRoundTrip`, `RegistersRoundTrip`);
`FrameParts` says that a request passes the motor's checksum, which is
`ChecksumIsRemainder`. On that there is one lemma for each kind of call and its
request, and for each kind of answer, gathered in `CallIsUnderstood` and
`CallIsAnswered`. That damage is found is `DamageChangesChecksum` when a byte of
the body is changed, and plain when it is one of the two bytes of the checksum;
that holds for answers received whole. A motor's answer is never taken for an
exception (`AnswerIsNormal`), so a received frame is the answer, the answer with
one byte changed, or one cut short that says exception (`ReceptionKinds`).
None of the three invariants is inductive, as each is about one stage only:
`FramesInv` says of every stage what its frames were made of.

Assumptions used: the constants' own (`RetryAssumption`,
`ExceptionLengthAssumption`, `RequestsAssumption`, `TimesAssumption`,
`ModesAssumption`, `ActuatorAssumption`, `ConfirmAssumption`,
`WindowsAssumption`, `SerialAssumption`, `MotorAssumption`, `LeftoversAssumption`,
`FramesAssumption`), which TLC evaluates in every run of their module. Beyond
them a theorem has a hypothesis only where it says so: `BlockingCalls = FALSE` for the two about polling, and
`LateAnswers = FALSE` for `ValidAnswerAlwaysOwn`, `ActuatorAnswerIsOwn` and
`ResultAlwaysOwn`.

Every safety invariant, action property and refinement that a passing run checks
is a theorem. Only model-checked: what needs fairness (`EveryRequestEnds`,
`CallReturns`, `AnswerDelivered`, `SetModeReturns`, `FreshCallReturns`,
`TransfersEnd`), since liveness and ENABLED are out of the prover's reach.

## 5. Plan

The modules and runs above are what was planned: the client, the actuator on top
of it, the serial interface below, then `set_mode`, the frames, the registers
behind them and the Windows interface. Every safety property of theirs has its
theorem. Left: an abstract exchange (request written, answer delivered, whole or
not at all) that `SerialASIO` implements in a quiet exchange, from `ExchangeInv`.

## 6. Not modelled

* `SerialASIO`: opening, closing and destroying the port with handlers
  outstanding (the io thread may hold the last reference).
* `Actuator`: serial logging and `time_since_last_response`; and reconfiguring a
  timeout while it runs.
* `DiagnosticsTracker`: counters that decide nothing.
* `Log` and the `Timer` tool: file output, and a class the library does not use.
* `reg_names.h`, and the registers and flags no setter or getter uses: names.
