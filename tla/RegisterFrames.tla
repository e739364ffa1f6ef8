--------------------------- MODULE RegisterFrames ---------------------------
(***************************************************************************)
(* What becomes of a blocking read or write on the wire and back: the      *)
(* wrappers of actuator.cpp, the request functions, load_transmission_data *)
(* and the parsing of handle_transaction_response, with their integer      *)
(* widths, against a motor that takes frames apart as Modbus defines them; *)
(* and the same for a stream command and its answer.                       *)
(***************************************************************************)
EXTENDS ModbusCRC

CONSTANTS Reads, Writes, Starts, Seeds, Wides, Flips
\* Reads, Writes: numbers of registers read and written in one call
\* Starts: addresses of first registers
\* Seeds: what the registers and the values written look like
\* Wides: 32-bit values streamed; Flips: bits damaged in a byte of an answer

MaxRead == 125   \* MAX_NUM_READ_REG: more do not fit into an answer
MaxWrite == 64   \* more do not fit into the wrappers' data[128]

\* int32_t
Wide == {w \in Int : -2147483647 - 1 <= w /\ w <= 2147483647}

ASSUME FramesAssumption ==
    /\ Reads \subseteq 1..MaxRead /\ Writes \subseteq 1..MaxWrite
    /\ Starts \subseteq Word /\ Seeds \subseteq Word
    /\ Wides \subseteq Wide /\ Flips \subseteq Byte \ {0}

VARIABLES
    stage,          \* "idle", "sent", "answered", "received" or "handled"
    call,           \* the blocking call: function code, registers, values
    tx_buffer,      \* the request
    rx_buffer,      \* the answer as received
    damaged,        \* history: a byte of it was changed on the line
    message_data,   \* the registers the call returns
    stream_data     \* what the answer put into stream_cache

results == << message_data, stream_data >>
vars == << stage, call, tx_buffer, rx_buffer, damaged, results >>

read_holding_registers == 3
write_single_register == 6
write_multiple_registers == 16
read_write_multiple_registers == 23
motor_command == 100

uint8_t(x) == x % 256
uint16_t(x) == x % 65536
HighAndLow(x) == << uint8_t(x \div 256), uint8_t(x) >>

Pair(high, low) == high * 256 + low

\* The bytes of registers, and the registers out of bytes from `first` on.
BytesOf(registers) ==
    [i \in 1..2 * Len(registers) |->
        HighAndLow(registers[(i + 1) \div 2])[2 - (i % 2)]]

RegistersAt(bytes, first, count) ==
    [i \in 1..count |-> Pair(bytes[first + 2 * (i - 1)], bytes[first + 2 * i - 1])]

Values(seed, start, count) ==
    [i \in 1..count |-> uint16_t(seed + 4099 * i + (start % 256))]

-----------------------------------------------------------------------------
(* The calls and their frames.                                             *)

\* A stream command is made of what OrcaStream holds, `stream`.
Call(function, start, read, data, stream) ==
    [function |-> function, start |-> start, read |-> read, data |-> data,
     stream |-> stream]

MotorMode ==
    {"SleepMode", "ForceMode", "PositionMode", "HapticMode", "KinematicMode",
     "AutoZeroMode"}

OrcaStream(mode, force, position, effects) ==
    [comms_mode |-> mode, force_command |-> force, position_command |-> position,
     haptic_command_effects |-> effects]

NoStream == OrcaStream("SleepMode", 0, 0, 0)

\* After the setters of the three values, whichever mode it is in.
StreamCalls ==
    {Call(motor_command, 0, 0, << >>, OrcaStream(mode, w, -1 - w, uint16_t(w))) :
         mode \in MotorMode, w \in Wides}

BlockingCalls ==
    LET Read == read_holding_registers  Write == write_multiple_registers
        Single == write_single_register  Both == read_write_multiple_registers
    IN  {Call(Read, s, n, << >>, NoStream) : s \in Starts, n \in Reads}
        \cup {Call(Single, s, 0, Values(v, s, 1), NoStream) : s \in Starts, v \in Seeds}
        \cup {Call(Write, s, 0, Values(v, s, n), NoStream) :
                  s \in Starts, v \in Seeds, n \in Writes}
        \cup {Call(Both, s, n, Values(v, s, m), NoStream) :
                  s \in Starts, v \in Seeds, n \in Reads, m \in Writes}

\* Mutant: the number of registers where the number of bytes belongs.
num_bytes_Registers(registers) == uint8_t(registers)

\* 8 bits wide, the conversion first
num_bytes(registers) == uint8_t(uint8_t(registers) * 2)

FORCE_CMD == 28
POS_CMD == 30
kinematic_command_code == 32
haptic_command_code == 34

\* Any other command code puts the motor to sleep.
motor_stream_command(s) ==
    CASE s.comms_mode = "ForceMode" -> << FORCE_CMD, s.force_command >>
      [] s.comms_mode = "PositionMode" -> << POS_CMD, s.position_command >>
      [] s.comms_mode = "KinematicMode" -> << kinematic_command_code, 0 >>
      [] s.comms_mode = "HapticMode" ->
             << haptic_command_code, s.haptic_command_effects >>
      [] OTHER -> << 0, 0 >>

\* 32 bits, the highest first
WideBytes(value) ==
    HighAndLow(uint16_t(value \div 65536)) \o HighAndLow(uint16_t(value))

motor_command_fn(s) ==
    << motor_stream_command(s)[1] >> \o WideBytes(motor_stream_command(s)[2])

\* The data of the frame, after address and function code.
FramingData(c) ==
    CASE c.function = read_holding_registers ->
             HighAndLow(c.start) \o HighAndLow(c.read)
      [] c.function = write_single_register ->
             HighAndLow(c.start) \o HighAndLow(c.data[1])
      [] c.function = write_multiple_registers ->
             HighAndLow(c.start) \o HighAndLow(Len(c.data))
                 \o << num_bytes(Len(c.data)) >>
      [] c.function = read_write_multiple_registers ->
             HighAndLow(c.start) \o HighAndLow(c.read)
                 \o HighAndLow(c.start) \o HighAndLow(Len(c.data))
                 \o << num_bytes(Len(c.data)) >>
      [] c.function = motor_command -> motor_command_fn(c.stream)

WriteData(c) ==
    IF c.function \in {write_multiple_registers, read_write_multiple_registers}
    THEN BytesOf(c.data) ELSE << >>

expected_length(c) ==
    CASE c.function \in {write_single_register, write_multiple_registers} -> 8
      [] c.function = motor_command -> 19
      [] OTHER -> 5 + 2 * c.read

ServerAddress == 1

WithCrc(bytes) ==
    LET crc == generate(bytes) IN bytes \o << crc.hi, crc.lo >>

load_transmission_data(c) ==
    WithCrc(<< ServerAddress, c.function >> \o FramingData(c) \o WriteData(c))

-----------------------------------------------------------------------------
(* The motor, as Modbus has it: what a frame means to it, or nothing, and  *)
(* its answer.                                                             *)

CrcIsRight(frame) ==
    LET body == SubSeq(frame, 1, Len(frame) - 2)  n == Len(frame) IN
    [hi |-> frame[n - 1], lo |-> frame[n]] = ReferenceCrc(body)

Nothing == [read |-> << >>, write |-> << >>, command |-> << >>]

\* A 32-bit value from a place of a frame on.
WideAt(frame, at) ==
    LET high == Pair(frame[at], frame[at + 1])  low == Pair(frame[at + 2], frame[at + 3])
    IN  (IF high < 32768 THEN high ELSE high - 65536) * 65536 + low

CommandAt(frame, at) ==
    CASE frame[at] = FORCE_CMD -> << "ForceMode", WideAt(frame, at + 1) >>
      [] frame[at] = POS_CMD -> << "PositionMode", WideAt(frame, at + 1) >>
      [] frame[at] = kinematic_command_code -> << "KinematicMode" >>
      [] frame[at] = haptic_command_code -> << "HapticMode", WideAt(frame, at + 1) >>
      [] OTHER -> << "SleepMode" >>

\* The first register and the number of registers at a place of a frame.
Span(frame, at) == RegistersAt(frame, at, 2)

\* A write of as many registers as the frame has room and a count for.
WriteAt(frame, at) ==
    LET count == Span(frame, at)[2] IN
    IF frame[at + 4] = 2 * count /\ Len(frame) = at + 6 + 2 * count
    THEN << Span(frame, at)[1], RegistersAt(frame, at + 5, count) >>
    ELSE << >>

Meaning(frame) ==
    IF Len(frame) < 8 \/ ~CrcIsRight(frame) THEN Nothing
    ELSE CASE frame[2] = read_holding_registers ->
                  [Nothing EXCEPT !.read = Span(frame, 3)]
           [] frame[2] = write_single_register ->
                  [Nothing EXCEPT !.write =
                       << Span(frame, 3)[1], << Span(frame, 3)[2] >> >>]
           [] frame[2] = write_multiple_registers ->
                  [Nothing EXCEPT !.write = WriteAt(frame, 3)]
           [] frame[2] = read_write_multiple_registers ->
                  [Nothing EXCEPT !.read = Span(frame, 3), !.write = WriteAt(frame, 7)]
           [] frame[2] = motor_command ->
                  [Nothing EXCEPT !.command = CommandAt(frame, 3)]

\* The registers of the motor.
Contents(start, count) == Values(start, 7 * start, count)

\* What it senses when a stream command comes, and says in its answer.
Sensed(c) ==
    LET w == c.stream.force_command IN
    [position |-> w, force |-> -1 - w, power |-> uint16_t(w),
     temperature |-> uint8_t(w), voltage |-> uint16_t(w \div 65536),
     errors |-> uint16_t(4099 - (w \div 2))]

StreamBody(s) ==
    WideBytes(s.position) \o WideBytes(s.force) \o HighAndLow(s.power)
        \o << s.temperature >> \o HighAndLow(s.voltage) \o HighAndLow(s.errors)

Answer(c) ==
    LET header == << ServerAddress, c.function >>
        second == IF c.function = write_single_register THEN c.data[1] ELSE Len(c.data)
        body == CASE c.function = motor_command -> StreamBody(Sensed(c))
                  [] c.read > 0 ->
                         << 2 * c.read >> \o BytesOf(Contents(c.start, c.read))
                  [] OTHER -> HighAndLow(c.start) \o HighAndLow(second)
        crc == ReferenceCrc(header \o body)
    IN  header \o body \o << crc.hi, crc.lo >>

-----------------------------------------------------------------------------
(* The answer is checked and taken apart.                                  *)

\* Mutant: the first of its two bytes is compared.
check_rx_buffer_crc_OneByte(frame) ==
    /\ Len(frame) >= 2
    /\ generate(SubSeq(frame, 1, Len(frame) - 2)).hi = frame[Len(frame) - 1]

check_rx_buffer_crc(frame) ==
    /\ Len(frame) >= 2
    /\ WithCrc(SubSeq(frame, 1, Len(frame) - 2)) = frame

\* Mutant: the byte count is read as the first byte of the registers.
parse_registers_AtCount(c, frame) ==
    IF c.read > 0 THEN RegistersAt(frame, 3, c.read) ELSE << >>

\* The function code is the answer's, num_registers is the request's; the
\* registers follow the byte count.
parse_registers(c, frame) ==
    IF frame[2] \in {read_holding_registers, read_write_multiple_registers}
    THEN RegistersAt(frame, 4, c.read) ELSE << >>

parse_stream_data(frame) ==
    IF frame[2] # motor_command THEN << >>
    ELSE [position |-> WideAt(frame, 3), force |-> WideAt(frame, 7),
          power |-> Pair(frame[11], frame[12]), temperature |-> frame[13],
          voltage |-> Pair(frame[14], frame[15]), errors |-> Pair(frame[16], frame[17])]

-----------------------------------------------------------------------------
(* The steps of a call.                                                    *)

is_error_response(frame) == frame[2] >= 128

\* What the client takes of a frame: an exception is five bytes long, and
\* its function code alone says that it is one.
Reception(frame) == IF is_error_response(frame) THEN SubSeq(frame, 1, 5) ELSE frame

blocking_call(c) ==
    /\ stage = "idle" /\ stage' = "sent"
    /\ call' = c
    /\ tx_buffer' = load_transmission_data(c)
    /\ rx_buffer' = << >> /\ damaged' = FALSE
    /\ message_data' = << >> /\ stream_data' = << >>

MotorAnswers ==
    /\ stage = "sent" /\ stage' = "answered"
    /\ rx_buffer' = Answer(call)
    /\ UNCHANGED << call, tx_buffer, damaged, results >>

AnswerArrives ==
    /\ stage = "answered" /\ stage' = "received"
    /\ rx_buffer' = Reception(rx_buffer)
    /\ UNCHANGED << call, tx_buffer, damaged, results >>

\* One byte of the answer is damaged.
DamagedAnswerArrives ==
    /\ stage = "answered" /\ stage' = "received"
    /\ \E i \in DOMAIN rx_buffer, bits \in Flips :
           rx_buffer' = Reception([rx_buffer EXCEPT ![i] = @ ^^ bits])
    /\ damaged' = TRUE
    /\ UNCHANGED << call, tx_buffer, results >>

handle_transaction_response ==
    /\ stage = "received" /\ stage' = "handled"
    /\ message_data' = parse_registers(call, rx_buffer)
    /\ stream_data' = parse_stream_data(rx_buffer)
    /\ UNCHANGED << call, tx_buffer, rx_buffer, damaged >>

NoCall == Call(read_holding_registers, 0, 0, << >>, NoStream)

Return ==
    /\ stage = "handled" /\ stage' = "idle"
    /\ call' = NoCall
    /\ tx_buffer' = << >> /\ rx_buffer' = << >>
    /\ damaged' = FALSE /\ message_data' = << >> /\ stream_data' = << >>

Init ==
    /\ stage = "idle"
    /\ call = NoCall
    /\ tx_buffer = << >> /\ rx_buffer = << >>
    /\ damaged = FALSE /\ message_data = << >> /\ stream_data = << >>

Next ==
    \/ \E c \in BlockingCalls \cup StreamCalls : blocking_call(c)
    \/ MotorAnswers \/ AnswerArrives \/ DamagedAnswerArrives \/ handle_transaction_response
    \/ Return

Spec == Init /\ [][Next]_vars

-----------------------------------------------------------------------------
(* Properties                                                              *)

\* What the program asked of the stream; AutoZeroMode is none of its modes.
Commanded(s) ==
    CASE s.comms_mode = "ForceMode" -> << "ForceMode", s.force_command >>
      [] s.comms_mode = "PositionMode" -> << "PositionMode", s.position_command >>
      [] s.comms_mode = "HapticMode" -> << "HapticMode", s.haptic_command_effects >>
      [] s.comms_mode = "AutoZeroMode" -> << "SleepMode" >>
      [] OTHER -> << s.comms_mode >>

\* A motor that knows Modbus, and no line of this code, understands every
\* request as the caller meant it: registers, order, counts and checksum;
\* and a stream command as the mode and the value that were set for it.
MotorUnderstands ==
    stage = "sent" =>
        Meaning(tx_buffer) =
            [read |-> IF call.read > 0 THEN << call.start, call.read >> ELSE << >>,
             write |-> IF call.data # << >> THEN << call.start, call.data >> ELSE << >>,
             command |-> IF call.function = motor_command
                         THEN Commanded(call.stream) ELSE << >>]

\* The length waited for is that of the motor's answer, of which less comes
\* only as an exception; and an undamaged answer gives back the registers
\* the motor has, or all it sensed.
AnswerIsRead ==
    /\ stage = "received" /\ ~is_error_response(rx_buffer) =>
           Len(rx_buffer) = expected_length(call)
    /\ stage = "handled" /\ ~damaged =>
           /\ message_data = Contents(call.start, call.read)
           /\ call.function = motor_command => stream_data = Sensed(call)

\* An answer with a damaged byte does not pass for the answer to the call: its
\* checksum is wrong, or its function code says exception.  The checksum alone
\* is not enough, as damage to the function code's high bit cuts the answer
\* to five bytes, which may have a right one: 01 03 04 40 F3 .. is then the
\* exception 01 83 04 40 F3.
DamageIsSeen ==
    stage = "received" =>
        (check_rx_buffer_crc(rx_buffer) /\ ~is_error_response(rx_buffer) <=> ~damaged)
=============================================================================
