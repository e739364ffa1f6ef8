--------------------------- MODULE MotorRegisters ---------------------------
(***************************************************************************)
(* The setters and getters of actuator.cpp on the registers of the motor:  *)
(* where the memory map puts a setting or a measured quantity, what a call *)
(* writes there and what it makes of what it reads.  A blocking read or    *)
(* write is one frame, which the motor obeys as a whole or not at all; the *)
(* retries of the client end in its being lost, in its answer being lost,  *)
(* in both arriving, or in an exception, which the calls report as success *)
(* (RegisterFrames and Actuator say how).                                  *)
(***************************************************************************)
EXTENDS Integers, Sequences

CONSTANTS Seeds, MotionIDs, NextIDs, MaxCalls, Leftovers
\* Seeds: 32-bit values from which arguments and quantities are made
\* Leftovers: words in the storage of an empty message_data

ASSUME MotorAssumption ==
    /\ Seeds \subseteq Int /\ Seeds # {} /\ MaxCalls \in Nat
    /\ \A seed \in Seeds : -2147483647 - 1 <= seed /\ seed <= 2147483647
    /\ MotionIDs \subseteq 0..31 /\ NextIDs \subseteq -1..31

ASSUME LeftoversAssumption == Leftovers \subseteq 0..65535 /\ Leftovers # {}

VARIABLES
    stage,       \* "idle", "flag" (the second write of a tune), "reading", "read"
    registers,   \* of the motor: those that were written
    active,      \* the gains its position controller uses
    level,       \* from which seed the measured quantities are made
    reading,     \* the getter that runs and its result
    possible,    \* history: for a setting that a call was about, the arguments
                 \* it may have as far as the motor has answered
    tuned,       \* history: the gains that were asked for
    seen,        \* history: the levels since the getter began
    calls        \* history: the number of calls

vars == << stage, registers, active, level, reading, possible, tuned, seen, calls >>

\* The one function over the other.
Over(new, old) ==
    [x \in DOMAIN new \cup DOMAIN old |-> IF x \in DOMAIN new THEN new[x] ELSE old[x]]

uint16_t(x) == x % 65536
int16_t(x) == IF uint16_t(x) < 32768 THEN uint16_t(x) ELSE uint16_t(x) - 65536

Low(value) == uint16_t(value)
High(value) == uint16_t(value \div 65536)

\* Also of an unsigned value, which is then its negative with the same bits.
combine_into_wide_register(low, high) == int16_t(high) * 65536 + low

-----------------------------------------------------------------------------
(* The memory map: the registers of consecutive addresses, by name.        *)

Section(start, names) ==
    [name \in {names[i] : i \in DOMAIN names} |->
        start - 1 + CHOOSE i \in DOMAIN names : names[i] = name]

ControlRegisters ==
    << "CTRL_REG_0", "CTRL_REG_1", "CTRL_REG_2", "CTRL_REG_3", "CTRL_REG_4",
       "CTRL_REG_5", "CTRL_REG_6", "CTRL_REG_7", "GUI_PERIOD_CMD", "KIN_SW_TRIGGER" >>

TuningRegisters ==
    << "TUNING_VERSION", "CC_PGAIN", "CC_IGAIN", "CC_FGAIN", "CC_MAX_DUTY", "PC_PGAIN",
       "PC_IGAIN", "PC_DVGAIN", "PC_DEGAIN", "PC_FSATU", "PC_FSATU_H", "USER_MAX_TEMP",
       "USER_MAX_FORCE", "USER_MAX_FORCE_H", "USER_MAX_POWER", "SAFETY_DGAIN",
       "FORCE_GAIN_CAL" >>

SoftstartRegisters == << "PC_SOFTSTART_PERIOD", "FORCE_UNITS", "POS_SIGN" >>

StatusRegisters ==
    << "GUI_PERIOD", "SHAFT_SIGNAL_STR", "BS_GAIN_ACT", "CS_GAIN_ACT",
       "MODE_OF_OPERATION", "CALIBRATION_STATUS", "KINEMATIC_STATUS", "FORCE_TARE",
       "FORCE_TARE_H", "CAL_FORCE" >>

SensorRegisters ==
    << "STATOR_TEMP", "DRIVER_TEMP", "VDD_FINAL", "SHAFT_PHASE_FINAL", "SHAFT_PIXEL",
       "SHAFT_PIXEL_H", "SHAFT_POS_UM", "SHAFT_POSITION_H", "SHAFT_SPEED_MMPS",
       "SHAFT_SHEED_H", "SHAFT_ACCEL_MMPSS", "SHAFT_ACCEL_H", "FORCE", "FORCE_H",
       "POWER", "HBA_CURRENT", "HBB_CURRENT", "HBC_CURRENT", "HBD_CURRENT", "AVG_POWER",
       "COIL_TEMP" >>

ParamRegisters ==
    << "SERIAL_NUMBER_LOW", "SERIAL_NUMBER_HIGH", "MAJOR_VERSION", "RELEASE_STATE",
       "REVISION_NUMBER", "COMMIT_ID_LO", "COMMIT_ID_HI" >>

ErrorRegisters == << "WARNING", "ERROR_0", "ERROR_1" >>

HapticRegisters ==
    << "HAPTIC_VERSION", "HAPTIC_STATUS", "CONSTANT_FORCE_MN", "CONSTANT_FORCE_MN_H" >>

SpringRegisters ==
    << "GAIN_N_MM", "CENTER_UM", "CENTER_UM_H", "COUPLING", "DEAD_ZONE_MM",
       "FORCE_SAT_N" >>

DampingRegisters == << "D0_GAIN_NS_MM", "I0_GAIN_NS2_MM" >>

OscillatorRegisters == << "GAIN_N", "TYPE", "FREQ_DHZ", "DUTY" >>

FilterRegisters == << "CONST_FORCE_FILTER", "HAPTIC_SOFTSTART" >>

ControlSection == Section(0, ControlRegisters)
TuningSection == Section(128, TuningRegisters)
SoftstartSection == Section(150, SoftstartRegisters)
StatusSection == Section(313, StatusRegisters)
SensorSection == Section(336, SensorRegisters)
ParamSection == Section(406, ParamRegisters)
ErrorSection == Section(431, ErrorRegisters)
HapticSection == Section(640, HapticRegisters)
DampingSection == Section(662, DampingRegisters)
FilterSection == Section(672, FilterRegisters)

address ==
    Over(ControlSection, Over(TuningSection, Over(SoftstartSection, Over(StatusSection,
    Over(SensorSection, Over(ParamSection, Over(ErrorSection, Over(HapticSection,
    Over(DampingSection, FilterSection)))))))))

Address(name) == address[name]

\* The effects of which there are several, each with the same registers.
Springs ==
    << Section(644, SpringRegisters), Section(650, SpringRegisters),
       Section(656, SpringRegisters) >>

Oscillators == << Section(664, OscillatorRegisters), Section(668, OscillatorRegisters) >>

\* Thirty-two motions of six registers; the map does not name them.
KIN_MOTION(n) == 780 + 6 * n

-----------------------------------------------------------------------------
(* What the motor's registers mean: the arguments a setting has.           *)

Register(a) == IF a \in DOMAIN registers THEN registers[a] ELSE 0
Wide(a, a_high) == combine_into_wide_register(Register(a), Register(a_high))
Named(name) == Register(Address(name))
WideNamed(low, high) == Wide(Address(low), Address(high))

Spring(s) ==
    LET at == Springs[s] IN
    << Register(at["GAIN_N_MM"]), Wide(at["CENTER_UM"], at["CENTER_UM_H"]),
       Register(at["DEAD_ZONE_MM"]), Register(at["FORCE_SAT_N"]),
       Register(at["COUPLING"]) >>

Oscillator(o) ==
    LET at == Oscillators[o] IN
    << Register(at["GAIN_N"]), Register(at["FREQ_DHZ"]), Register(at["DUTY"]),
       Register(at["TYPE"]) >>

Gains ==
    << Named("PC_PGAIN"), Named("PC_IGAIN"), Named("PC_DVGAIN"),
       WideNamed("PC_FSATU", "PC_FSATU_H"), Named("PC_DEGAIN") >>

Motion(n) ==
    LET at == KIN_MOTION(n)  options == Register(at + 5) IN
    << Wide(at, at + 1), Wide(at + 2, at + 3), int16_t(Register(at + 4)),
       (options \div 2) % 4, options % 2, options \div 8 >>

WideSettings ==
    [USER_MAX_FORCE |-> "USER_MAX_FORCE_H", CONSTANT_FORCE_MN |-> "CONSTANT_FORCE_MN_H"]

PlainSettings ==
    {"USER_MAX_TEMP", "USER_MAX_POWER", "PC_SOFTSTART_PERIOD", "SAFETY_DGAIN",
     "HAPTIC_STATUS", "D0_GAIN_NS_MM", "I0_GAIN_NS2_MM", "CONST_FORCE_FILTER",
     "CTRL_REG_0", "KIN_SW_TRIGGER"}

Settings ==
    ({"spring"} \X DOMAIN Springs) \cup ({"oscillator"} \X DOMAIN Oscillators)
    \cup ({"motion"} \X (0..31)) \cup {<< "gains", "" >>}
    \cup ({"wide"} \X DOMAIN WideSettings) \cup ({"plain"} \X PlainSettings)

Has(setting) ==
    LET which == setting[2] IN
    CASE setting[1] = "spring" -> Spring(which)
      [] setting[1] = "oscillator" -> Oscillator(which)
      [] setting[1] = "motion" -> Motion(which)
      [] setting[1] = "gains" -> Gains
      [] setting[1] = "wide" -> << WideNamed(which, WideSettings[which]) >>
      [] setting[1] = "plain" -> << Named(which) >>

\* A register nobody has written is zero here.
Factory(setting) ==
    [i \in 1..(CASE setting[1] = "motion" -> 6
                 [] setting[1] \in {"spring", "gains"} -> 5
                 [] setting[1] = "oscillator" -> 4
                 [] OTHER -> 1) |-> 0]

-----------------------------------------------------------------------------
(* The setters: the setting a call is about, the arguments the motor is to *)
(* have, and the registers the call writes.                                *)

Write(setting, arguments, start, data) ==
    [setting |-> setting, arguments |-> arguments, start |-> start, data |-> data]

write_register(name, value) ==
    Write(<< "plain", name >>, << value >>, Address(name), << value >>)

write_wide_register(name, value) ==
    Write(<< "wide", name >>, << value >>, Address(name), << Low(value), High(value) >>)

enable_haptic_effects(effects) == write_register("HAPTIC_STATUS", effects)
position_zero_flag == 4
clear_errors_flag == 2
zero_position == write_register("CTRL_REG_0", position_zero_flag)
clear_errors == write_register("CTRL_REG_0", clear_errors_flag)
set_max_force(max_force) == write_wide_register("USER_MAX_FORCE", max_force)
set_max_temp(max_temp) == write_register("USER_MAX_TEMP", max_temp)
set_max_power(max_power) == write_register("USER_MAX_POWER", max_power)
set_pctrl_tune_softstart(t_in_ms) == write_register("PC_SOFTSTART_PERIOD", t_in_ms)
set_safety_damping(damping) == write_register("SAFETY_DGAIN", damping)
set_damper(damping) == write_register("D0_GAIN_NS_MM", damping)
set_inertia(inertia) == write_register("I0_GAIN_NS2_MM", inertia)
set_constant_force(force) == write_wide_register("CONSTANT_FORCE_MN", force)
set_constant_force_filter(filter) == write_register("CONST_FORCE_FILTER", filter)
trigger_kinematic_motion(ID) == write_register("KIN_SW_TRIGGER", uint16_t(ID))

\* Mutant: in the order of the parameters.
tune_position_controller_AsCalled(pgain, igain, dvgain, sat, degain) ==
    Write(<< "gains", "" >>, << pgain, igain, dvgain, sat, degain >>, Address("PC_PGAIN"),
          << pgain, igain, dvgain, Low(sat), High(sat), degain >>)

\* The first of its two writes.
tune_position_controller(pgain, igain, dvgain, sat, degain) ==
    Write(<< "gains", "" >>, << pgain, igain, dvgain, sat, degain >>, Address("PC_PGAIN"),
          << pgain, igain, dvgain, degain, Low(sat), High(sat) >>)

\* Without a next motion it is the one after this one.
set_kinematic_motion(ID, position, time, delay, type, auto_next, next_id) ==
    LET next == IF next_id = -1 THEN ID + 1 ELSE next_id IN
    Write(<< "motion", ID >>, << position, time, delay, type, auto_next, next >>,
          KIN_MOTION(0) + 6 * ID,
          << Low(position), High(position), Low(time), High(time), uint16_t(delay),
             uint16_t(2 * type + 8 * next + auto_next) >>)

\* Mutant: one register more than the effect has.
set_spring_effect_OneMore(spring_id, gain, center, dead_zone, saturation, coupling) ==
    Write(<< "spring", spring_id + 1 >>,
          << gain, center, dead_zone, saturation, coupling >>,
          Springs[1]["GAIN_N_MM"] + 6 * spring_id,
          << gain, Low(center), High(center), coupling, dead_zone, saturation, 0 >>)

\* The number of the first one is zero to the caller and one in Springs.
set_spring_effect(spring_id, gain, center, dead_zone, saturation, coupling) ==
    Write(<< "spring", spring_id + 1 >>,
          << gain, center, dead_zone, saturation, coupling >>,
          Springs[1]["GAIN_N_MM"] + 6 * spring_id,
          << gain, Low(center), High(center), coupling, dead_zone, saturation >>)

set_osc_effect(osc_id, amplitude, frequency_dhz, duty, type) ==
    Write(<< "oscillator", osc_id + 1 >>, << amplitude, frequency_dhz, duty, type >>,
          Oscillators[1]["GAIN_N"] + 4 * osc_id,
          << amplitude, type, frequency_dhz, duty >>)

SpringCoupling == 0..2     \* both, positive, negative
OscillatorType == 0..3     \* Pulse, Sine, Triangle, Saw

\* Arguments that differ from one another, made of a seed.
Word(seed, i) == uint16_t(uint16_t(seed) + 4099 * i)

SettersFrom(s) ==
    {enable_haptic_effects(Word(s, 1)), zero_position, clear_errors, set_max_force(s),
     set_max_temp(Word(s, 1)), set_max_power(Word(s, 1)),
     set_pctrl_tune_softstart(Word(s, 1)), set_safety_damping(Word(s, 1)),
     set_damper(Word(s, 1)), set_inertia(Word(s, 1)), set_constant_force(s),
     set_constant_force_filter(Word(s, 1)),
     tune_position_controller(Word(s, 1), Word(s, 2), Word(s, 3), s, Word(s, 4))}
    \cup {trigger_kinematic_motion(ID) : ID \in MotionIDs}
    \cup {set_kinematic_motion(ID, s, -1 - s, int16_t(Word(s, 1)), type, auto, next) :
              ID \in MotionIDs, type \in 0..1, auto \in 0..1, next \in NextIDs}
    \cup {set_spring_effect(id, Word(s, 1), s, Word(s, 2), Word(s, 3), coupling) :
              id \in 0..2, coupling \in SpringCoupling}
    \cup {set_osc_effect(id, Word(s, 1), Word(s, 2), Word(s, 3), type) :
              id \in 0..1, type \in OscillatorType}

Setters == UNION {SettersFrom(s) : s \in Seeds}

-----------------------------------------------------------------------------
(* The getters, and the quantities as the motor keeps them.                *)

WideQuantities ==
    [SHAFT_POS_UM |-> "SHAFT_POSITION_H", FORCE |-> "FORCE_H",
     SERIAL_NUMBER_LOW |-> "SERIAL_NUMBER_HIGH"]
SignedQuantities == {"STATOR_TEMP", "COIL_TEMP"}
PlainQuantities ==
    {"POWER", "VDD_FINAL", "ERROR_0", "ERROR_1", "MAJOR_VERSION", "RELEASE_STATE",
     "REVISION_NUMBER", "MODE_OF_OPERATION"}

Quantities == DOMAIN WideQuantities \cup SignedQuantities \cup PlainQuantities

Truth(quantity, seed) ==
    CASE quantity \in DOMAIN WideQuantities -> seed
      [] quantity \in SignedQuantities -> int16_t(seed)
      [] quantity \in PlainQuantities -> uint16_t(seed)

\* The word at an address while `quantity` is measured.
Measured(quantity, a) ==
    CASE a = Address(quantity) -> uint16_t(Truth(quantity, level))
      [] quantity \in DOMAIN WideQuantities /\ a = Address(WideQuantities[quantity]) ->
             High(Truth(quantity, level))
      [] OTHER -> 0

\* message_data after a read of the quantity, one word or two.
Data(quantity) ==
    << Measured(quantity, Address(quantity)), Measured(quantity, Address(quantity) + 1) >>

read_register_blocking(data) == data[1]

read_wide_register_blocking(data) == combine_into_wide_register(data[1], data[2])

\* Mutant: an unsigned temperature.
get_Unsigned(quantity, data) ==
    IF quantity \in DOMAIN WideQuantities
    THEN read_wide_register_blocking(data) ELSE read_register_blocking(data)

\* get_position_um, get_force_mN, get_serial_number; get_temperature_C,
\* get_coil_temperature_C; and those that return the register as it is.
get(quantity, data) ==
    CASE quantity \in DOMAIN WideQuantities -> read_wide_register_blocking(data)
      [] quantity \in SignedQuantities -> int16_t(read_register_blocking(data))
      [] quantity \in PlainQuantities -> read_register_blocking(data)

-----------------------------------------------------------------------------
Written(start, data) ==
    [a \in start..(start + Len(data) - 1) |-> data[a - start + 1]]

Possible(setting) ==
    IF setting \in DOMAIN possible THEN possible[setting] ELSE {Factory(setting)}

\* How a call ends: without an answer, which is its error; with the motor's
\* answer; or with an exception, which is no error to the caller.
Outcomes == {"lost", "answered", "refused"}

NoReading == [quantity |-> "", outcome |-> "", value |-> 0]

BeginCall == stage = "idle" /\ calls < MaxCalls /\ calls' = calls + 1

\* A setter, whose frame is done, of which only the motor's answer tells: a
\* call that was refused may have been done by an earlier try.  A tune goes on
\* to its second write whatever became of the first.
setter(c, done, outcome) ==
    /\ BeginCall /\ (outcome = "answered" => done)
    /\ registers' = IF done THEN Over(Written(c.start, c.data), registers) ELSE registers
    /\ possible' = Over([s \in {c.setting} |->
                             (IF outcome = "answered" THEN {} ELSE Possible(s))
                             \cup {c.arguments}], possible)
    /\ IF c.setting[1] = "gains"
       THEN stage' = "flag" /\ tuned' = tuned \cup {c.arguments}
       ELSE UNCHANGED << stage, tuned >>
    /\ UNCHANGED << active, level, reading, seen >>

\* The flag, on which the motor takes over the gains it finds, or which is
\* lost or refused.
position_controller_gain_set(done) ==
    /\ stage = "flag" /\ stage' = "idle"
    /\ active' = IF done THEN Gains ELSE active
    /\ UNCHANGED << registers, level, reading, possible, tuned, seen, calls >>

begin_getter(quantity) ==
    /\ BeginCall /\ stage' = "reading"
    /\ reading' = [NoReading EXCEPT !.quantity = quantity]
    /\ seen' = {level}
    /\ UNCHANGED << registers, active, level, possible, tuned >>

Measure ==
    /\ stage \in {"reading", "read"}
    /\ level' \in Seeds \ {level} /\ seen' = seen \cup {level'}
    /\ UNCHANGED << stage, registers, active, reading, possible, tuned, calls >>

\* Without an answer the value is zero; an exception leaves message_data
\* empty, and what is in its first words is returned all the same.
Returned(quantity, outcome) ==
    CASE outcome = "lost" -> {0}
      [] outcome = "answered" -> {get(quantity, Data(quantity))}
      [] outcome = "refused" -> {get(quantity, data) : data \in Leftovers \X Leftovers}

getter_returns(outcome) ==
    /\ stage = "reading" /\ stage' = "read"
    /\ \E value \in Returned(reading.quantity, outcome) :
           reading' = [reading EXCEPT !.outcome = outcome, !.value = value]
    /\ UNCHANGED << registers, active, level, possible, tuned, seen, calls >>

EndGetter ==
    /\ stage = "read" /\ stage' = "idle"
    /\ reading' = NoReading /\ seen' = {}
    /\ UNCHANGED << registers, active, level, possible, tuned, calls >>

Init ==
    /\ stage = "idle" /\ registers = << >> /\ active = Factory(<< "gains", "" >>)
    /\ level \in Seeds /\ reading = NoReading
    /\ possible = << >> /\ tuned = {Factory(<< "gains", "" >>)}
    /\ seen = {} /\ calls = 0

Next ==
    \/ \E c \in Setters, done \in BOOLEAN, outcome \in Outcomes : setter(c, done, outcome)
    \/ \E done \in BOOLEAN : position_controller_gain_set(done)
    \/ \E quantity \in Quantities : begin_getter(quantity)
    \/ Measure
    \/ \E outcome \in Outcomes : getter_returns(outcome)
    \/ EndGetter

Spec == Init /\ [][Next]_vars

-----------------------------------------------------------------------------
(* Properties.                                                             *)

\* After any calls every setting has the arguments of one call about it: of
\* the last one that the motor answered as done or one that came after, whole,
\* and not touched by a call about a neighbour in the memory map.  A refused
\* call does not count: it reports success, but the setting may be as it was.
SettingsIntact == \A setting \in Settings : Has(setting) \in Possible(setting)

\* The gains in use are those of one tune, all five of them, even though
\* tune_position_controller sets its flag after a write that was lost or
\* refused.
GainsOfOneCall == active \in tuned

\* A getter that reports no error, and was not refused, returns, sign and
\* halves right, a value the quantity had while it ran.  What a refused one
\* returns, without an error, need be no value of the quantity.
GetterIsTrue ==
    stage = "read" /\ reading.outcome = "answered" =>
        reading.value \in {Truth(reading.quantity, seed) : seed \in seen}
=============================================================================
