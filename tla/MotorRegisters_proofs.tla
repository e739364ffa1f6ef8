----------------------- MODULE MotorRegisters_proofs ------------------------
(***************************************************************************)
(* What the setters and getters of actuator.cpp do to the registers of the *)
(* motor, for all 32-bit arguments and any sequence of calls.  A setting   *)
(* lives in a range of addresses; the ranges are disjoint; a setter writes *)
(* the range of its setting, all of it, in the order it is read in; so a   *)
(* setting changes by the calls about it only, and as a whole.             *)
(***************************************************************************)
EXTENDS MotorRegisters, TLAPS

-----------------------------------------------------------------------------
(* Words of 16 bits and their combination.                                 *)

IsInt32(x) == x \in Int /\ -2147483647 - 1 <= x /\ x <= 2147483647
IsInt16(x) == x \in Int /\ -32768 <= x /\ x <= 32767

\* The high half of a 32-bit value is a signed 16-bit value.
LEMMA HighHalf ==
    \A x \in Int : IsInt32(x) => IsInt16(x \div 65536)
BY SMT DEF IsInt32, IsInt16

\* A value is made of its halves.
LEMMA Halves == \A x \in Int : x = (x \div 65536) * 65536 + uint16_t(x)
BY SMT DEF uint16_t

\* A signed 16-bit value survives being sent as an unsigned one.
LEMMA SignedWord ==
    \A x \in Int : IsInt16(x) => int16_t(uint16_t(x)) = x
BY SMT DEF IsInt16, int16_t, uint16_t

LEMMA SignedRange ==
    \A x \in Int : int16_t(x) \in Int /\ IsInt16(int16_t(x))
BY SMT DEF IsInt16, int16_t, uint16_t

\* A 32-bit value that is taken apart and combined again is the same value.
LEMMA CombineHalves ==
  ASSUME NEW x, IsInt32(x)
  PROVE  combine_into_wide_register(Low(x), High(x)) = x
<1> DEFINE h == x \div 65536
<1>1. x \in Int
  BY DEF IsInt32
<1>2. h \in Int /\ IsInt16(h)
  BY SMT, <1>1, HighHalf
<1> HIDE DEF h
<1>3. int16_t(uint16_t(h)) = h
  BY SMT, <1>2, SignedWord
<1>4. x = h * 65536 + uint16_t(x)
  BY SMT, <1>1, Halves DEF h
<1> QED
  BY SMT, <1>3, <1>4 DEF combine_into_wide_register, Low, High, h

-----------------------------------------------------------------------------
(* The memory map: where the registers are that settings and getters use.  *)

LEMMA OverAt ==
  ASSUME NEW f, NEW g, NEW x
  PROVE  /\ x \in DOMAIN f => x \in DOMAIN Over(f, g) /\ Over(f, g)[x] = f[x]
         /\ x \notin DOMAIN f =>
                (x \in DOMAIN Over(f, g) <=> x \in DOMAIN g)
         /\ x \notin DOMAIN f /\ x \in DOMAIN g => Over(f, g)[x] = g[x]
BY DEF Over

IsInjective(names) == \A i, j \in DOMAIN names : names[i] = names[j] => i = j

\* The i-th register of a section is i - 1 places after its start.
LEMMA SectionPlaces ==
  ASSUME NEW start \in Int, NEW names, IsInjective(names), DOMAIN names \subseteq Int
  PROVE  \A i \in DOMAIN names :
             /\ names[i] \in DOMAIN Section(start, names)
             /\ Section(start, names)[names[i]] = start - 1 + i
<1> SUFFICES ASSUME NEW i \in DOMAIN names
             PROVE  /\ names[i] \in DOMAIN Section(start, names)
                    /\ Section(start, names)[names[i]] = start - 1 + i
  OBVIOUS
<1>1. (CHOOSE j \in DOMAIN names : names[j] = names[i]) = i
  BY DEF IsInjective
<1> QED
  BY <1>1 DEF Section

LEMMA ControlPlaces ==
    \A i \in 1..10 : /\ ControlRegisters[i] \in DOMAIN ControlSection
                     /\ ControlSection[ControlRegisters[i]] = i - 1
<1>1. IsInjective(ControlRegisters) /\ DOMAIN ControlRegisters = 1..10
  BY SMT DEF IsInjective, ControlRegisters
<1> QED
  BY SMT, <1>1, SectionPlaces DEF ControlSection

LEMMA TuningPlaces ==
    \A i \in 1..17 : /\ TuningRegisters[i] \in DOMAIN TuningSection
                     /\ TuningSection[TuningRegisters[i]] = 127 + i
<1>1. IsInjective(TuningRegisters) /\ DOMAIN TuningRegisters = 1..17
  BY SMT DEF IsInjective, TuningRegisters
<1> QED
  BY SMT, <1>1, SectionPlaces DEF TuningSection

LEMMA SoftstartPlaces ==
    \A i \in 1..3 : /\ SoftstartRegisters[i] \in DOMAIN SoftstartSection
                    /\ SoftstartSection[SoftstartRegisters[i]] = 149 + i
<1>1. IsInjective(SoftstartRegisters) /\ DOMAIN SoftstartRegisters = 1..3
  BY SMT DEF IsInjective, SoftstartRegisters
<1> QED
  BY SMT, <1>1, SectionPlaces DEF SoftstartSection

LEMMA SensorPlaces ==
    \A i \in 1..21 : /\ SensorRegisters[i] \in DOMAIN SensorSection
                     /\ SensorSection[SensorRegisters[i]] = 335 + i
<1>1. IsInjective(SensorRegisters) /\ DOMAIN SensorRegisters = 1..21
  BY SMT DEF IsInjective, SensorRegisters
<1> QED
  BY SMT, <1>1, SectionPlaces DEF SensorSection

LEMMA ParamPlaces ==
    \A i \in 1..7 : /\ ParamRegisters[i] \in DOMAIN ParamSection
                    /\ ParamSection[ParamRegisters[i]] = 405 + i
<1>1. IsInjective(ParamRegisters) /\ DOMAIN ParamRegisters = 1..7
  BY SMT DEF IsInjective, ParamRegisters
<1> QED
  BY SMT, <1>1, SectionPlaces DEF ParamSection

LEMMA HapticPlaces ==
    \A i \in 1..4 : /\ HapticRegisters[i] \in DOMAIN HapticSection
                    /\ HapticSection[HapticRegisters[i]] = 639 + i
<1>1. IsInjective(HapticRegisters) /\ DOMAIN HapticRegisters = 1..4
  BY SMT DEF IsInjective, HapticRegisters
<1> QED
  BY SMT, <1>1, SectionPlaces DEF HapticSection

LEMMA DampingPlaces ==
    \A i \in 1..2 : /\ DampingRegisters[i] \in DOMAIN DampingSection
                    /\ DampingSection[DampingRegisters[i]] = 661 + i
<1>1. IsInjective(DampingRegisters) /\ DOMAIN DampingRegisters = 1..2
  BY SMT DEF IsInjective, DampingRegisters
<1> QED
  BY SMT, <1>1, SectionPlaces DEF DampingSection

LEMMA FilterPlaces ==
    \A i \in 1..2 : /\ FilterRegisters[i] \in DOMAIN FilterSection
                    /\ FilterSection[FilterRegisters[i]] = 671 + i
<1>1. IsInjective(FilterRegisters) /\ DOMAIN FilterRegisters = 1..2
  BY SMT DEF IsInjective, FilterRegisters
<1> QED
  BY SMT, <1>1, SectionPlaces DEF FilterSection

\* No name occurs in two sections: where it matters to the settings.
LEMMA ControlAddresses ==
    Address("CTRL_REG_0") = 0 /\ Address("KIN_SW_TRIGGER") = 9
<1>1. /\ "CTRL_REG_0" \in DOMAIN ControlSection
      /\ ControlSection["CTRL_REG_0"] = 0
      /\ "KIN_SW_TRIGGER" \in DOMAIN ControlSection
      /\ ControlSection["KIN_SW_TRIGGER"] = 9
  BY SMT, ControlPlaces DEF ControlRegisters
<1> QED
  BY SMT, <1>1, OverAt DEF address, Address

TuningSettings ==
    {"PC_PGAIN", "PC_IGAIN", "PC_DVGAIN", "PC_DEGAIN", "PC_FSATU", "PC_FSATU_H",
     "USER_MAX_TEMP", "USER_MAX_FORCE", "USER_MAX_FORCE_H", "USER_MAX_POWER",
     "SAFETY_DGAIN"}

LEMMA TuningAddresses ==
    /\ Address("PC_PGAIN") = 133 /\ Address("PC_IGAIN") = 134
    /\ Address("PC_DVGAIN") = 135 /\ Address("PC_DEGAIN") = 136
    /\ Address("PC_FSATU") = 137 /\ Address("PC_FSATU_H") = 138
    /\ Address("USER_MAX_TEMP") = 139
    /\ Address("USER_MAX_FORCE") = 140 /\ Address("USER_MAX_FORCE_H") = 141
    /\ Address("USER_MAX_POWER") = 142 /\ Address("SAFETY_DGAIN") = 143
<1>1. \A name \in TuningSettings : name \notin DOMAIN ControlSection
  BY SMT DEF TuningSettings, ControlSection, Section, ControlRegisters
<1>2. \A name \in TuningSettings : name \in DOMAIN TuningSection
  BY SMT, TuningPlaces DEF TuningSettings, TuningRegisters
<1>3. \A name \in TuningSettings : Address(name) = TuningSection[name]
  BY SMT, <1>1, <1>2, OverAt DEF address, Address
<1>4. /\ TuningSection["PC_PGAIN"] = 133 /\ TuningSection["PC_IGAIN"] = 134
      /\ TuningSection["PC_DVGAIN"] = 135 /\ TuningSection["PC_DEGAIN"] = 136
      /\ TuningSection["PC_FSATU"] = 137 /\ TuningSection["PC_FSATU_H"] = 138
      /\ TuningSection["USER_MAX_TEMP"] = 139
      /\ TuningSection["USER_MAX_FORCE"] = 140
      /\ TuningSection["USER_MAX_FORCE_H"] = 141
      /\ TuningSection["USER_MAX_POWER"] = 142 /\ TuningSection["SAFETY_DGAIN"] = 143
  BY SMT, TuningPlaces DEF TuningRegisters
<1> QED
  BY SMT, <1>3, <1>4 DEF TuningSettings

LEMMA SoftstartAddress == Address("PC_SOFTSTART_PERIOD") = 150
<1> DEFINE name == "PC_SOFTSTART_PERIOD"
<1>1. name \notin DOMAIN ControlSection
  BY SMT DEF ControlSection, Section, ControlRegisters
<1>2. name \notin DOMAIN TuningSection
  BY SMT DEF TuningSection, Section, TuningRegisters
<1>3. name \in DOMAIN SoftstartSection /\ SoftstartSection[name] = 150
  BY SMT, SoftstartPlaces DEF SoftstartRegisters
<1> QED
  BY SMT, <1>1, <1>2, <1>3, OverAt DEF address, Address

\* What is not in the sections below the sensors is found above them.
LowSections == DOMAIN ControlSection \cup DOMAIN TuningSection
                   \cup DOMAIN SoftstartSection \cup DOMAIN StatusSection

LEMMA AboveLow ==
  ASSUME NEW name, name \notin LowSections
  PROVE  /\ name \in DOMAIN SensorSection => Address(name) = SensorSection[name]
         /\ name \notin DOMAIN SensorSection /\ name \in DOMAIN ParamSection =>
                Address(name) = ParamSection[name]
         /\ /\ name \notin DOMAIN SensorSection /\ name \notin DOMAIN ParamSection
            /\ name \notin DOMAIN ErrorSection
            => /\ name \in DOMAIN HapticSection => Address(name) = HapticSection[name]
               /\ name \notin DOMAIN HapticSection /\ name \in DOMAIN DampingSection =>
                      Address(name) = DampingSection[name]
               /\ /\ name \notin DOMAIN HapticSection
                  /\ name \notin DOMAIN DampingSection /\ name \in DOMAIN FilterSection
                  => Address(name) = FilterSection[name]
BY SMTT(30), OverAt DEF LowSections, address, Address

\* The names that are looked up there.
HighNames ==
    {"SHAFT_POS_UM", "SHAFT_POSITION_H", "FORCE", "FORCE_H", "SERIAL_NUMBER_LOW",
     "SERIAL_NUMBER_HIGH", "HAPTIC_STATUS", "CONSTANT_FORCE_MN", "CONSTANT_FORCE_MN_H",
     "D0_GAIN_NS_MM", "I0_GAIN_NS2_MM", "CONST_FORCE_FILTER"}

LEMMA HighNamesAbove == \A name \in HighNames : name \notin LowSections
<1>1. \A name \in HighNames : name \notin DOMAIN ControlSection
  BY SMT DEF HighNames, ControlSection, Section, ControlRegisters
<1>2. \A name \in HighNames : name \notin DOMAIN TuningSection
  BY SMT DEF HighNames, TuningSection, Section, TuningRegisters
<1>3. \A name \in HighNames : name \notin DOMAIN SoftstartSection
  BY SMT DEF HighNames, SoftstartSection, Section, SoftstartRegisters
<1>4. \A name \in HighNames : name \notin DOMAIN StatusSection
  BY SMT DEF HighNames, StatusSection, Section, StatusRegisters
<1> QED
  BY <1>1, <1>2, <1>3, <1>4 DEF LowSections

LEMMA QuantityAddresses ==
    /\ Address("SHAFT_POSITION_H") = Address("SHAFT_POS_UM") + 1
    /\ Address("FORCE_H") = Address("FORCE") + 1
    /\ Address("SERIAL_NUMBER_HIGH") = Address("SERIAL_NUMBER_LOW") + 1
    /\ Address("SHAFT_POS_UM") \in Int /\ Address("FORCE") \in Int
    /\ Address("SERIAL_NUMBER_LOW") \in Int
<1>1. /\ "SHAFT_POS_UM" \in DOMAIN SensorSection
      /\ SensorSection["SHAFT_POS_UM"] = 342
      /\ "SHAFT_POSITION_H" \in DOMAIN SensorSection
      /\ SensorSection["SHAFT_POSITION_H"] = 343
      /\ "FORCE" \in DOMAIN SensorSection /\ SensorSection["FORCE"] = 348
      /\ "FORCE_H" \in DOMAIN SensorSection /\ SensorSection["FORCE_H"] = 349
  BY SMT, SensorPlaces DEF SensorRegisters
<1>2. /\ "SERIAL_NUMBER_LOW" \in DOMAIN ParamSection
      /\ ParamSection["SERIAL_NUMBER_LOW"] = 406
      /\ "SERIAL_NUMBER_HIGH" \in DOMAIN ParamSection
      /\ ParamSection["SERIAL_NUMBER_HIGH"] = 407
  BY SMT, ParamPlaces DEF ParamRegisters
<1>3. \A name \in {"SERIAL_NUMBER_LOW", "SERIAL_NUMBER_HIGH"} :
          name \notin DOMAIN SensorSection
  BY SMT DEF SensorSection, Section, SensorRegisters
<1>4. /\ Address("SHAFT_POS_UM") = 342 /\ Address("SHAFT_POSITION_H") = 343
      /\ Address("FORCE") = 348 /\ Address("FORCE_H") = 349
  BY SMT, <1>1, HighNamesAbove, AboveLow DEF HighNames
<1>5. Address("SERIAL_NUMBER_LOW") = 406 /\ Address("SERIAL_NUMBER_HIGH") = 407
  BY SMT, <1>2, <1>3, HighNamesAbove, AboveLow DEF HighNames
<1> QED
  BY SMT, <1>4, <1>5

LEMMA HapticAddresses ==
    /\ Address("HAPTIC_STATUS") = 641
    /\ Address("CONSTANT_FORCE_MN") = 642 /\ Address("CONSTANT_FORCE_MN_H") = 643
    /\ Address("D0_GAIN_NS_MM") = 662 /\ Address("I0_GAIN_NS2_MM") = 663
    /\ Address("CONST_FORCE_FILTER") = 672
<1> DEFINE Names == {"HAPTIC_STATUS", "CONSTANT_FORCE_MN", "CONSTANT_FORCE_MN_H",
                     "D0_GAIN_NS_MM", "I0_GAIN_NS2_MM", "CONST_FORCE_FILTER"}
<1>1. \A name \in Names : name \notin DOMAIN SensorSection
  BY SMT DEF SensorSection, Section, SensorRegisters
<1>2. \A name \in Names : name \notin DOMAIN ParamSection
  BY SMT DEF ParamSection, Section, ParamRegisters
<1>3. \A name \in Names : name \notin DOMAIN ErrorSection
  BY SMT DEF ErrorSection, Section, ErrorRegisters
<1>4. \A name \in {"D0_GAIN_NS_MM", "I0_GAIN_NS2_MM", "CONST_FORCE_FILTER"} :
          name \notin DOMAIN HapticSection
  BY SMT DEF HapticSection, Section, HapticRegisters
<1>5. "CONST_FORCE_FILTER" \notin DOMAIN DampingSection
  BY SMT DEF DampingSection, Section, DampingRegisters
<1>6. /\ "HAPTIC_STATUS" \in DOMAIN HapticSection
      /\ HapticSection["HAPTIC_STATUS"] = 641
      /\ "CONSTANT_FORCE_MN" \in DOMAIN HapticSection
      /\ HapticSection["CONSTANT_FORCE_MN"] = 642
      /\ "CONSTANT_FORCE_MN_H" \in DOMAIN HapticSection
      /\ HapticSection["CONSTANT_FORCE_MN_H"] = 643
  BY SMT, HapticPlaces DEF HapticRegisters
<1>7. /\ "D0_GAIN_NS_MM" \in DOMAIN DampingSection
      /\ DampingSection["D0_GAIN_NS_MM"] = 662
      /\ "I0_GAIN_NS2_MM" \in DOMAIN DampingSection
      /\ DampingSection["I0_GAIN_NS2_MM"] = 663
  BY SMT, DampingPlaces DEF DampingRegisters
<1>8. /\ "CONST_FORCE_FILTER" \in DOMAIN FilterSection
      /\ FilterSection["CONST_FORCE_FILTER"] = 672
  BY SMT, FilterPlaces DEF FilterRegisters
<1>9. \A name \in Names : name \notin LowSections
  BY SMT, HighNamesAbove DEF HighNames
<1>10. \A name \in Names : name \in DOMAIN HapticSection =>
           Address(name) = HapticSection[name]
  BY SMT, <1>1, <1>2, <1>3, <1>9, AboveLow
<1>11. \A name \in {"D0_GAIN_NS_MM", "I0_GAIN_NS2_MM"} :
           Address(name) = DampingSection[name]
  BY SMT, <1>1, <1>2, <1>3, <1>4, <1>7, <1>9, AboveLow
<1>12. Address("CONST_FORCE_FILTER") = FilterSection["CONST_FORCE_FILTER"]
  BY SMT, <1>1, <1>2, <1>3, <1>4, <1>5, <1>8, <1>9, AboveLow
<1> QED
  BY SMT, <1>6, <1>7, <1>8, <1>10, <1>11, <1>12

LEMMA SpringPlaces ==
    \A s \in 1..3 :
        /\ Springs[s]["GAIN_N_MM"] = 638 + 6 * s /\ Springs[s]["CENTER_UM"] = 639 + 6 * s
        /\ Springs[s]["CENTER_UM_H"] = 640 + 6 * s /\ Springs[s]["COUPLING"] = 641 + 6 * s
        /\ Springs[s]["DEAD_ZONE_MM"] = 642 + 6 * s
        /\ Springs[s]["FORCE_SAT_N"] = 643 + 6 * s
<1>1. IsInjective(SpringRegisters) /\ DOMAIN SpringRegisters = 1..6
  BY SMT DEF IsInjective, SpringRegisters
<1>2. \A i \in 1..6 : /\ Section(644, SpringRegisters)[SpringRegisters[i]] = 643 + i
                      /\ Section(650, SpringRegisters)[SpringRegisters[i]] = 649 + i
                      /\ Section(656, SpringRegisters)[SpringRegisters[i]] = 655 + i
  BY SMT, <1>1, SectionPlaces
<1> DEFINE At(section, first) ==
        /\ section["GAIN_N_MM"] = first /\ section["CENTER_UM"] = first + 1
        /\ section["CENTER_UM_H"] = first + 2 /\ section["COUPLING"] = first + 3
        /\ section["DEAD_ZONE_MM"] = first + 4 /\ section["FORCE_SAT_N"] = first + 5
<1>3. At(Section(644, SpringRegisters), 644)
  BY SMT, <1>2 DEF SpringRegisters
<1>4. At(Section(650, SpringRegisters), 650)
  BY SMT, <1>2 DEF SpringRegisters
<1>5. At(Section(656, SpringRegisters), 656)
  BY SMT, <1>2 DEF SpringRegisters
<1>6. At(Springs[1], 644) /\ At(Springs[2], 650) /\ At(Springs[3], 656)
  BY SMT, <1>3, <1>4, <1>5 DEF Springs
<1> QED
  BY SMT, <1>6

LEMMA OscillatorPlaces ==
    \A o \in 1..2 :
        /\ Oscillators[o]["GAIN_N"] = 660 + 4 * o /\ Oscillators[o]["TYPE"] = 661 + 4 * o
        /\ Oscillators[o]["FREQ_DHZ"] = 662 + 4 * o
        /\ Oscillators[o]["DUTY"] = 663 + 4 * o
<1>1. IsInjective(OscillatorRegisters) /\ DOMAIN OscillatorRegisters = 1..4
  BY SMT DEF IsInjective, OscillatorRegisters
<1>2. \A i \in 1..4 :
          /\ Section(664, OscillatorRegisters)[OscillatorRegisters[i]] = 663 + i
          /\ Section(668, OscillatorRegisters)[OscillatorRegisters[i]] = 667 + i
  BY SMT, <1>1, SectionPlaces
<1> DEFINE At(section, first) ==
        /\ section["GAIN_N"] = first /\ section["TYPE"] = first + 1
        /\ section["FREQ_DHZ"] = first + 2 /\ section["DUTY"] = first + 3
<1>3. At(Section(664, OscillatorRegisters), 664)
  BY SMT, <1>2 DEF OscillatorRegisters
<1>4. At(Section(668, OscillatorRegisters), 668)
  BY SMT, <1>2 DEF OscillatorRegisters
<1>5. At(Oscillators[1], 664) /\ At(Oscillators[2], 668)
  BY SMT, <1>3, <1>4 DEF Oscillators
<1> QED
  BY SMT, <1>5

-----------------------------------------------------------------------------
(* Where a setting lives: the range of addresses it is read from.          *)

PlainPlace == [name \in PlainSettings |-> Address(name)]
WidePlace == [name \in DOMAIN WideSettings |-> Address(name)]

First(setting) ==
    LET which == setting[2] IN
    CASE setting[1] = "spring" -> 638 + 6 * which
      [] setting[1] = "oscillator" -> 660 + 4 * which
      [] setting[1] = "motion" -> 780 + 6 * which
      [] setting[1] = "gains" -> 133
      [] setting[1] = "wide" -> WidePlace[which]
      [] setting[1] = "plain" -> PlainPlace[which]

Size(setting) ==
    CASE setting[1] \in {"spring", "motion", "gains"} -> 6
      [] setting[1] = "oscillator" -> 4
      [] setting[1] = "wide" -> 2
      [] setting[1] = "plain" -> 1

Place(setting) == First(setting) .. (First(setting) + Size(setting) - 1)

\* The addresses of the plain settings are those of no other one.
LEMMA PlainPlaces ==
    /\ DOMAIN PlainPlace = PlainSettings
    /\ \A name \in PlainSettings :
           PlainPlace[name] \in {0, 9, 139, 142, 143, 150, 641, 662, 663, 672}
    /\ \A m, n \in PlainSettings : PlainPlace[m] = PlainPlace[n] => m = n
<1>1. /\ PlainPlace["USER_MAX_TEMP"] = 139 /\ PlainPlace["USER_MAX_POWER"] = 142
      /\ PlainPlace["PC_SOFTSTART_PERIOD"] = 150 /\ PlainPlace["SAFETY_DGAIN"] = 143
      /\ PlainPlace["HAPTIC_STATUS"] = 641 /\ PlainPlace["D0_GAIN_NS_MM"] = 662
      /\ PlainPlace["I0_GAIN_NS2_MM"] = 663 /\ PlainPlace["CONST_FORCE_FILTER"] = 672
      /\ PlainPlace["CTRL_REG_0"] = 0 /\ PlainPlace["KIN_SW_TRIGGER"] = 9
  BY SMT, ControlAddresses, TuningAddresses, SoftstartAddress, HapticAddresses
     DEF PlainPlace, PlainSettings
<1>2. DOMAIN PlainPlace = PlainSettings
  BY DEF PlainPlace
<1>3. \A name \in PlainSettings :
          PlainPlace[name] \in {0, 9, 139, 142, 143, 150, 641, 662, 663, 672}
  BY SMT, <1>1 DEF PlainSettings
<1>4. \A m, n \in PlainSettings : PlainPlace[m] = PlainPlace[n] => m = n
  BY SMT, <1>1 DEF PlainSettings
<1> QED
  BY <1>2, <1>3, <1>4

LEMMA WidePlaces ==
    /\ DOMAIN WideSettings = {"USER_MAX_FORCE", "CONSTANT_FORCE_MN"}
    /\ DOMAIN WidePlace = DOMAIN WideSettings
    /\ WidePlace["USER_MAX_FORCE"] = 140 /\ WidePlace["CONSTANT_FORCE_MN"] = 642
    /\ \A name \in DOMAIN WideSettings :
           WidePlace[name] \in Int
           /\ Address(name) = WidePlace[name]
           /\ Address(WideSettings[name]) = WidePlace[name] + 1
<1>1. /\ DOMAIN WideSettings = {"USER_MAX_FORCE", "CONSTANT_FORCE_MN"}
      /\ WideSettings["USER_MAX_FORCE"] = "USER_MAX_FORCE_H"
      /\ WideSettings["CONSTANT_FORCE_MN"] = "CONSTANT_FORCE_MN_H"
  BY DEF WideSettings
<1>2. WidePlace["USER_MAX_FORCE"] = 140 /\ WidePlace["CONSTANT_FORCE_MN"] = 642
  BY SMT, <1>1, TuningAddresses, HapticAddresses DEF WidePlace
<1> QED
  BY SMT, <1>1, <1>2, TuningAddresses, HapticAddresses DEF WidePlace

LEMMA Pairs ==
  ASSUME NEW A, NEW B, NEW pair \in A \X B
  PROVE  pair[1] \in A /\ pair[2] \in B /\ pair = << pair[1], pair[2] >>
BY SMT

\* The kinds of settings there are.
LEMMA SettingKinds ==
  ASSUME NEW setting \in Settings
  PROVE  \/ setting[1] = "spring" /\ setting[2] \in 1..3
         \/ setting[1] = "oscillator" /\ setting[2] \in 1..2
         \/ setting[1] = "motion" /\ setting[2] \in 0..31
         \/ setting[1] = "gains"
         \/ setting[1] = "wide" /\ setting[2] \in DOMAIN WideSettings
         \/ setting[1] = "plain" /\ setting[2] \in PlainSettings
<1>1. DOMAIN Springs = 1..3 /\ DOMAIN Oscillators = 1..2
  BY SMT DEF Springs, Oscillators
<1>2. CASE setting \in {"spring"} \X DOMAIN Springs
  BY Zenon, <1>1, <1>2, Pairs
<1>3. CASE setting \in {"oscillator"} \X DOMAIN Oscillators
  BY Zenon, <1>1, <1>3, Pairs
<1>4. CASE setting \in {"motion"} \X (0..31)
  BY ZenonT(30), <1>4, Pairs
<1>5. CASE setting \in {<< "gains", "" >>}
  <2>1. setting = << "gains", "" >>
    BY <1>5
  <2>2. setting[1] = "gains"
    BY Zenon, <2>1
  <2> QED
    BY <2>2
<1>6. CASE setting \in {"wide"} \X DOMAIN WideSettings
  BY Zenon, <1>6, Pairs
<1>7. CASE setting \in {"plain"} \X PlainSettings
  BY Zenon, <1>7, Pairs
<1> QED
  BY <1>2, <1>3, <1>4, <1>5, <1>6, <1>7 DEF Settings

\* A setting is known by its kind and its number or name.
LEMMA SettingIsPair ==
    \A setting \in Settings : setting = << setting[1], setting[2] >>
<1> SUFFICES ASSUME NEW setting \in Settings
             PROVE  setting = << setting[1], setting[2] >>
  OBVIOUS
<1>1. CASE setting = << "gains", "" >>
  BY Zenon, <1>1
<1>2. ASSUME NEW kind, NEW B, setting \in {kind} \X B
      PROVE  setting = << setting[1], setting[2] >>
  BY Zenon, <1>2, Pairs
<1> QED
  BY Zenon, <1>1, <1>2 DEF Settings

LEMMA GainsSetting ==
    /\ << "gains", "" >> \in Settings
    /\ \A setting \in Settings : setting[1] = "gains" => setting = << "gains", "" >>
<1>1. << "gains", "" >> \in Settings
  BY Zenon DEF Settings
<1>2. ASSUME NEW setting \in Settings, setting[1] = "gains"
      PROVE  setting = << "gains", "" >>
  <2>1. ASSUME NEW kind, NEW B, setting \in {kind} \X B, kind # "gains"
        PROVE  FALSE
    BY Zenon, <1>2, <2>1, Pairs
  <2>2. /\ "spring" # "gains" /\ "oscillator" # "gains" /\ "motion" # "gains"
        /\ "wide" # "gains" /\ "plain" # "gains"
    BY SMT
  <2> QED
    BY Zenon, <2>1, <2>2 DEF Settings
<1> QED
  BY <1>1, <1>2

LEMMA PlaceBounds ==
  ASSUME NEW setting \in Settings
  PROVE  /\ First(setting) \in Int /\ Size(setting) \in {1, 2, 4, 6}
         /\ setting[1] = "spring" =>
                First(setting) = 638 + 6 * setting[2] /\ Size(setting) = 6
         /\ setting[1] = "oscillator" =>
                First(setting) = 660 + 4 * setting[2] /\ Size(setting) = 4
         /\ setting[1] = "motion" =>
                First(setting) = 780 + 6 * setting[2] /\ Size(setting) = 6
         /\ setting[1] = "gains" => First(setting) = 133 /\ Size(setting) = 6
         /\ setting[1] = "wide" =>
                First(setting) = WidePlace[setting[2]] /\ Size(setting) = 2
         /\ setting[1] = "plain" =>
                First(setting) = PlainPlace[setting[2]] /\ Size(setting) = 1
<1>1. CASE setting[1] = "spring" /\ setting[2] \in 1..3
  BY SMT, <1>1 DEF First, Size
<1>2. CASE setting[1] = "oscillator" /\ setting[2] \in 1..2
  BY SMT, <1>2 DEF First, Size
<1>3. CASE setting[1] = "motion" /\ setting[2] \in 0..31
  BY SMT, <1>3 DEF First, Size
<1>4. CASE setting[1] = "gains"
  BY SMT, <1>4 DEF First, Size
<1>5. CASE setting[1] = "wide" /\ setting[2] \in DOMAIN WideSettings
  BY SMT, <1>5, WidePlaces DEF First, Size
<1>6. CASE setting[1] = "plain" /\ setting[2] \in PlainSettings
  BY SMT, <1>6, PlainPlaces DEF First, Size
<1> QED
  BY <1>1, <1>2, <1>3, <1>4, <1>5, <1>6, SettingKinds

\* The kinds of settings have addresses of their own.
LEMMA Regions ==
  ASSUME NEW s \in Settings, NEW a \in Place(s)
  PROVE  \/ s[1] = "spring" /\ a \in 644..661
         \/ s[1] = "oscillator" /\ a \in 664..671
         \/ s[1] = "motion" /\ a \in 780..971
         \/ s[1] = "gains" /\ a \in 133..138
         \/ s[1] = "wide" /\ a \in {140, 141, 642, 643}
         \/ s[1] = "plain" /\ a \in {0, 9, 139, 142, 143, 150, 641, 662, 663, 672}
<1>1. First(s) <= a /\ a <= First(s) + Size(s) - 1 /\ a \in Int
  BY SMT, PlaceBounds DEF Place
<1>2. CASE s[1] = "spring" /\ s[2] \in 1..3
  BY SMT, <1>1, <1>2, PlaceBounds
<1>3. CASE s[1] = "oscillator" /\ s[2] \in 1..2
  BY SMT, <1>1, <1>3, PlaceBounds
<1>4. CASE s[1] = "motion" /\ s[2] \in 0..31
  BY SMT, <1>1, <1>4, PlaceBounds
<1>5. CASE s[1] = "gains"
  BY SMT, <1>1, <1>5, PlaceBounds
<1>6. CASE s[1] = "wide" /\ s[2] \in DOMAIN WideSettings
  <2>1. First(s) = 140 \/ First(s) = 642
    BY SMT, <1>6, PlaceBounds, WidePlaces
  <2>2. Size(s) = 2
    BY <1>6, PlaceBounds
  <2>3. a \in {140, 141, 642, 643}
    BY SMT, <1>1, <2>1, <2>2
  <2> QED
    BY <1>6, <2>3
<1>7. CASE s[1] = "plain" /\ s[2] \in PlainSettings
  <2>1. First(s) \in {0, 9, 139, 142, 143, 150, 641, 662, 663, 672}
    BY <1>7, PlaceBounds, PlainPlaces
  <2>2. Size(s) = 1
    BY <1>7, PlaceBounds
  <2>3. a = First(s)
    BY SMT, <1>1, <2>2, PlaceBounds
  <2> QED
    BY <1>7, <2>1, <2>3
<1> QED
  BY <1>2, <1>3, <1>4, <1>5, <1>6, <1>7, SettingKinds

\* No register belongs to two settings.
LEMMA PlacesApart ==
  ASSUME NEW s \in Settings, NEW t \in Settings, NEW a \in Place(s), a \in Place(t)
  PROVE  s = t
<1>1. s[1] = t[1]
  BY SMT, Regions
<1>2. /\ First(s) <= a /\ a <= First(s) + Size(s) - 1 /\ First(t) <= a
      /\ a <= First(t) + Size(t) - 1 /\ a \in Int
  BY SMT, PlaceBounds DEF Place
<1>3. s[2] = t[2]
  <2>1. CASE s[1] = "spring"
    <3>0. t[1] = "spring"
      BY <1>1, <2>1
    <3>1. s[2] \in 1..3 /\ t[2] \in 1..3
      BY <3>0, <2>1, SettingKinds
    <3>2. /\ First(s) = 638 + 6 * s[2] /\ Size(s) = 6
          /\ First(t) = 638 + 6 * t[2] /\ Size(t) = 6
      BY SMT, <3>0, <2>1, PlaceBounds
    <3> QED
      BY SMT, <1>2, <3>1, <3>2
  <2>2. CASE s[1] = "oscillator"
    <3>0. t[1] = "oscillator"
      BY <1>1, <2>2
    <3>1. s[2] \in 1..2 /\ t[2] \in 1..2
      BY <3>0, <2>2, SettingKinds
    <3>2. /\ First(s) = 660 + 4 * s[2] /\ Size(s) = 4
          /\ First(t) = 660 + 4 * t[2] /\ Size(t) = 4
      BY SMT, <3>0, <2>2, PlaceBounds
    <3> QED
      BY SMT, <1>2, <3>1, <3>2
  <2>3. CASE s[1] = "motion"
    <3>0. t[1] = "motion"
      BY <1>1, <2>3
    <3>1. s[2] \in 0..31 /\ t[2] \in 0..31
      BY <3>0, <2>3, SettingKinds
    <3>2. /\ First(s) = 780 + 6 * s[2] /\ Size(s) = 6
          /\ First(t) = 780 + 6 * t[2] /\ Size(t) = 6
      BY SMT, <3>0, <2>3, PlaceBounds
    <3> QED
      BY SMT, <1>2, <3>1, <3>2
  <2>4. CASE s[1] = "gains"
    <3>1. s = << "gains", "" >> /\ t = << "gains", "" >>
      BY Zenon, <1>1, <2>4, GainsSetting
    <3> QED
      BY Zenon, <3>1
  <2>5. CASE s[1] = "wide"
    <3>0. t[1] = "wide"
      BY <1>1, <2>5
    <3>1. s[2] \in DOMAIN WideSettings /\ t[2] \in DOMAIN WideSettings
      BY <1>1, <2>5, SettingKinds
    <3>2. First(s) = WidePlace[s[2]] /\ First(t) = WidePlace[t[2]]
      BY <3>0, <2>5, PlaceBounds
    <3>3. Size(s) = 2 /\ Size(t) = 2
      BY <3>0, <2>5, PlaceBounds
    <3> QED
      BY SMT, <1>2, <3>1, <3>2, <3>3, WidePlaces
  <2>6. CASE s[1] = "plain"
    <3>0. t[1] = "plain"
      BY <1>1, <2>6
    <3>1. s[2] \in PlainSettings /\ t[2] \in PlainSettings
      BY <1>1, <2>6, SettingKinds
    <3>2. First(s) = PlainPlace[s[2]] /\ First(t) = PlainPlace[t[2]]
      BY <3>0, <2>6, PlaceBounds
    <3>3. Size(s) = 1 /\ Size(t) = 1
      BY <3>0, <2>6, PlaceBounds
    <3>4. First(s) = First(t)
      BY SMT, <1>2, <3>3, PlaceBounds
    <3>5. PlainPlace[s[2]] = PlainPlace[t[2]]
      BY <3>2, <3>4
    <3>6. \A m, n \in PlainSettings : PlainPlace[m] = PlainPlace[n] => m = n
      BY PlainPlaces
    <3> QED
      BY Zenon, <3>1, <3>5, <3>6
  <2> QED
    BY <2>1, <2>2, <2>3, <2>4, <2>5, <2>6, SettingKinds
<1> QED
  BY Zenon, <1>1, <1>3, SettingIsPair

-----------------------------------------------------------------------------
(* A setting depends on the registers of its place only.                   *)

Kept(first, size) == \A a \in first .. first + size - 1 : Register(a)' = Register(a)

LEMMA SpringUnchanged ==
  ASSUME NEW s \in 1..3, Kept(638 + 6 * s, 6)
  PROVE  Spring(s)' = Spring(s)
<1> DEFINE at == Springs[s]
<1>1. /\ at["GAIN_N_MM"] = 638 + 6 * s /\ at["CENTER_UM"] = 639 + 6 * s
      /\ at["CENTER_UM_H"] = 640 + 6 * s /\ at["COUPLING"] = 641 + 6 * s
      /\ at["DEAD_ZONE_MM"] = 642 + 6 * s /\ at["FORCE_SAT_N"] = 643 + 6 * s
  BY SpringPlaces
<1> HIDE DEF at
<1>2. /\ Register(at["GAIN_N_MM"])' = Register(at["GAIN_N_MM"])
      /\ Register(at["CENTER_UM"])' = Register(at["CENTER_UM"])
      /\ Register(at["CENTER_UM_H"])' = Register(at["CENTER_UM_H"])
      /\ Register(at["COUPLING"])' = Register(at["COUPLING"])
      /\ Register(at["DEAD_ZONE_MM"])' = Register(at["DEAD_ZONE_MM"])
      /\ Register(at["FORCE_SAT_N"])' = Register(at["FORCE_SAT_N"])
  BY SMT, <1>1 DEF Kept, Register
<1> QED
  BY SMT, <1>2 DEF Spring, Wide, at

LEMMA OscillatorUnchanged ==
  ASSUME NEW o \in 1..2, Kept(660 + 4 * o, 4)
  PROVE  Oscillator(o)' = Oscillator(o)
<1> DEFINE at == Oscillators[o]
<1>1. /\ at["GAIN_N"] = 660 + 4 * o /\ at["TYPE"] = 661 + 4 * o
      /\ at["FREQ_DHZ"] = 662 + 4 * o /\ at["DUTY"] = 663 + 4 * o
  BY OscillatorPlaces
<1> HIDE DEF at
<1>2. /\ Register(at["GAIN_N"])' = Register(at["GAIN_N"])
      /\ Register(at["TYPE"])' = Register(at["TYPE"])
      /\ Register(at["FREQ_DHZ"])' = Register(at["FREQ_DHZ"])
      /\ Register(at["DUTY"])' = Register(at["DUTY"])
  BY SMT, <1>1 DEF Kept, Register
<1> QED
  BY SMT, <1>2 DEF Oscillator, at

LEMMA MotionUnchanged ==
  ASSUME NEW n \in 0..31, Kept(780 + 6 * n, 6)
  PROVE  Motion(n)' = Motion(n)
<1> DEFINE at == KIN_MOTION(n)
<1>1. at = 780 + 6 * n /\ at \in Int
  BY SMT DEF KIN_MOTION
<1> HIDE DEF at
<1>2. /\ Register(at)' = Register(at) /\ Register(at + 1)' = Register(at + 1)
      /\ Register(at + 2)' = Register(at + 2) /\ Register(at + 3)' = Register(at + 3)
      /\ Register(at + 4)' = Register(at + 4) /\ Register(at + 5)' = Register(at + 5)
  BY SMT, <1>1 DEF Kept, Register
<1> QED
  BY SMT, <1>2 DEF Motion, Wide, at

LEMMA GainsUnchanged == ASSUME Kept(133, 6) PROVE Gains' = Gains
<1>1. /\ Register(133)' = Register(133) /\ Register(134)' = Register(134)
      /\ Register(135)' = Register(135) /\ Register(136)' = Register(136)
      /\ Register(137)' = Register(137) /\ Register(138)' = Register(138)
  BY SMT DEF Kept, Register
<1>2. /\ Named("PC_PGAIN") = Register(133) /\ Named("PC_IGAIN") = Register(134)
      /\ Named("PC_DVGAIN") = Register(135) /\ Named("PC_DEGAIN") = Register(136)
      /\ WideNamed("PC_FSATU", "PC_FSATU_H")
             = combine_into_wide_register(Register(137), Register(138))
  BY SMT, TuningAddresses DEF Named, WideNamed, Wide
<1>3. /\ Named("PC_PGAIN")' = Register(133)' /\ Named("PC_IGAIN")' = Register(134)'
      /\ Named("PC_DVGAIN")' = Register(135)' /\ Named("PC_DEGAIN")' = Register(136)'
      /\ WideNamed("PC_FSATU", "PC_FSATU_H")'
             = combine_into_wide_register(Register(137)', Register(138)')
  BY SMT, TuningAddresses DEF Named, WideNamed, Wide
<1> QED
  BY SMT, <1>1, <1>2, <1>3 DEF Gains

LEMMA WideUnchanged ==
  ASSUME NEW name \in DOMAIN WideSettings, Kept(WidePlace[name], 2)
  PROVE  WideNamed(name, WideSettings[name])' = WideNamed(name, WideSettings[name])
<1> DEFINE at == WidePlace[name]
<1>1. /\ at \in Int /\ Address(name) = at /\ Address(WideSettings[name]) = at + 1
  BY WidePlaces
<1> HIDE DEF at
<1>2. Register(at)' = Register(at) /\ Register(at + 1)' = Register(at + 1)
  BY SMT, <1>1 DEF Kept, Register, at
<1> QED
  BY SMT, <1>1, <1>2 DEF WideNamed, Wide

LEMMA PlainUnchanged ==
  ASSUME NEW name \in PlainSettings, Kept(PlainPlace[name], 1)
  PROVE  Named(name)' = Named(name)
<1>1. PlainPlace[name] = Address(name) /\ PlainPlace[name] \in Int
  BY SMT, PlainPlaces DEF PlainPlace
<1>2. Register(Address(name))' = Register(Address(name))
  BY SMT, <1>1 DEF Kept, Register
<1> QED
  BY SMT, <1>2 DEF Named

LEMMA HasUnchanged ==
  ASSUME NEW setting \in Settings, Kept(First(setting), Size(setting))
  PROVE  Has(setting)' = Has(setting)
<1>1. CASE setting[1] = "spring" /\ setting[2] \in 1..3
  <2>0. First(setting) = 638 + 6 * setting[2] /\ Size(setting) = 6
    BY SMT, <1>1, PlaceBounds
  <2>1. Kept(638 + 6 * setting[2], 6)
    BY Zenon, <2>0
  <2>2. Spring(setting[2])' = Spring(setting[2])
    BY Zenon, <1>1, <2>1, SpringUnchanged
  <2> QED
    BY SMT, <1>1, <2>2 DEF Has
<1>2. CASE setting[1] = "oscillator" /\ setting[2] \in 1..2
  <2>0. First(setting) = 660 + 4 * setting[2] /\ Size(setting) = 4
    BY SMT, <1>2, PlaceBounds
  <2>1. Kept(660 + 4 * setting[2], 4)
    BY Zenon, <2>0
  <2>2. Oscillator(setting[2])' = Oscillator(setting[2])
    BY Zenon, <1>2, <2>1, OscillatorUnchanged
  <2> QED
    BY SMT, <1>2, <2>2 DEF Has
<1>3. CASE setting[1] = "motion" /\ setting[2] \in 0..31
  <2>0. First(setting) = 780 + 6 * setting[2] /\ Size(setting) = 6
    BY SMT, <1>3, PlaceBounds
  <2>1. Kept(780 + 6 * setting[2], 6)
    BY Zenon, <2>0
  <2>2. Motion(setting[2])' = Motion(setting[2])
    BY Zenon, <1>3, <2>1, MotionUnchanged
  <2> QED
    BY SMT, <1>3, <2>2 DEF Has
<1>4. CASE setting[1] = "gains"
  <2>0. First(setting) = 133 /\ Size(setting) = 6
    BY SMT, <1>4, PlaceBounds
  <2>1. Kept(133, 6)
    BY Zenon, <2>0
  <2>2. Gains' = Gains
    BY Zenon, <2>1, GainsUnchanged
  <2> QED
    BY SMT, <1>4, <2>2 DEF Has
<1>5. CASE setting[1] = "wide" /\ setting[2] \in DOMAIN WideSettings
  <2>0. First(setting) = WidePlace[setting[2]] /\ Size(setting) = 2
    BY SMT, <1>5, PlaceBounds
  <2>1. Kept(WidePlace[setting[2]], 2)
    BY Zenon, <2>0
  <2> DEFINE name == setting[2]
  <2>2. WideNamed(name, WideSettings[name])' = WideNamed(name, WideSettings[name])
    BY Zenon, <1>5, <2>1, WideUnchanged
  <2> QED
    BY SMT, <1>5, <2>2 DEF Has
<1>6. CASE setting[1] = "plain" /\ setting[2] \in PlainSettings
  <2>0. First(setting) = PlainPlace[setting[2]] /\ Size(setting) = 1
    BY SMT, <1>6, PlaceBounds
  <2>1. Kept(PlainPlace[setting[2]], 1)
    BY Zenon, <2>0
  <2>2. Named(setting[2])' = Named(setting[2])
    BY Zenon, <1>6, <2>1, PlainUnchanged
  <2> QED
    BY SMT, <1>6, <2>2 DEF Has
<1> QED
  BY <1>1, <1>2, <1>3, <1>4, <1>5, <1>6, SettingKinds

-----------------------------------------------------------------------------
(* A setter writes the place of its setting, and the setting is then what  *)
(* it was asked for.                                                       *)

\* It writes the place, from the first register to the last.
Fits(c) ==
    /\ c.setting \in Settings
    /\ c.start = First(c.setting)
    /\ DOMAIN c.data = 1..Size(c.setting) /\ Len(c.data) = Size(c.setting)

\* The motor has what it writes.
Holds(c) == \A i \in 1..Size(c.setting) : Register(c.start + i - 1) = c.data[i]

Right(c) == Fits(c) /\ (Holds(c) => Has(c.setting) = c.arguments)

LEMMA PlainRight ==
  ASSUME NEW name \in PlainSettings, NEW value
  PROVE  Right(write_register(name, value))
<1> DEFINE setting == << "plain", name >>
<1> DEFINE c == write_register(name, value)
<1>1. setting[1] = "plain" /\ setting[2] = name
  BY Zenon
<1>2. setting \in Settings
  BY Zenon DEF Settings
<1> HIDE DEF setting
<1>3. /\ c.setting = setting /\ c.arguments = << value >> /\ c.start = Address(name)
      /\ c.data = << value >>
  BY DEF write_register, Write, setting
<1> HIDE DEF c
<1>4. /\ First(setting) = PlainPlace[name] /\ Size(setting) = 1
      /\ PlainPlace[name] = Address(name) /\ Address(name) \in Int
  <2>1. First(setting) = PlainPlace[name] /\ Size(setting) = 1
    BY <1>1, <1>2, PlaceBounds
  <2>2. PlainPlace[name] = Address(name)
    BY DEF PlainPlace
  <2>3. PlainPlace[name] \in Int
    BY SMT, PlainPlaces
  <2> QED
    BY <2>1, <2>2, <2>3
<1>5. Fits(c)
  BY SMT, <1>2, <1>3, <1>4 DEF Fits
<1>6. ASSUME Holds(c) PROVE Has(setting) = << value >>
  <2>1. Register(Address(name)) = value
    BY SMT, <1>3, <1>4, <1>6 DEF Holds
  <2> QED
    BY SMT, <1>1, <2>1 DEF Has, Named
<1> QED
  BY <1>3, <1>5, <1>6 DEF Right, c

LEMMA WideRight ==
  ASSUME NEW name \in DOMAIN WideSettings, NEW value, IsInt32(value)
  PROVE  Right(write_wide_register(name, value))
<1> DEFINE setting == << "wide", name >>
<1> DEFINE c == write_wide_register(name, value)
<1>1. setting[1] = "wide" /\ setting[2] = name
  BY Zenon
<1>2. setting \in Settings
  BY Zenon DEF Settings
<1> HIDE DEF setting
<1>3. /\ c.setting = setting /\ c.arguments = << value >> /\ c.start = Address(name)
      /\ c.data = << Low(value), High(value) >>
  BY DEF write_wide_register, Write, setting
<1> HIDE DEF c
<1>4. /\ First(setting) = WidePlace[name] /\ Size(setting) = 2
      /\ WidePlace[name] = Address(name) /\ Address(name) \in Int
      /\ Address(WideSettings[name]) = Address(name) + 1
  BY SMT, <1>1, <1>2, PlaceBounds, WidePlaces
<1>5. Fits(c)
  BY SMT, <1>2, <1>3, <1>4 DEF Fits
<1>6. ASSUME Holds(c) PROVE Has(setting) = << value >>
  <2>1. /\ Register(Address(name)) = Low(value)
        /\ Register(Address(name) + 1) = High(value)
    BY SMT, <1>3, <1>4, <1>6 DEF Holds
  <2>2. WideNamed(name, WideSettings[name]) = value
    BY SMT, <1>4, <2>1, CombineHalves DEF WideNamed, Wide
  <2> QED
    BY SMT, <1>1, <2>2 DEF Has
<1> QED
  BY <1>3, <1>5, <1>6 DEF Right, c

LEMMA GainsRight ==
  ASSUME NEW pgain, NEW igain, NEW dvgain, NEW sat, NEW degain, IsInt32(sat)
  PROVE  Right(tune_position_controller(pgain, igain, dvgain, sat, degain))
<1> DEFINE setting == << "gains", "" >>
<1> DEFINE arguments == << pgain, igain, dvgain, sat, degain >>
<1> DEFINE c == tune_position_controller(pgain, igain, dvgain, sat, degain)
<1>1. setting[1] = "gains"
  BY Zenon
<1>2. setting \in Settings
  BY GainsSetting
<1> HIDE DEF setting
<1>3. /\ c.setting = setting /\ c.arguments = arguments /\ c.start = Address("PC_PGAIN")
      /\ c.data = << pgain, igain, dvgain, degain, Low(sat), High(sat) >>
  BY DEF tune_position_controller, Write, setting
<1> HIDE DEF c
<1>4. First(setting) = 133 /\ Size(setting) = 6
  BY <1>1, <1>2, PlaceBounds
<1>5. Fits(c)
  BY SMT, <1>2, <1>3, <1>4, TuningAddresses DEF Fits
<1>6. ASSUME Holds(c) PROVE Has(setting) = arguments
  <2>1. /\ Register(133) = pgain /\ Register(134) = igain /\ Register(135) = dvgain
        /\ Register(136) = degain /\ Register(137) = Low(sat)
        /\ Register(138) = High(sat)
    BY SMT, <1>3, <1>4, <1>6, TuningAddresses DEF Holds
  <2>2. /\ Named("PC_PGAIN") = pgain /\ Named("PC_IGAIN") = igain
        /\ Named("PC_DVGAIN") = dvgain /\ Named("PC_DEGAIN") = degain
    BY SMT, <2>1, TuningAddresses DEF Named
  <2>3. WideNamed("PC_FSATU", "PC_FSATU_H") = sat
    BY SMT, <2>1, TuningAddresses, CombineHalves DEF WideNamed, Wide
  <2>4. Gains = arguments
    BY SMT, <2>2, <2>3 DEF Gains
  <2> QED
    BY SMT, <1>1, <2>4 DEF Has
<1> QED
  BY <1>3, <1>5, <1>6 DEF Right, c

LEMMA SpringRight ==
  ASSUME NEW id \in 0..2, NEW gain, NEW center, NEW dead_zone, NEW saturation,
         NEW coupling, IsInt32(center)
  PROVE  Right(set_spring_effect(id, gain, center, dead_zone, saturation, coupling))
<1> DEFINE setting == << "spring", id + 1 >>
<1> DEFINE arguments == << gain, center, dead_zone, saturation, coupling >>
<1> DEFINE c == set_spring_effect(id, gain, center, dead_zone, saturation, coupling)
<1>0. id + 1 \in 1..3 /\ DOMAIN Springs = 1..3
  BY SMT DEF Springs
<1>1. setting[1] = "spring" /\ setting[2] = id + 1
  BY Zenon
<1>2. setting \in Settings
  BY Zenon, <1>0 DEF Settings
<1> HIDE DEF setting
<1>3. /\ c.setting = setting /\ c.arguments = arguments
      /\ c.start = Springs[1]["GAIN_N_MM"] + 6 * id
      /\ c.data = << gain, Low(center), High(center), coupling, dead_zone, saturation >>
  BY DEF set_spring_effect, Write, setting
<1> HIDE DEF c
<1>4. First(setting) = 644 + 6 * id /\ Size(setting) = 6
  BY SMT, <1>1, <1>2, PlaceBounds
<1>5. c.start = 644 + 6 * id
  BY SMT, <1>3, SpringPlaces
<1>6. Fits(c)
  BY SMT, <1>2, <1>3, <1>4, <1>5 DEF Fits
<1>7. ASSUME Holds(c) PROVE Has(setting) = arguments
  <2> DEFINE at == Springs[id + 1]
  <2>1. /\ Register(644 + 6 * id) = gain /\ Register(645 + 6 * id) = Low(center)
        /\ Register(646 + 6 * id) = High(center) /\ Register(647 + 6 * id) = coupling
        /\ Register(648 + 6 * id) = dead_zone /\ Register(649 + 6 * id) = saturation
    BY SMT, <1>3, <1>4, <1>5, <1>7 DEF Holds
  <2>2. /\ at["GAIN_N_MM"] = 644 + 6 * id /\ at["CENTER_UM"] = 645 + 6 * id
        /\ at["CENTER_UM_H"] = 646 + 6 * id /\ at["COUPLING"] = 647 + 6 * id
        /\ at["DEAD_ZONE_MM"] = 648 + 6 * id /\ at["FORCE_SAT_N"] = 649 + 6 * id
    BY SMT, <1>0, SpringPlaces
  <2> HIDE DEF at
  <2>3. Wide(at["CENTER_UM"], at["CENTER_UM_H"]) = center
    BY SMT, <2>1, <2>2, CombineHalves DEF Wide
  <2>4. Spring(id + 1) = arguments
    BY SMT, <2>1, <2>2, <2>3 DEF Spring, at
  <2> QED
    BY SMT, <1>1, <2>4 DEF Has
<1> QED
  BY <1>3, <1>6, <1>7 DEF Right, c

LEMMA OscillatorRight ==
  ASSUME NEW id \in 0..1, NEW amplitude, NEW frequency, NEW duty, NEW type
  PROVE  Right(set_osc_effect(id, amplitude, frequency, duty, type))
<1> DEFINE setting == << "oscillator", id + 1 >>
<1> DEFINE arguments == << amplitude, frequency, duty, type >>
<1> DEFINE c == set_osc_effect(id, amplitude, frequency, duty, type)
<1>0. id + 1 \in 1..2 /\ DOMAIN Oscillators = 1..2
  BY SMT DEF Oscillators
<1>1. setting[1] = "oscillator" /\ setting[2] = id + 1
  BY Zenon
<1>2. setting \in Settings
  BY Zenon, <1>0 DEF Settings
<1> HIDE DEF setting
<1>3. /\ c.setting = setting /\ c.arguments = arguments
      /\ c.start = Oscillators[1]["GAIN_N"] + 4 * id
      /\ c.data = << amplitude, type, frequency, duty >>
  BY DEF set_osc_effect, Write, setting
<1> HIDE DEF c
<1>4. First(setting) = 664 + 4 * id /\ Size(setting) = 4
  BY SMT, <1>1, <1>2, PlaceBounds
<1>5. c.start = 664 + 4 * id
  BY SMT, <1>3, OscillatorPlaces
<1>6. Fits(c)
  BY SMT, <1>2, <1>3, <1>4, <1>5 DEF Fits
<1>7. ASSUME Holds(c) PROVE Has(setting) = arguments
  <2> DEFINE at == Oscillators[id + 1]
  <2>1. /\ Register(664 + 4 * id) = amplitude /\ Register(665 + 4 * id) = type
        /\ Register(666 + 4 * id) = frequency /\ Register(667 + 4 * id) = duty
    BY SMT, <1>3, <1>4, <1>5, <1>7 DEF Holds
  <2>2. /\ at["GAIN_N"] = 664 + 4 * id /\ at["TYPE"] = 665 + 4 * id
        /\ at["FREQ_DHZ"] = 666 + 4 * id /\ at["DUTY"] = 667 + 4 * id
    BY SMT, <1>0, OscillatorPlaces
  <2> HIDE DEF at
  <2>3. Oscillator(id + 1) = arguments
    BY SMT, <2>1, <2>2 DEF Oscillator, at
  <2> QED
    BY SMT, <1>1, <2>3 DEF Has
<1> QED
  BY <1>3, <1>6, <1>7 DEF Right, c

\* The three fields of the last register of a motion do not overlap.
LEMMA OptionFields ==
  ASSUME NEW type \in 0..1, NEW auto \in 0..1, NEW next \in 0..32
  PROVE  LET options == uint16_t(2 * type + 8 * next + auto) IN
         (options \div 2) % 4 = type /\ options % 2 = auto /\ options \div 8 = next
<1> DEFINE options == 2 * type + 8 * next + auto
<1>1. uint16_t(options) = options
  BY SMT DEF uint16_t
<1>2. (options \div 2) % 4 = type
  BY SMT
<1>3. options % 2 = auto
  BY SMT
<1>4. options \div 8 = next
  BY SMT
<1> QED
  BY <1>1, <1>2, <1>3, <1>4

LEMMA MotionSetting ==
  ASSUME NEW ID \in 0..31
  PROVE  /\ << "motion", ID >> \in Settings
         /\ << "motion", ID >>[1] = "motion" /\ << "motion", ID >>[2] = ID
BY Zenon DEF Settings

LEMMA MotionRight ==
  ASSUME NEW ID \in 0..31, NEW position, NEW time, NEW delay \in Int, NEW type \in 0..1,
         NEW auto_next \in 0..1, NEW next_id \in -1..31, IsInt32(position),
         IsInt32(time), IsInt16(delay)
  PROVE  Right(set_kinematic_motion(ID, position, time, delay, type, auto_next, next_id))
<1> DEFINE next == IF next_id = -1 THEN ID + 1 ELSE next_id
<1> DEFINE setting == << "motion", ID >>
<1> DEFINE arguments == << position, time, delay, type, auto_next, next >>
<1> DEFINE options == uint16_t(2 * type + 8 * next + auto_next)
<1> DEFINE c == set_kinematic_motion(ID, position, time, delay, type, auto_next, next_id)
<1>0. next \in 0..32
  BY SMT
<1>1. setting[1] = "motion" /\ setting[2] = ID
  BY MotionSetting
<1>2. setting \in Settings
  BY MotionSetting
<1> HIDE DEF setting
<1>3. /\ c.setting = setting /\ c.arguments = arguments
      /\ c.start = KIN_MOTION(0) + 6 * ID
      /\ c.data = << Low(position), High(position), Low(time), High(time),
                     uint16_t(delay), options >>
  BY DEF set_kinematic_motion, Write, setting
<1> HIDE DEF c
<1>4. First(setting) = 780 + 6 * ID /\ Size(setting) = 6
  BY SMT, <1>1, <1>2, PlaceBounds
<1>5. c.start = 780 + 6 * ID
  BY SMT, <1>3 DEF KIN_MOTION
<1>6. (options \div 2) % 4 = type /\ options % 2 = auto_next /\ options \div 8 = next
  <2> HIDE DEF next
  <2> QED
    BY <1>0, OptionFields
<1> HIDE DEF options, next
<1>7. Fits(c)
  BY SMT, <1>2, <1>3, <1>4, <1>5 DEF Fits
<1>8. ASSUME Holds(c) PROVE Has(setting) = arguments
  <2> DEFINE at == KIN_MOTION(ID)
  <2>1. at = 780 + 6 * ID /\ at \in Int
    BY SMT DEF KIN_MOTION
  <2> HIDE DEF at
  <2>2. /\ Register(at) = Low(position) /\ Register(at + 1) = High(position)
        /\ Register(at + 2) = Low(time) /\ Register(at + 3) = High(time)
        /\ Register(at + 4) = uint16_t(delay) /\ Register(at + 5) = options
    BY SMT, <1>3, <1>4, <1>5, <1>8, <2>1 DEF Holds
  <2>3. Wide(at, at + 1) = position /\ Wide(at + 2, at + 3) = time
    BY SMT, <2>2, CombineHalves DEF Wide
  <2>4. int16_t(Register(at + 4)) = delay
    BY SMT, <2>2, SignedWord
  <2>5. Motion(ID) = arguments
    BY SMT, <1>6, <2>2, <2>3, <2>4 DEF Motion, at
  <2> QED
    BY SMT, <1>1, <2>5 DEF Has
<1> QED
  BY <1>3, <1>7, <1>8 DEF Right, c

\* What the calls write that are made of a 32-bit seed.
LEMMA SettersRight == \A c \in Setters : Right(c)
<1> SUFFICES ASSUME NEW s \in Seeds, NEW c \in SettersFrom(s)
             PROVE  Right(c)
  BY Zenon DEF Setters
<1>1. IsInt32(s)
  BY SMT, MotorAssumption DEF IsInt32
<1>2. IsInt32(-1 - s)
  BY SMT, <1>1 DEF IsInt32
<1>3. \A i \in Int : Word(s, i) \in Int
  BY SMT, <1>1 DEF Word, uint16_t, IsInt32
<1>4. "USER_MAX_FORCE" \in DOMAIN WideSettings /\ "CONSTANT_FORCE_MN" \in DOMAIN WideSettings
  BY DEF WideSettings
<1>5. ASSUME NEW value
      PROVE  /\ Right(enable_haptic_effects(value)) /\ Right(set_max_temp(value))
             /\ Right(set_max_power(value)) /\ Right(set_pctrl_tune_softstart(value))
             /\ Right(set_safety_damping(value)) /\ Right(set_damper(value))
             /\ Right(set_inertia(value)) /\ Right(set_constant_force_filter(value))
             /\ Right(write_register("CTRL_REG_0", value))
             /\ Right(write_register("KIN_SW_TRIGGER", value))
  BY Zenon, PlainRight DEF PlainSettings, enable_haptic_effects, set_max_temp, set_max_power,
         set_pctrl_tune_softstart, set_safety_damping, set_damper, set_inertia,
         set_constant_force_filter
<1>6. Right(set_max_force(s)) /\ Right(set_constant_force(s))
  BY Zenon, <1>1, <1>4, WideRight DEF set_max_force, set_constant_force
<1>7. Right(tune_position_controller(Word(s, 1), Word(s, 2), Word(s, 3), s, Word(s, 4)))
  BY Zenon, <1>1, GainsRight
<1>8. \A ID \in MotionIDs : Right(trigger_kinematic_motion(ID))
  BY Zenon, <1>5 DEF trigger_kinematic_motion
<1>9. \A ID \in MotionIDs, type \in 0..1, auto \in 0..1, next \in NextIDs :
          Right(set_kinematic_motion(ID, s, -1 - s, int16_t(Word(s, 1)), type, auto, next))
  <2>1. int16_t(Word(s, 1)) \in Int /\ IsInt16(int16_t(Word(s, 1)))
    BY <1>3, SignedRange
  <2>2. MotionIDs \subseteq 0..31 /\ NextIDs \subseteq -1..31
    BY MotorAssumption
  <2>3. ASSUME NEW ID \in 0..31, NEW delay \in Int, NEW type \in 0..1,
               NEW auto \in 0..1, NEW next \in -1..31, NEW time, IsInt32(time),
               IsInt16(delay)
        PROVE  Right(set_kinematic_motion(ID, s, time, delay, type, auto, next))
    BY Zenon, <1>1, <2>3, MotionRight
  <2>4. \A ID \in MotionIDs, next \in NextIDs : ID \in 0..31 /\ next \in -1..31
    BY <2>2
  <2> QED
    BY <1>2, <2>1, <2>3, <2>4
<1>10. \A id \in 0..2, coupling \in SpringCoupling :
           Right(set_spring_effect(id, Word(s, 1), s, Word(s, 2), Word(s, 3), coupling))
  BY <1>1, SpringRight
<1>11. \A id \in 0..1, type \in OscillatorType :
           Right(set_osc_effect(id, Word(s, 1), Word(s, 2), Word(s, 3), type))
  BY OscillatorRight
<1> DEFINE Few ==
        {enable_haptic_effects(Word(s, 1)), zero_position, clear_errors, set_max_force(s),
         set_max_temp(Word(s, 1)), set_max_power(Word(s, 1)),
         set_pctrl_tune_softstart(Word(s, 1)), set_safety_damping(Word(s, 1)),
         set_damper(Word(s, 1)), set_inertia(Word(s, 1)), set_constant_force(s),
         set_constant_force_filter(Word(s, 1)),
         tune_position_controller(Word(s, 1), Word(s, 2), Word(s, 3), s, Word(s, 4))}
<1> DEFINE Motions ==
        {set_kinematic_motion(ID, s, -1 - s, int16_t(Word(s, 1)), type, auto, next) :
             ID \in MotionIDs, type \in 0..1, auto \in 0..1, next \in NextIDs}
<1> DEFINE SpringEffects ==
        {set_spring_effect(id, Word(s, 1), s, Word(s, 2), Word(s, 3), coupling) :
             id \in 0..2, coupling \in SpringCoupling}
<1> DEFINE OscillatorEffects ==
        {set_osc_effect(id, Word(s, 1), Word(s, 2), Word(s, 3), type) :
             id \in 0..1, type \in OscillatorType}
<1>12. CASE c \in Few
  BY Zenon, <1>5, <1>6, <1>7, <1>12 DEF zero_position, clear_errors
<1>13. CASE c \in {trigger_kinematic_motion(ID) : ID \in MotionIDs}
  BY Zenon, <1>8, <1>13
<1>14. CASE c \in Motions
  BY SMT, <1>9, <1>14
<1>15. CASE c \in SpringEffects
  BY SMT, <1>10, <1>15
<1>16. CASE c \in OscillatorEffects
  BY SMT, <1>11, <1>16
<1>17. SettersFrom(s) =
           Few \cup {trigger_kinematic_motion(ID) : ID \in MotionIDs}
               \cup Motions \cup SpringEffects \cup OscillatorEffects
  BY DEF SettersFrom
<1> HIDE DEF Few, Motions, SpringEffects, OscillatorEffects
<1> QED
  BY Zenon, <1>12, <1>13, <1>14, <1>15, <1>16, <1>17

-----------------------------------------------------------------------------
(* The steps.                                                              *)

\* A frame that arrives puts its words in their place and nothing elsewhere.
LEMMA Writing ==
  ASSUME NEW c, Fits(c), registers' = Over(Written(c.start, c.data), registers)
  PROVE  /\ Holds(c)'
         /\ \A a \in Int \ Place(c.setting) : Register(a)' = Register(a)
<1> DEFINE first == c.start
<1> DEFINE size == Size(c.setting)
<1> DEFINE written == Written(first, c.data)
<1>1. /\ first = First(c.setting) /\ first \in Int /\ size \in Int
      /\ Len(c.data) = size
  BY SMT, PlaceBounds DEF Fits
<1>2. DOMAIN written = first .. first + size - 1
  BY <1>1 DEF Written
<1>3. \A a \in first .. first + size - 1 : written[a] = c.data[a - first + 1]
  BY <1>1 DEF Written
<1>4. registers' = Over(written, registers)
  OBVIOUS
<1> HIDE DEF written
<1>5. \A a \in first .. first + size - 1 : Register(a)' = c.data[a - first + 1]
  <2> SUFFICES ASSUME NEW a \in first .. first + size - 1
               PROVE  Register(a)' = c.data[a - first + 1]
    OBVIOUS
  <2>1. a \in DOMAIN Over(written, registers) /\ Over(written, registers)[a] = written[a]
    <3>1. a \in DOMAIN written
      BY <1>2
    <3> QED
      BY <3>1 DEF Over
  <2> QED
    BY <1>3, <1>4, <2>1 DEF Register
<1>6. \A a \in Int : a \notin first .. first + size - 1 => Register(a)' = Register(a)
  <2> SUFFICES ASSUME NEW a \in Int, a \notin first .. first + size - 1
               PROVE  Register(a)' = Register(a)
    OBVIOUS
  <2>1. /\ a \in DOMAIN Over(written, registers) <=> a \in DOMAIN registers
        /\ a \in DOMAIN registers => Over(written, registers)[a] = registers[a]
    <3>1. a \notin DOMAIN written
      BY <1>2
    <3> QED
      BY <3>1 DEF Over
  <2> QED
    BY <1>4, <2>1 DEF Register
<1>7. Holds(c)'
  <2> SUFFICES ASSUME NEW i \in 1..Size(c.setting)
               PROVE  Register(c.start + i - 1)' = c.data[i]
    BY DEF Holds
  <2>1. first + i - 1 \in first .. first + size - 1 /\ (first + i - 1) - first + 1 = i
    BY SMT, <1>1
  <2> QED
    BY <1>5, <2>1
<1>8. Place(c.setting) = first .. first + size - 1
  BY <1>1 DEF Place
<1> QED
  BY <1>6, <1>7, <1>8

\* The same for the next state.
LEMMA SettersRightNext == (\A c \in Setters : Right(c))'
BY SettersRight, PTL

\* A motor nobody has written to has the settings it was made with.
LEMMA FactorySettings ==
  ASSUME registers = << >>, NEW setting \in Settings
  PROVE  Has(setting) = Factory(setting)
<1>1. \A a : Register(a) = 0
  BY DEF Register
<1>2. combine_into_wide_register(0, 0) = 0 /\ int16_t(0) = 0
  BY SMT DEF combine_into_wide_register, int16_t, uint16_t
<1>3. \A a, b : Wide(a, b) = 0
  BY SMT, <1>1, <1>2 DEF Wide
<1>4. CASE setting[1] = "spring" /\ setting[2] \in 1..3
  <2>1. Spring(setting[2]) = << 0, 0, 0, 0, 0 >>
    BY SMT, <1>1, <1>3 DEF Spring
  <2>2. Factory(setting) = << 0, 0, 0, 0, 0 >>
    BY SMT, <1>4 DEF Factory
  <2> QED
    BY SMT, <1>4, <2>1, <2>2 DEF Has
<1>5. CASE setting[1] = "oscillator" /\ setting[2] \in 1..2
  <2>1. Oscillator(setting[2]) = << 0, 0, 0, 0 >>
    BY SMT, <1>1, <1>3 DEF Oscillator
  <2>2. Factory(setting) = << 0, 0, 0, 0 >>
    BY SMT, <1>5 DEF Factory
  <2> QED
    BY SMT, <1>5, <2>1, <2>2 DEF Has
<1>6. CASE setting[1] = "motion" /\ setting[2] \in 0..31
  <2>1. Motion(setting[2]) = << 0, 0, 0, 0, 0, 0 >>
    BY SMT, <1>1, <1>2, <1>3 DEF Motion
  <2>2. Factory(setting) = << 0, 0, 0, 0, 0, 0 >>
    BY SMT, <1>6 DEF Factory
  <2> QED
    BY SMT, <1>6, <2>1, <2>2 DEF Has
<1>7. CASE setting[1] = "gains"
  <2>1. Gains = << 0, 0, 0, 0, 0 >>
    BY SMT, <1>1, <1>3 DEF Gains, Named, WideNamed
  <2>2. Factory(setting) = << 0, 0, 0, 0, 0 >>
    BY SMT, <1>7 DEF Factory
  <2> QED
    BY SMT, <1>7, <2>1, <2>2 DEF Has
<1>8. CASE setting[1] = "wide" /\ setting[2] \in DOMAIN WideSettings
  <2>1. << WideNamed(setting[2], WideSettings[setting[2]]) >> = << 0 >>
    BY SMT, <1>3 DEF WideNamed
  <2>2. Factory(setting) = << 0 >>
    BY SMT, <1>8 DEF Factory
  <2> QED
    BY SMT, <1>8, <2>1, <2>2 DEF Has
<1>9. CASE setting[1] = "plain" /\ setting[2] \in PlainSettings
  <2>1. << Named(setting[2]) >> = << 0 >>
    BY SMT, <1>1 DEF Named
  <2>2. Factory(setting) = << 0 >>
    BY SMT, <1>9 DEF Factory
  <2> QED
    BY SMT, <1>9, <2>1, <2>2 DEF Has
<1> QED
  BY <1>4, <1>5, <1>6, <1>7, <1>8, <1>9, SettingKinds

\* A call leaves the settings alone that it is not about, and sets its own
\* if its frame arrives.
LEMMA SetterSets ==
  ASSUME NEW c \in Setters, NEW done \in BOOLEAN,
         registers' = IF done THEN Over(Written(c.start, c.data), registers) ELSE registers
  PROVE  /\ c.setting \in Settings
         /\ \A setting \in Settings :
                Has(setting)' = IF done /\ setting = c.setting THEN c.arguments
                                ELSE Has(setting)
<1>1. Fits(c)
  BY SettersRight DEF Right
<1>2. c.setting \in Settings
  BY <1>1 DEF Fits
<1>3. ASSUME NEW setting \in Settings, ~done
      PROVE  Has(setting)' = Has(setting)
  <2>1. registers' = registers
    BY <1>3
  <2>2. Kept(First(setting), Size(setting))
    BY <2>1 DEF Kept, Register
  <2> QED
    BY <2>2, HasUnchanged
<1>4. ASSUME NEW setting \in Settings, done, setting # c.setting
      PROVE  Has(setting)' = Has(setting)
  <2>1. \A a \in Int \ Place(c.setting) : Register(a)' = Register(a)
    BY <1>1, <1>4, Writing
  <2>2. \A a \in Place(setting) : a \notin Place(c.setting) /\ a \in Int
    BY SMT, <1>2, <1>4, PlacesApart, PlaceBounds DEF Place
  <2>3. Kept(First(setting), Size(setting))
    BY <2>1, <2>2 DEF Kept, Place
  <2> QED
    BY <2>3, HasUnchanged
<1>5. ASSUME done
      PROVE  Has(c.setting)' = c.arguments
  <2>1. Holds(c)'
    BY <1>1, <1>5, Writing
  <2>2. Right(c)'
    BY SettersRightNext
  <2> QED
    BY <2>1, <2>2 DEF Right
<1> QED
  BY <1>2, <1>3, <1>4, <1>5

-----------------------------------------------------------------------------
(* The getters.                                                            *)

LEMMA WideQuantityPlaces ==
    /\ DOMAIN WideQuantities = {"SHAFT_POS_UM", "FORCE", "SERIAL_NUMBER_LOW"}
    /\ \A q \in DOMAIN WideQuantities :
           Address(q) \in Int /\ Address(WideQuantities[q]) = Address(q) + 1
<1>1. /\ DOMAIN WideQuantities = {"SHAFT_POS_UM", "FORCE", "SERIAL_NUMBER_LOW"}
      /\ WideQuantities["SHAFT_POS_UM"] = "SHAFT_POSITION_H"
      /\ WideQuantities["FORCE"] = "FORCE_H"
      /\ WideQuantities["SERIAL_NUMBER_LOW"] = "SERIAL_NUMBER_HIGH"
  BY DEF WideQuantities
<1> QED
  BY SMT, <1>1, QuantityAddresses

\* A getter makes of the words on the wire the value they were made from.
LEMMA GetterReads ==
  ASSUME level \in Seeds, NEW q \in Quantities
  PROVE  get(q, Data(q)) = Truth(q, level)
<1>data. Data(q)[1] = Measured(q, Address(q)) /\ Data(q)[2] = Measured(q, Address(q) + 1)
  BY DEF Data
<1>0. level \in Int /\ IsInt32(level)
  BY SMT, MotorAssumption DEF IsInt32
<1>1. CASE q \in DOMAIN WideQuantities
  <2>1. Truth(q, level) = level
    BY <1>1 DEF Truth, SignedQuantities, PlainQuantities, WideQuantities
  <2>2. /\ Address(q) \in Int /\ Address(WideQuantities[q]) = Address(q) + 1
        /\ Address(q) + 1 # Address(q)
    BY SMT, <1>1, WideQuantityPlaces
  <2>3. Measured(q, Address(q)) = Low(level)
    BY <2>1, <2>2 DEF Measured, Low
  <2>4. Measured(q, Address(q) + 1) = High(level)
    BY <1>1, <2>1, <2>2 DEF Measured
  <2>5. read_wide_register_blocking(Data(q)) = level
    BY <1>0, <1>data, <2>3, <2>4, CombineHalves DEF read_wide_register_blocking
  <2> QED
    BY <1>1, <2>1, <2>5 DEF get, SignedQuantities, PlainQuantities, WideQuantities
<1>2. CASE q \in SignedQuantities
  <2>0. q \notin DOMAIN WideQuantities
    BY <1>2 DEF SignedQuantities, WideQuantities
  <2>1. Truth(q, level) = int16_t(level)
    BY <1>2 DEF Truth, SignedQuantities, PlainQuantities, WideQuantities
  <2>2. read_register_blocking(Data(q)) = uint16_t(int16_t(level))
    BY <1>data, <2>0, <2>1 DEF read_register_blocking, Measured
  <2>3. int16_t(uint16_t(int16_t(level))) = int16_t(level)
    BY <1>0, SignedRange, SignedWord
  <2> QED
    BY <1>2, <2>1, <2>2, <2>3 DEF get, SignedQuantities, PlainQuantities, WideQuantities
<1>3. CASE q \in PlainQuantities
  <2>0. q \notin DOMAIN WideQuantities
    BY <1>3 DEF PlainQuantities, WideQuantities
  <2>1. Truth(q, level) = uint16_t(level)
    BY <1>3 DEF Truth, SignedQuantities, PlainQuantities, WideQuantities
  <2>2. read_register_blocking(Data(q)) = uint16_t(uint16_t(level))
    BY <1>data, <2>0, <2>1 DEF read_register_blocking, Measured
  <2>3. uint16_t(uint16_t(level)) = uint16_t(level)
    BY SMT, <1>0 DEF uint16_t
  <2> QED
    BY <1>3, <2>1, <2>2, <2>3 DEF get, SignedQuantities, PlainQuantities, WideQuantities
<1> QED
  BY <1>1, <1>2, <1>3 DEF Quantities

-----------------------------------------------------------------------------
(* The inductive invariant.  The gains the controller would take over now  *)
(* are those of one call even before the flag is written; and while a      *)
(* getter runs, the level is one it has seen.                              *)

GainsInv == GainsOfOneCall /\ Gains \in tuned

GetterInv ==
    /\ level \in Seeds
    /\ stage = "reading" =>
           /\ level \in seen
           /\ \E q \in Quantities : reading = [NoReading EXCEPT !.quantity = q]
    /\ GetterIsTrue

RegistersInv == SettingsIntact /\ GainsInv /\ GetterInv

LEMMA HasGains ==
    Has(<< "gains", "" >>) = Gains /\ Has(<< "gains", "" >>)' = Gains'
<1> DEFINE setting == << "gains", "" >>
<1>1. setting[1] = "gains"
  BY Zenon
<1> HIDE DEF setting
<1>2. Has(setting) = Gains /\ Has(setting)' = Gains'
  BY SMT, <1>1 DEF Has
<1> QED
  BY <1>2 DEF setting

LEMMA RegistersInitial == Init => RegistersInv
<1> SUFFICES ASSUME Init PROVE RegistersInv
  OBVIOUS
<1>1. \A setting \in Settings : Has(setting) = Factory(setting)
  BY FactorySettings DEF Init
<1>2. SettingsIntact
  <2>1. \A setting : setting \notin DOMAIN possible
    <3>1. possible = << >>
      BY DEF Init
    <3> QED
      BY <3>1
  <2>2. \A setting : Possible(setting) = {Factory(setting)}
    BY <2>1 DEF Possible
  <2> QED
    BY <1>1, <2>2 DEF SettingsIntact
<1>3. Gains = Factory(<< "gains", "" >>)
  BY <1>1, GainsSetting, HasGains
<1>4. GainsInv
  BY Zenon, <1>3 DEF Init, GainsInv, GainsOfOneCall
<1>5. GetterInv
  BY DEF Init, GetterInv, GetterIsTrue
<1> QED
  BY <1>2, <1>4, <1>5 DEF RegistersInv

\* What a setting may be does not change while neither the registers nor
\* what was promised does.
LEMMA RegistersKept ==
  ASSUME registers' = registers
  PROVE  /\ \A setting \in Settings : Has(setting)' = Has(setting)
         /\ Gains' = Gains
<1>1. \A first, size : Kept(first, size)
  BY DEF Kept, Register
<1> QED
  BY <1>1, HasUnchanged, GainsUnchanged

LEMMA SetterStep ==
  ASSUME RegistersInv, NEW c \in Setters, NEW done \in BOOLEAN, NEW outcome \in Outcomes,
         setter(c, done, outcome)
  PROVE  RegistersInv'
<1>1. /\ c.setting \in Settings
      /\ \A setting \in Settings :
             Has(setting)' = IF done /\ setting = c.setting THEN c.arguments
                             ELSE Has(setting)
  BY SetterSets DEF setter
<1>2. SettingsIntact'
  <2> SUFFICES ASSUME NEW setting \in Settings
               PROVE  Has(setting)' \in Possible(setting)'
    BY DEF SettingsIntact
  <2> DEFINE told == [s \in {c.setting} |->
                         (IF outcome = "answered" THEN {} ELSE Possible(s)) \cup {c.arguments}]
  <2>1. possible' = Over(told, possible) /\ DOMAIN told = {c.setting}
    BY DEF setter
  <2>2. Has(setting) \in Possible(setting)
    BY DEF RegistersInv, SettingsIntact
  <2>3. CASE setting = c.setting
    <3>1. told[setting] = (IF outcome = "answered" THEN {} ELSE Possible(setting))
                              \cup {c.arguments}
      BY <2>3
    <3> HIDE DEF told
    <3>2. Possible(setting)' = told[setting]
      BY <2>1, <2>3 DEF Possible, Over
    <3>3. outcome = "answered" => done
      BY DEF setter
    <3>4. Has(setting)' = IF done THEN c.arguments ELSE Has(setting)
      BY <1>1, <2>3
    <3> QED
      BY <2>2, <3>1, <3>2, <3>3, <3>4
  <2>4. CASE setting # c.setting
    <3> HIDE DEF told
    <3>1. Possible(setting)' = Possible(setting)
      BY <2>1, <2>4 DEF Possible, Over
    <3>2. Has(setting)' = Has(setting)
      BY <1>1, <2>4
    <3> QED
      BY <2>2, <3>1, <3>2
  <2> QED
    BY <2>3, <2>4
<1>3. GainsInv'
  <2> DEFINE gains == << "gains", "" >>
  <2>1. gains \in Settings
    BY GainsSetting
  <2>2. Has(gains) = Gains /\ Has(gains)' = Gains'
    BY HasGains
  <2> HIDE DEF gains
  <2>3. tuned \subseteq tuned' /\ active' = active
    BY DEF setter
  <2>4. c.setting = gains => c.arguments \in tuned'
    <3>1. gains[1] = "gains"
      BY Zenon DEF gains
    <3> QED
      BY <3>1 DEF setter
  <2>5. Gains' \in tuned'
    BY <1>1, <2>1, <2>2, <2>3, <2>4 DEF RegistersInv, GainsInv
  <2> QED
    BY <2>3, <2>5 DEF RegistersInv, GainsInv, GainsOfOneCall
<1>4. GetterInv'
  BY DEF setter, BeginCall, RegistersInv, GetterInv, GetterIsTrue
<1> QED
  BY <1>2, <1>3, <1>4 DEF RegistersInv

LEMMA GainSetStep ==
  ASSUME RegistersInv, NEW done \in BOOLEAN, position_controller_gain_set(done)
  PROVE  RegistersInv'
<1>1. /\ \A setting \in Settings : Has(setting)' = Has(setting)
      /\ Gains' = Gains
  BY RegistersKept DEF position_controller_gain_set
<1>2. SettingsIntact'
  <2>1. \A setting \in Settings : Possible(setting)' = Possible(setting)
    BY DEF position_controller_gain_set, Possible
  <2> QED
    BY <1>1, <2>1 DEF RegistersInv, SettingsIntact
<1>3. GainsInv'
  BY <1>1 DEF position_controller_gain_set, RegistersInv, GainsInv, GainsOfOneCall
<1>4. GetterInv'
  BY DEF position_controller_gain_set, RegistersInv, GetterInv, GetterIsTrue
<1> QED
  BY <1>2, <1>3, <1>4 DEF RegistersInv

\* A step that leaves the registers and what was promised alone.
LEMMA ReadingStep ==
  ASSUME RegistersInv, UNCHANGED << registers, active, possible, tuned >>
  PROVE  SettingsIntact' /\ GainsInv'
<1>1. /\ \A setting \in Settings : Has(setting)' = Has(setting)
      /\ Gains' = Gains
  BY RegistersKept
<1>2. \A setting \in Settings : Possible(setting)' = Possible(setting)
  BY DEF Possible
<1> QED
  BY <1>1, <1>2 DEF RegistersInv, SettingsIntact, GainsInv, GainsOfOneCall

LEMMA BeginGetterStep ==
  ASSUME RegistersInv, NEW quantity \in Quantities, begin_getter(quantity)
  PROVE  RegistersInv'
<1>1. GetterInv'
  BY DEF begin_getter, RegistersInv, GetterInv, GetterIsTrue
<1> QED
  BY <1>1, ReadingStep DEF begin_getter, RegistersInv

LEMMA MeasureStep == ASSUME RegistersInv, Measure PROVE RegistersInv'
<1>1. GetterInv'
  <2>1. level' \in Seeds /\ seen \subseteq seen' /\ level' \in seen'
    BY DEF Measure
  <2>2. stage' = stage /\ reading' = reading
    BY DEF Measure
  <2>3. \A q : Truth(q, level)' = Truth(q, level')
    BY DEF Truth
  <2>4. GetterIsTrue'
    BY <2>1, <2>2 DEF RegistersInv, GetterInv, GetterIsTrue
  <2> QED
    BY <2>1, <2>2, <2>4 DEF RegistersInv, GetterInv
<1> QED
  BY <1>1, ReadingStep DEF Measure, RegistersInv

LEMMA GetterReturnsStep ==
  ASSUME RegistersInv, NEW outcome \in Outcomes, getter_returns(outcome)
  PROVE  RegistersInv'
<1>1. PICK q \in Quantities : reading = [NoReading EXCEPT !.quantity = q]
  BY DEF getter_returns, RegistersInv, GetterInv
<1>2. level \in Seeds /\ level \in seen
  BY DEF getter_returns, RegistersInv, GetterInv
<1>3. reading.quantity = q
  BY <1>1 DEF NoReading
<1>4. get(q, Data(q)) = Truth(q, level)
  BY <1>2, GetterReads
<1>5. PICK value \in Returned(q, outcome) :
          reading' = [reading EXCEPT !.outcome = outcome, !.value = value]
  BY <1>3 DEF getter_returns
<1>6. outcome = "answered" => value = Truth(q, level)
  BY <1>4, <1>5 DEF Returned
<1>7. reading'.quantity = q /\ reading'.outcome = outcome /\ reading'.value = value
  BY <1>1, <1>3, <1>5 DEF NoReading
<1>8. GetterInv'
  <2>1. stage' = "read" /\ seen' = seen /\ level' = level
    BY DEF getter_returns
  <2>2. GetterIsTrue'
    BY <1>2, <1>6, <1>7, <2>1 DEF GetterIsTrue
  <2> QED
    BY <1>2, <2>1, <2>2 DEF GetterInv
<1> QED
  BY <1>8, ReadingStep DEF getter_returns, RegistersInv

LEMMA EndGetterStep == ASSUME RegistersInv, EndGetter PROVE RegistersInv'
<1>1. GetterInv'
  BY DEF EndGetter, RegistersInv, GetterInv, GetterIsTrue
<1> QED
  BY <1>1, ReadingStep DEF EndGetter, RegistersInv

LEMMA RegistersStep == RegistersInv /\ [Next]_vars => RegistersInv'
<1> SUFFICES ASSUME RegistersInv, [Next]_vars PROVE RegistersInv'
  OBVIOUS
<1>1. CASE \E c \in Setters, done \in BOOLEAN, outcome \in Outcomes :
              setter(c, done, outcome)
  BY <1>1, SetterStep
<1>2. CASE \E done \in BOOLEAN : position_controller_gain_set(done)
  BY <1>2, GainSetStep
<1>3. CASE \E quantity \in Quantities : begin_getter(quantity)
  BY <1>3, BeginGetterStep
<1>4. CASE Measure
  BY <1>4, MeasureStep
<1>5. CASE \E outcome \in Outcomes : getter_returns(outcome)
  BY <1>5, GetterReturnsStep
<1>6. CASE EndGetter
  BY <1>6, EndGetterStep
<1>7. CASE UNCHANGED vars
  <2>1. GetterInv'
    BY <1>7 DEF vars, RegistersInv, GetterInv, GetterIsTrue
  <2> QED
    BY <1>7, <2>1, ReadingStep DEF vars, RegistersInv
<1> QED
  BY <1>1, <1>2, <1>3, <1>4, <1>5, <1>6, <1>7 DEF Next

-----------------------------------------------------------------------------
(* The theorems.                                                           *)

\* The registers, the gains and the getters of actuator.cpp keep the
\* inductive invariant, whatever frames and answers are lost and whatever
\* calls the motor refuses, though those report success.
THEOREM RegistersInvariant == Spec => []RegistersInv
<1>1. Init => RegistersInv
  BY RegistersInitial
<1>2. RegistersInv /\ [Next]_vars => RegistersInv'
  BY RegistersStep
<1> QED
  BY <1>1, <1>2, PTL DEF Spec

\* After any calls, of which any may be lost, refused or go unanswered, every
\* setting has the arguments of one call about it, whole, and what the motor
\* answered as done stays until a later call about it.
THEOREM SettingsAlwaysIntact == Spec => []SettingsIntact
<1>1. RegistersInv => SettingsIntact
  BY DEF RegistersInv
<1> QED
  BY <1>1, RegistersInvariant, PTL

\* tune_position_controller sets its flag even when its first write failed or
\* was refused:
\* the five gains the motor then uses are still those of one call.
THEOREM GainsAlwaysOfOneCall == Spec => []GainsOfOneCall
<1>1. RegistersInv => GainsOfOneCall
  BY DEF RegistersInv, GainsInv
<1> QED
  BY <1>1, RegistersInvariant, PTL

\* A getter that the motor answers, refusals apart, returns a value the quantity
\* had while it ran, for every 32-bit value, its sign and its halves right.
THEOREM GetterAlwaysTrue == Spec => []GetterIsTrue
<1>1. RegistersInv => GetterIsTrue
  BY DEF RegistersInv, GetterInv
<1> QED
  BY <1>1, RegistersInvariant, PTL

\* A step changes a setting only as a call about it, to that call's arguments.
OnlyItsOwnSetting ==
    \A setting \in Settings :
        Has(setting)' = Has(setting)
        \/ \E c \in Setters : c.setting = setting /\ Has(setting)' = c.arguments

\* No call about one setting disturbs another, though they are neighbours in
\* the memory map and are written a whole range at a time.
THEOREM NeighboursUndisturbed == Spec => [][OnlyItsOwnSetting]_vars
<1>1. [Next]_vars => [OnlyItsOwnSetting]_vars
  <2> SUFFICES ASSUME Next PROVE OnlyItsOwnSetting
    OBVIOUS
  <2>1. CASE \E c \in Setters, done \in BOOLEAN, outcome \in Outcomes :
              setter(c, done, outcome)
    <3>1. PICK c \in Setters, done \in BOOLEAN, outcome \in Outcomes :
              setter(c, done, outcome)
      BY <2>1
    <3>2. \A setting \in Settings :
              Has(setting)' = IF done /\ setting = c.setting THEN c.arguments
                              ELSE Has(setting)
      BY <3>1, SetterSets DEF setter
    <3> QED
      BY <3>2 DEF OnlyItsOwnSetting
  <2>2. CASE registers' = registers
    BY <2>2, RegistersKept DEF OnlyItsOwnSetting
  <2> QED
    BY <2>1, <2>2 DEF Next, position_controller_gain_set, begin_getter, Measure,
                      getter_returns, EndGetter
<1> QED
  BY <1>1, PTL DEF Spec
=============================================================================
