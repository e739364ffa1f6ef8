---------------------- MODULE CommandAndConfirm_proofs ----------------------
(***************************************************************************)
(* Proofs about CommandAndConfirm, for every set of modes asked for, every *)
(* deadline and every duration of a blocking call.                         *)
(***************************************************************************)
EXTENDS CommandAndConfirm, TLAPS

-----------------------------------------------------------------------------
(* The inductive invariant, in four parts that rest on the types only.     *)

\* A blocking call begins before the deadline and is over CallTime later.
TimeInv ==
    /\ pc \in {"write", "read"} => elapsed < WaitTime
    /\ pc \in {"loop", "confirmed", "failed"} => elapsed < WaitTime + CallTime

\* What is still on its way to a motor that was left alone asks for the mode
\* it has, and after the last read no stream command is out.
HoldInv ==
    /\ pc = "confirmed" => in_flight = None
    /\ held =>
        /\ pc = "idle" /\ motor_mode = comms_mode
        /\ StreamMode(comms_mode) = comms_mode
        /\ {commanded, in_flight} \subseteq {None, comms_mode}

\* As long as nothing went wrong: before the write, or before the first read
\* with the motor in its new mode or about to follow the write.
Undisturbed ==
    \/ pc \in {"loop", "write"} /\ iteration = 0 /\ elapsed = 0
    \/ /\ pc \in {"loop", "read"} /\ iteration = 1 /\ elapsed = 1
       /\ in_flight = None
       /\ commanded = goal \/ (commanded = None /\ motor_mode = goal)

ReasonInv ==
    pc \in {"loop", "write", "read", "failed"} /\ ~disturbed => Undisturbed

ConfirmInv == ConfirmTypeOK /\ TimeInv /\ HoldInv /\ ConfirmedMode /\ ReasonInv

-----------------------------------------------------------------------------
LEMMA StreamModeType ==
    ASSUME NEW mode \in MotorMode
    PROVE  StreamMode(mode) \in MotorMode
  BY DEF StreamMode, MotorMode

LEMMA NoneIsNoMode == None \notin MotorMode
  BY DEF None, MotorMode

\* Waiting for a stream command leaves none out, and changes the motor's
\* mode only if there was one.
LEMMA FlushEffect ==
    ASSUME ConfirmTypeOK, StreamIsFlushed
    PROVE  /\ in_flight' = None /\ motor_mode' \in MotorMode
           /\ reached' = (reached \/ motor_mode' = goal)
           /\ in_flight = None => motor_mode' = motor_mode
  BY DEF ConfirmTypeOK, StreamIsFlushed, MotorGets

\* What a blocking call takes.
LEMMA CallEffect ==
    ASSUME ConfirmTypeOK, NEW smoothly \in BOOLEAN, CallEnds(smoothly)
    PROVE  /\ disturbed' = (disturbed \/ ~smoothly)
           /\ elapsed' \in Nat
           /\ elapsed < elapsed' /\ elapsed' <= elapsed + CallTime
           /\ smoothly => elapsed' = elapsed + 1
           /\ UNCHANGED << goal, comms_mode, enabled, held >>
  <1>1. CallTime \in Nat /\ CallTime > 0 /\ elapsed \in Nat
    BY ConfirmAssumption DEF ConfirmTypeOK
  <1>2. PICK ticks \in 1..(IF smoothly THEN 1 ELSE CallTime) :
            elapsed' = elapsed + ticks
    BY DEF CallEnds
  <1>3. ticks \in Nat /\ 0 < ticks /\ ticks <= CallTime /\ (smoothly => ticks = 1)
    BY <1>1, <1>2
  <1> QED
    BY <1>1, <1>2, <1>3 DEF CallEnds

-----------------------------------------------------------------------------
(* The invariant holds at first, and each step keeps it.                   *)

LEMMA InitInv == Init => ConfirmInv
  <1> SUFFICES ASSUME Init PROVE ConfirmInv
    OBVIOUS
  <1>1. ConfirmTypeOK
    <2>1. iteration \in 0..(ReadsPerWrite - 1) /\ elapsed \in Nat
      BY DEF Init, ReadsPerWrite
    <2> QED
      BY <2>1, Zenon DEF Init, ConfirmTypeOK, MotorMode
  <1>2. TimeInv /\ HoldInv /\ ConfirmedMode /\ ReasonInv
    BY DEF Init, TimeInv, HoldInv, ConfirmedMode, ReasonInv
  <1> QED
    BY <1>1, <1>2 DEF ConfirmInv

LEMMA SetModeStep ==
    ASSUME ConfirmInv, NEW mode \in Modes, set_mode(mode)
    PROVE  ConfirmInv'
  <1> USE DEF set_mode, Goto
  <1>1. ConfirmTypeOK'
    <2>1. iteration' \in 0..(ReadsPerWrite - 1) /\ elapsed' \in Nat
      BY DEF ReadsPerWrite
    <2>2. mode \in MotorMode
      BY ConfirmAssumption
    <2>3. {disturbed, refused, reached, held}' \subseteq BOOLEAN
      BY Zenon
    <2> QED
      BY <2>1, <2>2, <2>3
         DEF ConfirmInv, ConfirmTypeOK, streamVars, motorVars
  <1>2. TimeInv'
    BY ConfirmAssumption DEF TimeInv
  <1>3. HoldInv' /\ ConfirmedMode' /\ ReasonInv'
    BY DEF HoldInv, ConfirmedMode, ReasonInv, Undisturbed
  <1> QED
    BY <1>1, <1>2, <1>3 DEF ConfirmInv

LEMMA IterationStep ==
    ASSUME ConfirmInv, next_iteration
    PROVE  ConfirmInv'
  <1> USE DEF next_iteration, TimeIsUp, write_due, loopVars, streamVars,
              motorVars, historyVars
  <1>1. ConfirmTypeOK'
    BY DEF ConfirmInv, ConfirmTypeOK
  <1>2. TimeInv'
    BY ConfirmAssumption DEF ConfirmInv, ConfirmTypeOK, TimeInv
  <1>3. HoldInv' /\ ConfirmedMode'
    BY DEF ConfirmInv, HoldInv, ConfirmedMode
  <1>4. ReasonInv'
    <2>1. CASE disturbed
      BY <2>1 DEF ReasonInv
    <2>2. CASE ~disturbed
      <3>1. Undisturbed
        BY <2>2 DEF ConfirmInv, ReasonInv
      <3>2. elapsed < WaitTime
        BY <3>1, ConfirmAssumption DEF Undisturbed
      <3>3. pc' = IF iteration = 0 THEN "write" ELSE "read"
        BY <3>2, ConfirmAssumption DEF ConfirmInv, ConfirmTypeOK
      <3> QED
        BY <3>1, <3>3 DEF ReasonInv, Undisturbed
    <2> QED
      BY <2>1, <2>2
  <1> QED
    BY <1>1, <1>2, <1>3, <1>4 DEF ConfirmInv

LEMMA WriteStep ==
    ASSUME ConfirmInv, write_register_blocking
    PROVE  ConfirmInv'
  <1> USE DEF write_register_blocking, Goto, next_index, ReadsPerWrite
  <1>1. PICK arrives \in BOOLEAN, smoothly \in BOOLEAN :
            /\ smoothly => arrives
            /\ commanded' = IF arrives THEN goal ELSE commanded
            /\ CallEnds(smoothly)
    OBVIOUS
  <1>2. ConfirmTypeOK
    BY DEF ConfirmInv
  <1>3. /\ in_flight' = None /\ motor_mode' \in MotorMode
        /\ reached' = (reached \/ motor_mode' = goal)
    BY <1>2, FlushEffect
  <1>4. /\ disturbed' = (disturbed \/ ~smoothly)
        /\ elapsed' \in Nat
        /\ elapsed' <= elapsed + CallTime
        /\ smoothly => elapsed' = elapsed + 1
        /\ UNCHANGED << goal, comms_mode, enabled, held >>
    BY <1>1, <1>2, CallEffect
  <1>5. ConfirmTypeOK'
    BY <1>1, <1>2, <1>3, <1>4 DEF ConfirmTypeOK
  <1>6. TimeInv'
    BY <1>2, <1>4, ConfirmAssumption DEF ConfirmInv, ConfirmTypeOK, TimeInv
  <1>7. HoldInv' /\ ConfirmedMode'
    BY <1>4 DEF ConfirmInv, HoldInv, ConfirmedMode
  <1>8. ReasonInv'
    <2>1. CASE disturbed'
      BY <2>1 DEF ReasonInv
    <2>2. CASE ~disturbed'
      <3>1. ~disturbed /\ smoothly
        BY <1>4, <2>2
      <3>2. iteration = 0 /\ elapsed = 0
        BY <3>1 DEF ConfirmInv, ReasonInv, Undisturbed
      <3> QED
        BY <1>1, <1>3, <1>4, <3>1, <3>2 DEF ReasonInv, Undisturbed
    <2> QED
      BY <2>1, <2>2
  <1> QED
    BY <1>5, <1>6, <1>7, <1>8 DEF ConfirmInv

LEMMA ReadStep ==
    ASSUME ConfirmInv, read_register_blocking
    PROVE  ConfirmInv'
  <1> USE DEF ReadReturns, success_function, next_index, ReadsPerWrite
  <1>1. ConfirmTypeOK
    BY DEF ConfirmInv
  <1>2. /\ in_flight' = None /\ motor_mode' \in MotorMode
        /\ reached' = (reached \/ motor_mode' = goal)
        /\ in_flight = None => motor_mode' = motor_mode
    BY <1>1, FlushEffect DEF read_register_blocking
  <1>3. pc = "read" /\ commanded' = commanded
    BY DEF read_register_blocking
  <1>4. PICK smoothly \in BOOLEAN :
            /\ CallEnds(smoothly)
            /\ pc' \in {"loop", "confirmed"}
            /\ iteration' \in {iteration, (iteration + 1) % 3}
            /\ refused' \in {TRUE, refused}
            /\ pc' = "confirmed" => motor_mode' = goal \/ refused'
            /\ smoothly /\ pc' = "loop" =>
                   motor_mode' # goal /\ commanded # goal
    <2>1. CASE \E smooth \in BOOLEAN :
                  /\ ReadReturns(TRUE, motor_mode', FALSE)
                  /\ CallEnds(smooth /\ (commanded = goal => motor_mode' = goal))
      <3>1. PICK smooth \in BOOLEAN :
                  /\ ReadReturns(TRUE, motor_mode', FALSE)
                  /\ CallEnds(smooth /\ (commanded = goal => motor_mode' = goal))
        BY <2>1
      <3>2. (smooth /\ (commanded = goal => motor_mode' = goal)) \in BOOLEAN
        OBVIOUS
      <3> WITNESS (smooth /\ (commanded = goal => motor_mode' = goal)) \in BOOLEAN
      <3> QED
        BY <1>1, <3>1 DEF ConfirmTypeOK
    <2>2. CASE ReadReturns(FALSE, None, FALSE) /\ CallEnds(FALSE)
      BY <1>1, <2>2 DEF ConfirmTypeOK
    <2>3. CASE \E value \in MotorMode :
                  ReadReturns(TRUE, value, TRUE) /\ CallEnds(FALSE)
      BY <1>1, <2>3 DEF ConfirmTypeOK
    <2> QED
      BY <2>1, <2>2, <2>3 DEF read_register_blocking
  <1>5. /\ disturbed' = (disturbed \/ ~smoothly)
        /\ elapsed' \in Nat /\ elapsed' <= elapsed + CallTime
        /\ UNCHANGED << goal, comms_mode, enabled, held >>
    BY <1>1, <1>4, CallEffect
  <1>6. ConfirmTypeOK'
    <2>1. iteration' \in 0..(ReadsPerWrite - 1)
      BY <1>1, <1>4 DEF ConfirmTypeOK
    <2>2. {disturbed, refused, reached, held}' \subseteq BOOLEAN
      BY <1>1, <1>2, <1>4, <1>5 DEF ConfirmTypeOK
    <2> QED
      BY <1>1, <1>2, <1>3, <1>4, <1>5, <2>1, <2>2 DEF ConfirmTypeOK
  <1>7. TimeInv'
    BY <1>1, <1>3, <1>4, <1>5, ConfirmAssumption
       DEF ConfirmInv, ConfirmTypeOK, TimeInv
  <1>8. HoldInv'
    BY <1>2, <1>3, <1>5 DEF ConfirmInv, HoldInv
  <1>9. ConfirmedMode'
    BY <1>2, <1>4, <1>5 DEF ConfirmedMode
  <1>10. ReasonInv'
    <2>1. CASE disturbed' \/ pc' = "confirmed"
      BY <2>1 DEF ReasonInv
    <2>2. CASE ~disturbed' /\ pc' = "loop"
      <3>1. ~disturbed /\ smoothly
        BY <1>5, <2>2
      <3>2. in_flight = None /\ (commanded = goal \/ motor_mode = goal)
        BY <1>3, <3>1 DEF ConfirmInv, ReasonInv, Undisturbed
      <3> QED
        BY <1>2, <1>4, <2>2, <3>1, <3>2
    <2> QED
      BY <1>4, <2>1, <2>2
  <1> QED
    BY <1>6, <1>7, <1>8, <1>9, <1>10 DEF ConfirmInv

LEMMA ReturnStep ==
    ASSUME ConfirmInv, Succeed \/ Fail
    PROVE  ConfirmInv'
  <1> USE DEF Goto, loopVars, streamVars, motorVars, historyVars
  <1>1. CASE Succeed
    <2>1. /\ pc = "confirmed" /\ pc' = "idle" /\ comms_mode' = goal
          /\ held' = (motor_mode = goal /\ commanded \in {None, goal}
                          /\ StreamMode(goal) = goal)
          /\ UNCHANGED << goal, iteration, elapsed, enabled, in_flight >>
          /\ UNCHANGED << motorVars, disturbed, refused, reached >>
      BY <1>1 DEF Succeed
    <2>2. held' \in BOOLEAN
      BY <2>1, Zenon
    <2>3. ConfirmTypeOK'
      BY <2>1, <2>2 DEF ConfirmInv, ConfirmTypeOK
    <2>4. HoldInv'
      BY <2>1 DEF ConfirmInv, HoldInv
    <2>5. TimeInv' /\ ConfirmedMode' /\ ReasonInv'
      BY <2>1 DEF TimeInv, ConfirmedMode, ReasonInv
    <2> QED
      BY <2>3, <2>4, <2>5 DEF ConfirmInv
  <1>2. CASE Fail
    <2>1. ConfirmTypeOK'
      BY <1>2 DEF Fail, ConfirmInv, ConfirmTypeOK
    <2>2. TimeInv' /\ HoldInv' /\ ConfirmedMode' /\ ReasonInv'
      BY <1>2 DEF Fail, ConfirmInv, TimeInv, HoldInv, ConfirmedMode, ReasonInv
    <2> QED
      BY <2>1, <2>2 DEF ConfirmInv
  <1> QED
    BY <1>1, <1>2

\* The program between two calls: only `run` sends anything, and what it
\* sends is the mode of the stream.
LEMMA ProgramStep ==
    ASSUME ConfirmInv, enable_stream \/ disable_stream \/ run
    PROVE  ConfirmInv'
  <1>1. /\ pc = "idle"
        /\ UNCHANGED << pc, loopVars, historyVars, comms_mode, motorVars >>
        /\ enabled' \in BOOLEAN
        /\ in_flight' \in {in_flight, StreamMode(comms_mode)}
    BY DEF enable_stream, disable_stream, run, Idle, ConfirmInv, ConfirmTypeOK,
           historyVars
  <1> USE DEF loopVars, historyVars, motorVars
  <1>2. ConfirmTypeOK'
    BY <1>1, StreamModeType DEF ConfirmInv, ConfirmTypeOK
  <1>3. TimeInv' /\ HoldInv' /\ ConfirmedMode' /\ ReasonInv'
    BY <1>1 DEF ConfirmInv, TimeInv, HoldInv, ConfirmedMode, ReasonInv
  <1> QED
    BY <1>2, <1>3 DEF ConfirmInv

LEMMA MotorStep ==
    ASSUME ConfirmInv, Motor
    PROVE  ConfirmInv'
  <1>1. /\ UNCHANGED << pc, loopVars, comms_mode, enabled, refused >>
        /\ reached' = (reached \/ motor_mode' = goal)
        /\ disturbed' \in {disturbed, TRUE} /\ held' \in {held, FALSE}
    <2>1. CASE StreamArrives
      BY <2>1 DEF StreamArrives, MotorGets
    <2>2. CASE MotorFollows
      BY <2>2 DEF MotorFollows, MotorGets, streamVars
    <2>3. CASE MotorFaults
      BY <2>3 DEF MotorFaults, MotorGets, streamVars
    <2> QED
      BY <2>1, <2>2, <2>3 DEF Motor
  <1>2. \/ /\ in_flight # None /\ in_flight' = None
           /\ motor_mode' \in {motor_mode, in_flight}
           /\ UNCHANGED << commanded, disturbed >>
        \/ /\ commanded # None /\ commanded' = None
           /\ motor_mode' = commanded
           /\ UNCHANGED << in_flight, disturbed >>
        \/ /\ motor_mode' = "sleep" /\ commanded' = None
           /\ disturbed' /\ ~held' /\ UNCHANGED in_flight
    BY DEF Motor, StreamArrives, MotorFollows, MotorFaults, MotorGets, streamVars
  <1> USE DEF loopVars
  <1>3. ConfirmTypeOK'
    BY <1>1, <1>2 DEF ConfirmInv, ConfirmTypeOK, MotorMode
  <1>4. TimeInv' /\ ConfirmedMode'
    BY <1>1 DEF ConfirmInv, TimeInv, ConfirmedMode
  <1>5. HoldInv'
    <2>1. pc = "confirmed" => in_flight' = None
      BY <1>2 DEF ConfirmInv, HoldInv
    <2>2. ASSUME held' PROVE held
      BY <1>1, <2>2, Zenon
    <2>3. ASSUME held'
          PROVE  /\ motor_mode' = comms_mode
                 /\ {commanded, in_flight}' \subseteq {None, comms_mode}
      BY <1>2, <2>2, <2>3 DEF ConfirmInv, HoldInv
    <2> QED
      BY <1>1, <2>1, <2>2, <2>3 DEF ConfirmInv, HoldInv
  <1>6. ReasonInv'
    <2>1. CASE disturbed'
      BY <2>1 DEF ReasonInv
    <2>2. CASE ~disturbed'
      BY <1>1, <1>2, <2>2 DEF ConfirmInv, ReasonInv, Undisturbed
    <2> QED
      BY <2>1, <2>2
  <1> QED
    BY <1>3, <1>4, <1>5, <1>6 DEF ConfirmInv

LEMMA StutteringStep ==
    ASSUME ConfirmInv, UNCHANGED vars
    PROVE  ConfirmInv'
  <1> USE DEF vars, loopVars, streamVars, motorVars, historyVars
  <1>1. ConfirmTypeOK'
    BY DEF ConfirmInv, ConfirmTypeOK
  <1>2. TimeInv' /\ HoldInv' /\ ConfirmedMode' /\ ReasonInv'
    BY DEF ConfirmInv, TimeInv, HoldInv, ConfirmedMode, ReasonInv, Undisturbed
  <1> QED
    BY <1>1, <1>2 DEF ConfirmInv

-----------------------------------------------------------------------------
(* The theorems.                                                           *)

\* set_mode, the stream and the motor keep the four parts of the invariant:
\* when calls begin and end, what is on its way to a motor left alone, what
\* the reads have seen, and what an undisturbed call has come to.
THEOREM ConfirmInvariant == Spec => []ConfirmInv
  <1>1. ConfirmInv /\ [Next]_vars => ConfirmInv'
    <2> SUFFICES ASSUME ConfirmInv, [Next]_vars PROVE ConfirmInv'
      OBVIOUS
    <2>1. CASE \E mode \in Modes : set_mode(mode)
      BY <2>1, SetModeStep
    <2>2. CASE Loop
      BY <2>2, IterationStep, WriteStep, ReadStep, ReturnStep DEF Loop
    <2>3. CASE Motor
      BY <2>3, MotorStep
    <2>4. CASE enable_stream \/ disable_stream \/ run
      BY <2>4, ProgramStep
    <2>5. CASE UNCHANGED vars
      BY <2>5, StutteringStep
    <2> QED
      BY <2>1, <2>2, <2>3, <2>4, <2>5 DEF Next
  <1> QED
    BY <1>1, InitInv, PTL DEF Spec

\* The types of the loop, the stream and the motor.
THEOREM ConfirmTypeCorrect == Spec => []ConfirmTypeOK
  <1>1. ConfirmInv => ConfirmTypeOK
    BY DEF ConfirmInv
  <1> QED
    BY <1>1, ConfirmInvariant, PTL

\* set_mode reports success only if the motor had the mode during the call,
\* or refused a read.
THEOREM ConfirmedModeReached == Spec => []ConfirmedMode
  <1>1. ConfirmInv => ConfirmedMode
    BY DEF ConfirmInv
  <1> QED
    BY <1>1, ConfirmInvariant, PTL

\* After a success no stream command, sent before or injected after, takes
\* an undisturbed motor out of its mode.
THEOREM StreamAlwaysHoldsMode == Spec => []StreamHoldsMode
  <1>1. ConfirmInv => StreamHoldsMode
    BY DEF ConfirmInv, HoldInv, StreamHoldsMode
  <1> QED
    BY <1>1, ConfirmInvariant, PTL

\* The loop overruns its deadline by less than one blocking call.
THEOREM DeadlineAlwaysKept == Spec => []DeadlineKept
  <1>1. ConfirmInv => DeadlineKept
    BY DEF ConfirmInv, TimeInv, DeadlineKept
  <1> QED
    BY <1>1, ConfirmInvariant, PTL

\* set_mode fails only if a call failed or the motor did not do as told.
THEOREM AlwaysFailsForAReason == Spec => []FailsForAReason
  <1>1. ConfirmInv => FailsForAReason
    BY DEF ConfirmInv, ReasonInv, Undisturbed, FailsForAReason
  <1> QED
    BY <1>1, ConfirmInvariant, PTL
=============================================================================
