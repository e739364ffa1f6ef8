------------------------- MODULE CommandAndConfirm --------------------------
(***************************************************************************)
(* command_and_confirm.cpp under Actuator::set_mode: a loop of one write   *)
(* and two reads until the motor has the mode asked for or the time is up, *)
(* and the stream of orca_stream.cpp, whose commands carry a mode as well. *)
(* A blocking call is one step here: what it comes to, and how long it     *)
(* takes, is what Actuator says of it.                                     *)
(***************************************************************************)
EXTENDS Integers

CONSTANTS Modes, WaitTime, CallTime
\* Modes: the modes asked for; WaitTime: the deadline of the loop;
\* CallTime: the longest a blocking call takes, retries included

MotorMode ==
    {"sleep", "force", "position", "haptic", "kinematic", "auto_zero"}

ASSUME ConfirmAssumption ==
    /\ Modes \subseteq MotorMode
    /\ WaitTime \in Nat /\ WaitTime > 1 /\ CallTime \in Nat /\ CallTime > 0

VARIABLES
    pc,             \* what the calling thread does next
    goal,           \* the mode set_mode was called with last
    iteration,      \* iteration_num % reads_per_write
    elapsed,        \* time since start_time
    comms_mode,     \* the mode of the stream
    enabled,        \* the stream is on
    in_flight,      \* the stream command run() sent last, until it arrives
    motor_mode,     \* register MODE_OF_OPERATION
    commanded,      \* the last write to CTRL_REG_3 that motor_mode is to follow
    disturbed,      \* history: a call failed or the motor did not do as told
    refused,        \* history: the motor refused a read
    reached,        \* history: the motor had the goal since set_mode began
    held            \* history: set_mode succeeded and left the motor alone

loopVars == << goal, iteration, elapsed >>
streamVars == << comms_mode, enabled, in_flight >>
motorVars == << motor_mode, commanded >>
historyVars == << disturbed, refused, reached, held >>
vars == << pc, loopVars, streamVars, motorVars, historyVars >>

None == "none"
ReadsPerWrite == 3

Goto(from, to) == pc = from /\ pc' = to

\* A command code no mode has puts the motor to sleep.
StreamMode(mode) ==
    IF mode \in {"force", "position", "haptic", "kinematic"} THEN mode ELSE "sleep"

MotorGets(mode) ==
    motor_mode' = mode /\ reached' = (reached \/ mode = goal)

\* flush first waits for the stream command that is out; it may be lost.
StreamIsFlushed ==
    /\ in_flight' = None
    /\ MotorGets(motor_mode) \/ (in_flight # None /\ MotorGets(in_flight))

-----------------------------------------------------------------------------
(* set_mode and the loop.                                                  *)

set_mode(mode) ==
    /\ Goto("idle", "loop")
    /\ goal' = mode /\ iteration' = 0 /\ elapsed' = 0
    /\ disturbed' = FALSE /\ refused' = FALSE /\ held' = FALSE
    /\ reached' = (motor_mode = mode)
    /\ UNCHANGED << streamVars, motorVars >>

\* Mutant: the time is looked at before a write only.
TimeIsUp_BeforeWrite == elapsed >= WaitTime /\ iteration = 0

TimeIsUp == elapsed >= WaitTime

\* iteration_num is kept modulo reads_per_write
next_index == (iteration + 1) % ReadsPerWrite

\* Mutant: the reads come first.
write_due_Last == iteration = ReadsPerWrite - 1

write_due == iteration = 0

next_iteration ==
    /\ pc = "loop"
    /\ pc' = IF TimeIsUp THEN "failed" ELSE IF write_due THEN "write" ELSE "read"
    /\ UNCHANGED << loopVars, streamVars, motorVars, historyVars >>

\* A call whose first try is answered takes one tick; any other is slower.
CallEnds(smoothly) ==
    /\ disturbed' = (disturbed \/ ~smoothly)
    /\ \E ticks \in 1..(IF smoothly THEN 1 ELSE CallTime) :
           elapsed' = elapsed + ticks
    /\ UNCHANGED << goal, comms_mode, enabled, held >>

\* Mutant: every write is given the whole time.
write_register_blocking_Restarts ==
    /\ Goto("write", "loop")
    /\ iteration' = next_index
    /\ StreamIsFlushed
    /\ \E arrives \in BOOLEAN :
        /\ commanded' = IF arrives THEN goal ELSE commanded
        /\ disturbed' = TRUE
    /\ elapsed' = 0
    /\ UNCHANGED << goal, comms_mode, enabled, held, refused >>

\* The result of the write is not looked at.
write_register_blocking ==
    /\ Goto("write", "loop")
    /\ iteration' = next_index
    /\ StreamIsFlushed
    /\ \E arrives, smoothly \in BOOLEAN :
        /\ smoothly => arrives
        /\ commanded' = IF arrives THEN goal ELSE commanded
        /\ CallEnds(smoothly)
    /\ UNCHANGED refused

\* Mutant: a read without an error is success enough.
success_function_Any(value) == TRUE

success_function(value) == value = goal

\* The read is answered, fails, or is refused: then no error is reported and
\* the value is taken out of an empty vector, so it may be any.
ReadReturns(ok, value, refusal) ==
    /\ \/ ok /\ success_function(value) /\ pc' = "confirmed" /\ UNCHANGED iteration
       \/ ~(ok /\ success_function(value)) /\ pc' = "loop" /\ iteration' = next_index
    /\ refused' = (refused \/ refusal)

read_register_blocking ==
    /\ pc = "read"
    /\ StreamIsFlushed
    /\ \/ \E smoothly \in BOOLEAN :
              /\ ReadReturns(TRUE, motor_mode', FALSE)
              /\ CallEnds(smoothly /\ (commanded = goal => motor_mode' = goal))
       \/ ReadReturns(FALSE, None, FALSE) /\ CallEnds(FALSE)
       \/ \E value \in MotorMode : ReadReturns(TRUE, value, TRUE) /\ CallEnds(FALSE)
    /\ UNCHANGED commanded

Fail ==
    /\ Goto("failed", "idle")
    /\ UNCHANGED << loopVars, streamVars, motorVars, historyVars >>

\* Mutant: the stream goes on with the mode it has.
Succeed_KeepsStream ==
    /\ Goto("confirmed", "idle")
    /\ held' = (motor_mode = goal /\ commanded \in {None, goal}
                    /\ StreamMode(goal) = goal)
    /\ UNCHANGED << loopVars, streamVars, motorVars, disturbed, refused, reached >>

\* update_motor_mode.  The motor is left alone in its new mode if no other
\* write is still to take effect and the stream knows the mode.
Succeed ==
    /\ Goto("confirmed", "idle")
    /\ comms_mode' = goal
    /\ held' = (motor_mode = goal /\ commanded \in {None, goal}
                    /\ StreamMode(goal) = goal)
    /\ UNCHANGED << loopVars, enabled, in_flight, motorVars, disturbed, refused,
                    reached >>

-----------------------------------------------------------------------------
(* The rest of the program, between two calls of set_mode.                 *)

Idle == pc = "idle" /\ UNCHANGED << pc, loopVars, historyVars >>

enable_stream ==
    Idle /\ enabled' = TRUE /\ UNCHANGED << comms_mode, in_flight, motorVars >>

disable_stream ==
    Idle /\ enabled' = FALSE /\ UNCHANGED << comms_mode, in_flight, motorVars >>

\* run(): a stream command, if nothing else is out.
run ==
    /\ Idle /\ enabled /\ in_flight = None
    /\ in_flight' = StreamMode(comms_mode)
    /\ UNCHANGED << comms_mode, enabled, motorVars >>

\* The motor, at any time.  A stream command sets the mode it names.
StreamArrives ==
    /\ in_flight # None /\ in_flight' = None
    /\ MotorGets(in_flight) \/ MotorGets(motor_mode)
    /\ UNCHANGED << pc, loopVars, comms_mode, enabled, commanded, disturbed,
                    refused, held >>

MotorFollows ==
    /\ commanded # None /\ commanded' = None
    /\ MotorGets(commanded)
    /\ UNCHANGED << pc, loopVars, streamVars, disturbed, refused, held >>

\* An error of the motor, or another master, puts it to sleep.
MotorFaults ==
    /\ motor_mode # "sleep" /\ MotorGets("sleep")
    /\ commanded' = None
    /\ disturbed' = TRUE /\ held' = FALSE
    /\ UNCHANGED << pc, loopVars, streamVars, refused >>

-----------------------------------------------------------------------------
Init ==
    /\ pc = "idle" /\ goal = "sleep" /\ iteration = 0 /\ elapsed = 0
    /\ comms_mode = "sleep" /\ enabled = FALSE /\ in_flight = None
    /\ motor_mode = "sleep" /\ commanded = None
    /\ disturbed = FALSE /\ refused = FALSE /\ reached = TRUE /\ held = FALSE

Loop ==
    \/ next_iteration \/ write_register_blocking \/ read_register_blocking
    \/ Succeed \/ Fail

Motor == StreamArrives \/ MotorFollows \/ MotorFaults

Next ==
    \/ Loop \/ Motor
    \/ enable_stream \/ disable_stream \/ run
    \/ \E mode \in Modes : set_mode(mode)

Spec == Init /\ [][Next]_vars

\* The calling thread goes on inside set_mode.
FairSpec == Spec /\ WF_vars(Loop)

-----------------------------------------------------------------------------
(* Properties                                                              *)

ConfirmTypeOK ==
    /\ pc \in {"idle", "loop", "write", "read", "confirmed", "failed"}
    /\ {goal, comms_mode, motor_mode} \subseteq MotorMode
    /\ {in_flight, commanded} \subseteq MotorMode \cup {None}
    /\ iteration \in 0..(ReadsPerWrite - 1) /\ elapsed \in Nat
    /\ {enabled, disturbed, refused, reached, held} \subseteq BOOLEAN

\* set_mode succeeds only if the motor was in that mode during the call,
\* however writes, answers and stream commands are lost; a refused read is
\* the exception, as its value comes out of an empty vector.
ConfirmedMode == pc = "confirmed" => reached \/ refused

\* After a success the stream keeps the motor in the confirmed mode: neither
\* a command sent before set_mode nor one injected after it takes it away.
StreamHoldsMode == held => motor_mode = comms_mode

\* set_mode overruns its deadline by one blocking call at the most.
DeadlineKept ==
    pc \in {"confirmed", "failed"} => elapsed < WaitTime + CallTime

\* set_mode fails only for a reason: a call that failed, a motor that is
\* slow, refuses or faults.
FailsForAReason == pc = "failed" => disturbed

\* set_mode returns.
SetModeReturns == pc = "loop" ~> pc = "idle"
=============================================================================
