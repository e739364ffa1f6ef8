---------------------------- MODULE ModbusClient ----------------------------
(***************************************************************************)
(* modbus_client.h: the client that sends the queued requests one at a     *)
(* time over a serial line, collects each answer, and watches the line     *)
(* with a single timer.  Its owner polls run_in and run_out, and may also  *)
(* drive an exchange itself with send_front_message and receive_blocking.  *)
(*                                                                         *)
(* The clock is the number of ticks since the timer was started, cut off   *)
(* where every timer has expired.  A motor's whole answer, or the part of  *)
(* it that is not lost, is put on the line as the request is sent; its     *)
(* bytes reach the serial interface at any later time, or never.           *)
(***************************************************************************)
EXTENDS MessageQueue, FiniteSets

CONSTANTS
    Requests,          \* the requests callers may submit
    MaxRequests,       \* BOUND: number of requests submitted
    MaxLine,           \* BOUND: bytes in flight on the line
    ResponseTimeout, IntercharTimeout, TurnaroundDelay, InterframeDelay,
    AnswerKinds,       \* the kinds of frame a motor's answer may arrive as
    LateAnswers,       \* bytes may outlive the pause before the next request
    BlockingCalls      \* the owner also uses the blocking exchange

ASSUME RequestsAssumption ==
    /\ Requests \subseteq Request
    /\ MaxRequests \in Nat /\ MaxLine \in Nat
ASSUME TimesAssumption ==
    /\ ResponseTimeout \in Nat /\ IntercharTimeout \in Nat
    /\ TurnaroundDelay \in Nat /\ InterframeDelay \in Nat
ASSUME ModesAssumption ==
    /\ AnswerKinds \subseteq FrameKind
    /\ LateAnswers \in BOOLEAN /\ BlockingCalls \in BOOLEAN

VARIABLES
    queue,       \* messages: the transactions, the active one in front
    timer,       \* my_enabled_timer
    elapsed,     \* now - timer_start_time
    received,    \* bytes the serial interface holds for the client
    line,        \* bytes on their way to the serial interface
    submitted,   \* history: the requests in the order they were enqueued
    sends,       \* history: how many frames each request was sent in
    settled,     \* history: the requests a success was handed over for
    quiet        \* history: ticks since a reception of any bytes was concluded

clientVars == << queue, timer, elapsed, received >>
historyVars == << submitted, sends, settled, quiet >>
vars == << queue, timer, elapsed, received, line, submitted, sends, settled,
           quiet >>

Timer == {"none", "response_timeout", "interchar_timeout",
          "turnaround_delay", "interframe_delay"}

Duration ==
    [response_timeout  |-> ResponseTimeout,
     interchar_timeout |-> IntercharTimeout,
     turnaround_delay  |-> TurnaroundDelay,
     interframe_delay  |-> InterframeDelay]

\* Every timer has expired after this many ticks.
Horizon ==
    ResponseTimeout + IntercharTimeout + TurnaroundDelay + InterframeDelay + 1

RequestId == 1 .. MaxRequests
Active == get_active_transaction(queue)
HasActive == queue # << >> /\ Active.state = "sent"

-----------------------------------------------------------------------------
(* The timer.                                                              *)

Start(t) == timer' = t /\ elapsed' = 0

has_timer_expired(t) == timer = t /\ t # "none" /\ elapsed > Duration[t]

Tick ==
    /\ elapsed' = IF timer # "none" /\ elapsed < Horizon
                  THEN elapsed + 1 ELSE elapsed
    /\ quiet' = IF quiet <= InterframeDelay THEN quiet + 1 ELSE quiet
    /\ UNCHANGED << queue, timer, received, line, submitted, sends, settled >>

-----------------------------------------------------------------------------
(* The serial line and the motor at its other end.                         *)

Frame(kind, attempt, n) ==
    [i \in 1 .. n |-> [kind |-> kind, of |-> attempt, length |-> n, pos |-> i]]

\* What may come back for transaction t: a frame or its first bytes only.  A
\* broadcast is not answered.
Answers(t) ==
    LET Whole(kind) ==
            Frame(kind, AttemptOf(t),
                  IF kind = "exception" \/ t.length < 0
                  THEN ExceptionLength ELSE t.length)
    IN  {<< >>} \cup
            UNION {{SubSeq(Whole(kind), 1, n) : n \in 1 .. Len(Whole(kind))} :
                       kind \in IF t.broadcast THEN {} ELSE AnswerKinds}

\* The next byte on the line reaches the serial interface.
Arrive ==
    /\ line # << >>
    /\ received' = Append(received, Head(line))
    /\ line' = Tail(line)
    /\ UNCHANGED << queue, timer, elapsed, historyVars >>

\* Mutant: what was read before stays.
tx_enable_KeepsInput(t) ==
    /\ received' = received
    /\ \E answer \in Answers(t) :
           /\ Len(answer) <= MaxLine
           /\ line' = answer

\* tx_enable drops what was read before and puts the request on the line.
tx_enable(t) ==
    /\ received' = << >>
    /\ LET left == IF LateAnswers THEN line ELSE << >> IN
       \E answer \in Answers(t) :
           /\ Len(left \o answer) <= MaxLine
           /\ line' = left \o answer

-----------------------------------------------------------------------------
(* Requests in and results out.                                            *)

enqueue_transaction(r) ==
    /\ Len(submitted) < MaxRequests
    /\ submitted' = Append(submitted, r)
    /\ queue' = enqueue(queue, load_transmission_data(Len(submitted) + 1, r))
    /\ UNCHANGED << timer, elapsed, received, line, sends, settled, quiet >>

dequeue_transaction ==
    /\ queue # << >>
    /\ queue' = Tail(queue)
    /\ settled' = IF Succeeded(Active) THEN settled \cup {Active.id} ELSE settled
    /\ UNCHANGED << timer, elapsed, received, line, submitted, sends, quiet >>

\* Mutant: the messages are dropped but the timer keeps running.
reset_state_KeepsTimer ==
    /\ queue' = << >>
    /\ UNCHANGED << timer, elapsed, received, line, historyVars >>

\* Opening the port again drops every message.
reset_state ==
    /\ queue' = << >>
    /\ Start("interframe_delay")
    /\ UNCHANGED << received, line, historyVars >>

-----------------------------------------------------------------------------
(* Concluding and sending.                                                 *)

\* t is the active transaction as its reception ended.
conclude_transaction(t) ==
    /\ Start("interframe_delay")
    /\ queue' = IF needs_retry(t)
                THEN insert_next(WithActive(queue, t), generate_retry(t))
                ELSE WithActive(queue, t)
    /\ quiet' = IF t.rx = << >> THEN quiet ELSE 0
    /\ UNCHANGED << submitted, sends, settled >>

\* The loop that pops the request's bytes starts a timer after the last one.
send_front_message ==
    /\ available_to_send(queue)
    /\ IF Active.unsent
       THEN Start(IF Active.broadcast THEN "turnaround_delay"
                                      ELSE "response_timeout")
       ELSE UNCHANGED << timer, elapsed >>
    /\ queue' = WithActive(queue,
                           [Active EXCEPT !.unsent = FALSE, !.state = "sent"])
    /\ tx_enable(Active)
    /\ sends' = [sends EXCEPT ![Active.id] = @ + 1]
    /\ UNCHANGED << submitted, settled, quiet >>

-----------------------------------------------------------------------------
(* run_in: receive, then look at the timer.                                *)

\* Mutant: receive looks at the size of the queue only.
CanReceive_AnyFront == queue # << >> /\ received # << >>

\* receive has something to do
CanReceive == HasActive /\ received # << >>

AfterBytes(n) == load_reception(Active, SubSeq(received, 1, n))

\* Mutant: receive does not stop at that byte.
CompletesAt_AllBytes(n) ==
    n = Len(received) /\ received_expected_number_of_bytes(AfterBytes(n))

\* receive stops at the byte that makes the reception complete
CompletesAt(n) ==
    /\ received_expected_number_of_bytes(AfterBytes(n))
    /\ \A m \in 1 .. n - 1 : ~received_expected_number_of_bytes(AfterBytes(m))

receive_all ==
    \E n \in 1 .. Len(received) :
        /\ HasActive
        /\ CompletesAt(n)
        /\ conclude_transaction(validate_response(AfterBytes(n)))
        /\ received' = SubSeq(received, n + 1, Len(received))
        /\ UNCHANGED line

\* Mutant: the first byte clears the response timer and starts none.
receive_part_NoTimer ==
    /\ CanReceive
    /\ \A n \in 1 .. Len(received) :
           ~received_expected_number_of_bytes(AfterBytes(n))
    /\ queue' = WithActive(queue, AfterBytes(Len(received)))
    /\ timer' = "none" /\ elapsed' = 0
    /\ received' = << >>
    /\ UNCHANGED << line, historyVars >>

receive_part ==
    /\ CanReceive
    /\ \A n \in 1 .. Len(received) :
           ~received_expected_number_of_bytes(AfterBytes(n))
    /\ queue' = WithActive(queue, AfterBytes(Len(received)))
    /\ Start("interchar_timeout")
    /\ received' = << >>
    /\ UNCHANGED << line, historyVars >>

response_timeout ==
    /\ ~CanReceive
    /\ has_timer_expired("response_timeout")
    /\ conclude_transaction(invalidate(Active, {"RESPONSE_TIMEOUT_ERROR"}))
    /\ UNCHANGED << received, line >>

interchar_timeout ==
    /\ ~CanReceive
    /\ has_timer_expired("interchar_timeout")
    /\ conclude_transaction(IF is_expected_length_known(Active)
                            THEN invalidate(Active, {"INTERCHAR_TIMEOUT_ERROR"})
                            ELSE validate_response(Active))
    /\ UNCHANGED << received, line >>

turnaround_delay ==
    /\ ~CanReceive
    /\ has_timer_expired("turnaround_delay")
    /\ Start("interframe_delay")
    /\ UNCHANGED << queue, received, line, historyVars >>

run_in == \/ receive_all \/ receive_part
          \/ response_timeout \/ interchar_timeout \/ turnaround_delay

-----------------------------------------------------------------------------
(* run_out                                                                 *)

\* Mutant: the interframe delay is not waited for.
MayTransmit_AtOnce == timer \in {"none", "interframe_delay"}

MayTransmit == timer = "none" \/ has_timer_expired("interframe_delay")

\* Of the bytes flush_remaining_bytes_from_serial_interface discards, those
\* left when a request is sent are discarded by tx_enable as well.
run_out_send == MayTransmit /\ send_front_message

run_out_idle ==
    /\ MayTransmit
    /\ ~available_to_send(queue)
    /\ timer' = "none" /\ elapsed' = 0
    /\ received' = IF has_timer_expired("interframe_delay")
                   THEN << >> ELSE received
    /\ UNCHANGED << queue, line, historyVars >>

run_out == run_out_send \/ run_out_idle

-----------------------------------------------------------------------------
(* The blocking exchange: send_front_message whatever the timer says, then *)
(* receive_blocking, which takes what there is when its wait ends.         *)

receive_blocking ==
    /\ conclude_transaction(
           validate_response(load_reception(Active, received)))
    /\ received' = << >>
    /\ UNCHANGED line

-----------------------------------------------------------------------------
Init ==
    /\ queue = << >> /\ timer = "interframe_delay" /\ elapsed = 0
    /\ received = << >> /\ line = << >>
    /\ submitted = << >> /\ sends = [r \in RequestId |-> 0] /\ settled = {}
    /\ quiet = InterframeDelay + 1

\* What the owner keeps to (Actuator.tla shows that it does): it takes the
\* front transaction only when is_response_ready, and waits in
\* receive_blocking only for a request that is out.
claim_response == is_response_ready(queue) /\ dequeue_transaction
send_blocking == BlockingCalls /\ send_front_message
await_response == BlockingCalls /\ HasActive /\ receive_blocking

Next ==
    \/ Tick \/ Arrive
    \/ \E r \in Requests : enqueue_transaction(r)
    \/ claim_response \/ reset_state
    \/ run_in \/ run_out
    \/ send_blocking \/ await_response

Spec == Init /\ [][Next]_vars

\* Time passes, and the owner polls and takes every finished transaction.
Polling == WF_vars(Tick) /\ WF_vars(run_in) /\ WF_vars(run_out)
               /\ WF_vars(claim_response)

FairSpec == Spec /\ Polling
-----------------------------------------------------------------------------
(* Properties                                                              *)

TypeOK ==
    /\ queue \in Seq(Transaction)
    /\ timer \in Timer
    /\ elapsed \in 0 .. Horizon
    /\ received \in Seq(Byte)
    /\ line \in Seq(Byte)
    /\ submitted \in Seq(Requests) /\ Len(submitted) <= MaxRequests
    /\ sends \in [RequestId -> Nat]
    /\ settled \subseteq RequestId
    /\ quiet \in 0 .. InterframeDelay + 1

\* While the response or the intercharacter timer runs there is a front
\* transaction and it has been sent: run_in follows get_active_transaction to
\* it on expiry without looking (message_queue.h: "No checking is done").
TimerHasActive ==
    timer \in {"response_timeout", "interchar_timeout"} => HasActive

\* A request that is out on the line is watched by a timer, so the client
\* never waits for an answer without an end.
ActiveIsTimed ==
    HasActive /\ ~Active.broadcast =>
        timer \in {"response_timeout", "interchar_timeout"}

\* A transaction behind the front is untouched: queued, not sent in part, with
\* no byte of an answer and no error, whatever happens at the front.
OnlyFrontProgresses ==
    \A i \in 2 .. Len(queue) :
        /\ queue[i].state = "queued" /\ queue[i].unsent
        /\ queue[i].rx = << >> /\ queue[i].failure = {}

\* A failed important transaction with retries left is followed at once by
\* its own next attempt, ahead of every other request.
RetryFollowsFailure ==
    is_response_ready(queue) /\ needs_retry(Active) =>
        /\ Len(queue) >= 2
        /\ AttemptOf(queue[2]) = [AttemptOf(Active) EXCEPT !.retries = @ + 1]
        /\ queue[2].length = Active.length /\ queue[2].important

\* A request is sent once, and an important one at most five times more.
SendBudget ==
    \A r \in 1 .. Len(submitted) :
        sends[r] <= IF submitted[r].important THEN MaxRetries + 1 ELSE 1

\* Requests are served in the order they were enqueued: while any attempt of
\* a request is in the queue, no later request has been sent.
ServedInOrder ==
    \A i \in 1 .. Len(queue) : \A r \in RequestId :
        r > queue[i].id => sends[r] = 0

\* Once a success was handed to the owner the request is over: no attempt
\* of it is left in the queue to be sent again.
SuccessEndsRequest == \A i \in 1 .. Len(queue) : queue[i].id \notin settled

\* No reception grows past the length expected for it, so load_reception
\* stays inside rx_buffer whenever that length fits (the TODO in receive).
ReceptionWithinLength ==
    \A i \in 1 .. Len(queue) :
        Len(queue[i].rx) <= IF queue[i].length > 1 THEN queue[i].length ELSE 1

\* The intercharacter timer never runs for a request of unknown length: the
\* branch run_in keeps for it is dead, as the TODO beside it suspects.
IntercharMeansKnownLength ==
    timer = "interchar_timeout" => is_expected_length_known(Active)

\* If no byte outlives the pause between two requests, an answer taken for
\* valid is the answer to that very attempt and not to an earlier one.
ValidAnswerIsOwn ==
    is_response_ready(queue) /\ is_reception_valid(Active) =>
        Active.rx[1].of = AttemptOf(Active)

\* A request is sent only after the line was left alone for the interframe
\* delay since the last reception that was not silence was concluded
\* (adjust_interframe_delay_us: "the minimum time that will be observed after
\* receiving a message before a new message is transmitted").
InterframeObserved == [][sends' # sends => quiet > InterframeDelay]_vars

\* A finished transaction stays as it is at the front until the owner takes
\* it or the port is opened again: no byte and no timer touches the result.
ResultKept ==
    [][is_response_ready(queue) =>
           \/ queue' = << >> \/ queue' = Tail(queue)
           \/ Head(queue') = Head(queue)]_vars

InQueue(r) == \E i \in 1 .. Len(queue) : queue[i].id = r

\* Every request of a polled client leaves the queue, through its answer, an
\* error or the end of its retries, whatever the line loses or garbles.
EveryRequestEnds == \A r \in RequestId : InQueue(r) ~> ~InQueue(r)

-----------------------------------------------------------------------------
(* The client as an implementation of RequestService.                      *)

\* A failed transaction and the retry queued behind it are one request.
PendingRequests ==
    LET q == IF Len(queue) >= 2 /\ queue[2].id = queue[1].id
             THEN Tail(queue) ELSE queue
    IN  [i \in 1 .. Len(q) |-> [id |-> q[i].id, important |-> q[i].important]]

FrontPhase ==
    IF queue = << >> \/ available_to_send(queue) THEN "waiting"
    ELSE IF Active.state = "sent" THEN "trying"
    ELSE IF Succeeded(Active) THEN "done" ELSE "failed"

FrontTries ==
    IF queue = << >> THEN 0
    ELSE IF available_to_send(queue) THEN Active.retries ELSE Active.retries + 1

Service == INSTANCE RequestService WITH
    accepted <- Len(submitted), pending <- PendingRequests,
    phase <- FrontPhase, tries <- FrontTries

\* Timers, bytes, retries and both ways of driving an exchange come down to
\* serving the requests in order, one at a time, each tried again only after
\* a failure and only while retries are left.
ImplementsService == Service!Spec
=============================================================================
