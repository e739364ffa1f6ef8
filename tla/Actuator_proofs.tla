-------------------------- MODULE Actuator_proofs --------------------------
(***************************************************************************)
(* Proofs about Actuator, for every set of blocking calls, every timeout   *)
(* and retry limit and any number of requests: run and the blocking calls  *)
(* use the client as it has to be used, the queue stays short, and a call  *)
(* returns what became of its own request.                                 *)
(***************************************************************************)
EXTENDS Actuator, ModbusClient_proofs

-----------------------------------------------------------------------------
(* The inductive invariant, beside that of the client.                     *)

Running == pc \in {"idle", "run_in", "claim", "stream", "run_out"}
Flushing == pc \in {"flush", "receive", "handle"}

\* A transaction that has finished is taken before anything else is done.
ContractInv ==
    /\ is_response_ready(queue) => pc \in {"claim", "handle"}
    /\ pc = "receive" => HasActive
    /\ pc = "handle" => is_response_ready(queue)

\* run leaves at most a stream command in the queue, which is never retried;
\* behind it comes a call's request, or behind the request its retry.
ShortInv ==
    /\ Len(queue) <= 2
    /\ Len(queue) = 2 => Flushing /\ (is_response_ready(queue) \/ ~queue[1].important)
    /\ Running => \A i \in 1 .. Len(queue) : ~queue[i].important
    /\ pc = "return" => queue = << >>

\* What flush handled last, once it has handled all.
OutcomeIsFinal ==
    /\ handled.id = call.id
    /\ message_error # {} /\ call.important => handled.retries = MaxRetries

\* The last in the queue flush works on is the call's request or its retry.
CallInv ==
    Flushing \/ pc = "return" =>
        /\ \A i \in 1 .. Len(queue) :
               queue[i].id = call.id /\ call.important => queue[i].important
        /\ queue # << >> => queue[Len(queue)].id = call.id
        /\ queue = << >> => OutcomeIsFinal

DataInv ==
    (Flushing \/ pc = "return") /\ queue = << >> =>
        (message_error = {} /\ message_data # NoData => message_data.of.id = call.id)

ActuatorInv == FrontInv /\ RequestInv /\ ContractInv /\ ShortInv /\ CallInv

-----------------------------------------------------------------------------
(* The steps, and what they do to the queue.                               *)

LEMMA ReadyByPlace ==
    ASSUME FrontInv
    PROVE  /\ queue \in Seq(Transaction) /\ Len(queue) \in Nat
           /\ queue # << >> <=> Len(queue) >= 1
           /\ queue # << >> => Active = queue[1] /\ queue[1] \in Transaction
           /\ is_response_ready(queue) <=>
                  queue # << >> /\ queue[1].state = "ready_to_process"
           /\ HasActive <=> queue # << >> /\ queue[1].state = "sent"
           /\ available_to_send(queue) <=>
                  queue # << >> /\ queue[1].state = "queued"
           /\ queue # << >> =>
                  queue[1].state \in {"queued", "sent", "ready_to_process"}
  <1>1. queue \in Seq(Transaction) /\ Len(queue) \in Nat
    BY DEF FrontInv, TypeOK
  <1>2. queue # << >> <=> Len(queue) >= 1
    BY <1>1, EmptySeq
  <1>3. queue # << >> =>
            Active = queue[1] /\ Head(queue) = queue[1] /\ queue[1] \in Transaction
    BY <1>1, <1>2, HeadTailProperties, ActiveIsFirst DEF FrontInv
  <1>4. queue # << >> => queue[1].state \in {"queued", "sent", "ready_to_process"}
    BY <1>1, <1>2, <1>3 DEF FrontInv, StatesInv, Transaction, TransmitState
  <1> QED
    BY <1>1, <1>2, <1>3, <1>4 DEF is_response_ready, HasActive, available_to_send

LEMMA ReadyByPlacePrime ==
    ASSUME queue' \in Seq(Transaction)
    PROVE  /\ is_response_ready(queue') <=>
                  queue' # << >> /\ queue'[1].state = "ready_to_process"
           /\ HasActive' <=> queue' # << >> /\ queue'[1].state = "sent"
           /\ queue' # << >> <=> Len(queue') >= 1
           /\ Len(queue') \in Nat
  <1>1. queue' # << >> => Head(queue') = queue'[1]
    BY HeadTailProperties
  <1> QED
    BY <1>1, ActiveIsFirstPrime DEF is_response_ready

\* Every request of the Actuator is one of those the client is used with.
LEMMA RequestsOfCalls ==
    /\ StreamRequest \in Requests /\ ~StreamRequest.important
    /\ \A c \in Calls : /\ RequestFor(c.function, c.important) \in Requests
                        /\ RequestFor(c.function, c.important).important = c.important
    /\ BlockingCalls
  BY ActuatorAssumption DEF StreamRequest, RequestFor

\* What is taken from the front leaves a queued transaction there, or nothing.
LEMMA Dequeued ==
    ASSUME FrontInv, dequeue_transaction
    PROVE  /\ queue # << >> /\ queue' \in Seq(Transaction)
           /\ Len(queue') = Len(queue) - 1
           /\ \A i \in 1 .. Len(queue') : queue'[i] = queue[i + 1]
           /\ ~is_response_ready(queue')
  <1>1. TypeOK /\ queue # << >>
    BY DEF FrontInv, dequeue_transaction
  <1>2. /\ queue' \in Seq(Transaction) /\ Len(queue') = Len(queue) - 1
        /\ \A i \in 1 .. Len(queue') : queue'[i] = queue[i + 1]
    BY <1>1, DequeueEffect
  <1>3. queue' # << >> => queue'[1].state = "queued"
    <2> SUFFICES ASSUME queue' # << >> PROVE queue'[1].state = "queued"
      OBVIOUS
    <2>1. Len(queue) \in Nat /\ 2 \in 1 .. Len(queue) /\ queue'[1] = queue[2]
      BY <1>2, ReadyByPlace, ReadyByPlacePrime
    <2> QED
      BY <2>1 DEF FrontInv, StatesInv
  <1> QED
    BY <1>1, <1>2, <1>3, ReadyByPlacePrime

\* A new request is put behind the others.
LEMMA Enqueued ==
    ASSUME FrontInv, NEW r \in Requests, enqueue_transaction(r)
    PROVE  /\ queue' \in Seq(Transaction) /\ Len(queue') = Len(queue) + 1
           /\ \A i \in 1 .. Len(queue) : queue'[i] = queue[i]
           /\ queue'[Len(queue) + 1].id = Len(submitted) + 1
           /\ queue'[Len(queue) + 1].important = r.important
           /\ is_response_ready(queue') <=> is_response_ready(queue)
           /\ Len(submitted') = Len(submitted) + 1
  <1>1. /\ queue' \in Seq(Transaction) /\ Len(queue') = Len(queue) + 1
        /\ \A i \in 1 .. Len(queue) : queue'[i] = queue[i]
        /\ queue'[Len(queue) + 1] =
               [load_transmission_data(Len(submitted) + 1, r)
                   EXCEPT !.state = "queued"]
    BY EnqueueEffect DEF FrontInv
  <1>2. /\ queue'[Len(queue) + 1].id = Len(submitted) + 1
        /\ queue'[Len(queue) + 1].important = r.important
        /\ queue'[Len(queue) + 1].state = "queued"
    BY <1>1 DEF load_transmission_data
  <1>3. is_response_ready(queue') <=> is_response_ready(queue)
    <2>1. CASE queue = << >>
      <3>1. queue'[1].state = "queued"
        <4>1. Len(queue) = 0
          BY <2>1
        <4> QED
          BY <1>2, <4>1
      <3> QED
        BY <1>1, <2>1, <3>1, ReadyByPlace, ReadyByPlacePrime
    <2>2. CASE queue # << >>
      <3>1. queue'[1] = queue[1]
        BY <1>1, <2>2, ReadyByPlace
      <3> QED
        BY <1>1, <2>2, <3>1, ReadyByPlace, ReadyByPlacePrime
    <2> QED
      BY <2>1, <2>2
  <1>4. Len(submitted') = Len(submitted) + 1
    BY RequestsAssumption DEF enqueue_transaction, FrontInv, TypeOK
  <1> QED
    BY <1>1, <1>2, <1>3, <1>4

\* The front goes out; the queue is the same but for that.
LEMMA FrontSent ==
    ASSUME FrontInv, send_front_message
    PROVE  /\ queue' \in Seq(Transaction) /\ Len(queue') = Len(queue)
           /\ HasActive' /\ ~is_response_ready(queue')
           /\ \A i \in 1 .. Len(queue) :
                  queue'[i].id = queue[i].id /\ queue'[i].important = queue[i].important
  <1>1. /\ queue # << >> /\ queue[1] \in Transaction
        /\ queue' \in Seq(Transaction) /\ Len(queue') = Len(queue)
        /\ queue'[1] = [queue[1] EXCEPT !.unsent = FALSE, !.state = "sent"]
        /\ \A i \in 2 .. Len(queue) : queue'[i] = queue[i]
    BY SendEffect
  <1>2. /\ queue'[1].id = queue[1].id /\ queue'[1].important = queue[1].important
        /\ queue'[1].state = "sent"
    BY <1>1 DEF Transaction
  <1>3. HasActive' /\ ~is_response_ready(queue')
    BY <1>1, <1>2, ReadyByPlace, ReadyByPlacePrime
  <1>4. \A i \in 1 .. Len(queue) : i = 1 \/ i \in 2 .. Len(queue)
    BY ReadyByPlace
  <1> QED
    BY <1>1, <1>2, <1>3, <1>4

\* A reception ends: the front is finished, and what is retried is important.
LEMMA FrontConcluded ==
    ASSUME FrontInv, Concluding
    PROVE  /\ queue # << >> /\ queue' \in Seq(Transaction) /\ is_response_ready(queue')
           /\ queue'[1].id = queue[1].id /\ queue'[1].important = queue[1].important
           /\ \/ /\ Len(queue') = Len(queue)
                 /\ \A i \in 2 .. Len(queue') : queue'[i] = queue[i]
              \/ /\ Len(queue') = Len(queue) + 1
                 /\ queue[1].important
                 /\ queue'[2].id = queue[1].id /\ queue'[2].important
                 /\ \A i \in 3 .. Len(queue') : queue'[i] = queue[i - 1]
  <1>1. queue # << >> /\ TypeOK
    BY ConcludingStep DEF FrontInv
  <1>2. Active = queue[1]
    BY <1>1, ReadyByPlace
  <1>3. PICK t : Concluded(Active, t) /\ conclude_transaction(t)
    BY ConcludingStep
  <1>4. /\ t \in Transaction /\ t.state = "ready_to_process"
        /\ t.id = queue[1].id /\ t.important = queue[1].important
    BY <1>2, <1>3 DEF Concluded
  <1>5. /\ queue' \in Seq(Transaction) /\ queue'[1] = t
        /\ needs_retry(t) =>
               /\ Len(queue') = Len(queue) + 1
               /\ queue'[2] = [generate_retry(t) EXCEPT !.state = "queued"]
               /\ \A i \in 3 .. Len(queue') : queue'[i] = queue[i - 1]
        /\ ~needs_retry(t) =>
               /\ Len(queue') = Len(queue)
               /\ \A i \in 2 .. Len(queue') : queue'[i] = queue[i]
    BY <1>1, <1>3, <1>4, ConcludeEffect
  <1>6. is_response_ready(queue')
    <2>1. Len(queue') >= 1
      BY <1>1, <1>5, ReadyByPlace
    <2> QED
      BY <1>4, <1>5, <2>1, ReadyByPlacePrime
  <1>7. needs_retry(t) =>
            /\ queue[1].important
            /\ queue'[2].id = queue[1].id /\ queue'[2].important
    BY <1>4, <1>5 DEF needs_retry, generate_retry, Transaction
  <1> QED
    BY <1>1, <1>4, <1>5, <1>6, <1>7

\* run_in, by what it does to the queue.
LEMMA RunInEffect ==
    ASSUME FrontInv, run_in
    PROVE  \/ Concluding
           \/ /\ queue' \in Seq(Transaction) /\ Len(queue') = Len(queue)
              /\ \A i \in 1 .. Len(queue) : queue'[i].important = queue[i].important
  <1>1. CASE receive_part
    <2>1. /\ queue # << >> /\ queue' \in Seq(Transaction) /\ Len(queue') = Len(queue)
          /\ queue'[1] = load_reception(queue[1], received)
          /\ \A i \in 2 .. Len(queue) : queue'[i] = queue[i]
      BY <1>1, PartEffect
    <2>2. queue'[1].important = queue[1].important
      BY <2>1, ReadyByPlace DEF load_reception, Transaction
    <2>3. \A i \in 1 .. Len(queue) : i = 1 \/ i \in 2 .. Len(queue)
      BY ReadyByPlace
    <2> QED
      BY <2>1, <2>2, <2>3
  <1>2. CASE turnaround_delay
    BY <1>2, ReadyByPlace DEF turnaround_delay
  <1> QED
    BY <1>1, <1>2 DEF run_in, Concluding

-----------------------------------------------------------------------------
(* Each step of the Actuator is a step of the client.                      *)

\* The Actuator's steps by what they do with the client.
LEMMA ActuatorCases ==
    ASSUME ActuatorNext
    PROVE  \/ run \/ RunIn \/ Claim \/ handle_stream \/ RunOut
           \/ \E c \in Calls : blocking_call(c)
           \/ FlushSend \/ FlushReceive \/ FlushHandle \/ FlushEnd \/ Return
           \/ enable_stream \/ disable_stream \/ open_serial_port \/ Environment
  BY DEF ActuatorNext, Thread

LEMMA ClientStep ==
    ASSUME ContractInv, [ActuatorNext]_actuatorVars
    PROVE  [Next]_vars
  <1>1. CASE \/ run \/ FlushEnd \/ Return \/ enable_stream \/ disable_stream
             \/ UNCHANGED actuatorVars
    BY <1>1 DEF run, FlushEnd, Return, enable_stream, disable_stream, actuatorVars
  <1>2. CASE RunIn \/ RunOut \/ open_serial_port \/ Environment
    BY <1>2 DEF RunIn, RunOut, open_serial_port, Environment, Next
  <1>3. CASE Claim \/ FlushHandle
    BY <1>3 DEF Claim, FlushHandle, claim_and_handle, Goto, ContractInv,
                claim_response, Next
  <1>4. CASE handle_stream
    BY <1>4, RequestsOfCalls
       DEF handle_stream, enqueue_function, StreamRequest, Next
  <1>5. ASSUME NEW c \in Calls, blocking_call(c)
        PROVE  [Next]_vars
    BY <1>5, RequestsOfCalls DEF blocking_call, enqueue_function, Next
  <1>6. CASE FlushSend
    BY <1>6, RequestsOfCalls DEF FlushSend, send_blocking, Next
  <1>7. CASE FlushReceive
    BY <1>7, RequestsOfCalls
       DEF FlushReceive, Goto, ContractInv, await_response, Next
  <1> QED
    BY <1>1, <1>2, <1>3, <1>4, <1>5, <1>6, <1>7, ActuatorCases

LEMMA ContractStep ==
    ASSUME FrontInv, ContractInv, [ActuatorNext]_actuatorVars
    PROVE  ContractInv'
  <1>1. CASE run \/ FlushEnd \/ Return \/ enable_stream \/ disable_stream
    <2>1. queue' = queue /\ pc \notin {"claim", "handle"}
          /\ pc' \notin {"receive", "handle"}
      BY <1>1 DEF run, FlushEnd, Return, enable_stream, disable_stream, Goto, vars
    <2> QED
      BY <2>1 DEF ContractInv
  <1>2. CASE RunIn
    BY <1>2 DEF RunIn, Goto, ContractInv
  <1>3. CASE Claim \/ FlushHandle
    <2>1. pc' \notin {"receive", "handle"}
      BY <1>3 DEF Claim, FlushHandle, Goto
    <2>2. ~is_response_ready(queue')
      <3>1. CASE claim_and_handle
        BY <3>1, Dequeued DEF claim_and_handle
      <3>2. CASE ~is_response_ready(queue) /\ UNCHANGED vars
        BY <3>2 DEF vars
      <3> QED
        BY <1>3, <3>1, <3>2 DEF Claim, FlushHandle
    <2> QED
      BY <2>1, <2>2 DEF ContractInv
  <1>4. CASE handle_stream
    <2>1. pc = "stream" /\ pc' = "run_out" /\ ~is_response_ready(queue)
      BY <1>4 DEF handle_stream, Goto, ContractInv
    <2>2. enqueue_transaction(StreamRequest) \/ queue' = queue
      BY <1>4 DEF handle_stream, enqueue_function, StreamRequest, vars
    <2>3. ~is_response_ready(queue')
      BY <2>1, <2>2, RequestsOfCalls, Enqueued
    <2> QED
      BY <2>1, <2>3 DEF ContractInv
  <1>5. CASE RunOut
    <2>1. pc = "run_out" /\ pc' = "idle" /\ ~is_response_ready(queue)
      BY <1>5 DEF RunOut, Goto, ContractInv
    <2>2. send_front_message \/ queue' = queue
      BY <1>5 DEF RunOut, run_out, run_out_send, run_out_idle, vars
    <2>3. ~is_response_ready(queue')
      BY <2>1, <2>2, FrontSent
    <2> QED
      BY <2>1, <2>3 DEF ContractInv
  <1>6. ASSUME NEW c \in Calls, blocking_call(c)
        PROVE  ContractInv'
    <2>1. pc = "idle" /\ pc' = "flush" /\ ~is_response_ready(queue)
      BY <1>6 DEF blocking_call, Goto, ContractInv
    <2>2. ~is_response_ready(queue')
      BY <1>6, <2>1, RequestsOfCalls, Enqueued DEF blocking_call, enqueue_function
    <2> QED
      BY <2>1, <2>2 DEF ContractInv
  <1>7. CASE FlushSend
    <2>1. pc = "flush" /\ pc' = "receive" /\ queue # << >> /\ ~is_response_ready(queue)
      BY <1>7 DEF FlushSend, Goto, ContractInv
    <2>2. HasActive' /\ ~is_response_ready(queue')
      <3>1. CASE send_front_message
        BY <3>1, FrontSent
      <3>2. CASE ~available_to_send(queue) /\ UNCHANGED vars
        <4>1. HasActive /\ queue' = queue
          BY <2>1, <3>2, ReadyByPlace DEF vars
        <4> QED
          BY <2>1, <4>1, ReadyByPlace, ReadyByPlacePrime
      <3> QED
        BY <1>7, <3>1, <3>2 DEF FlushSend
    <2> QED
      BY <2>1, <2>2 DEF ContractInv
  <1>8. CASE FlushReceive
    <2>1. pc = "receive" /\ pc' = "handle" /\ Concluding
      BY <1>8, RequestsOfCalls
         DEF FlushReceive, Goto, ContractInv, await_response, Concluding
    <2> QED
      BY <2>1, FrontConcluded DEF ContractInv
  <1>9. CASE open_serial_port
    <2>1. queue' = << >> /\ pc' = "idle"
      BY <1>9 DEF open_serial_port, reset_state
    <2> QED
      BY <2>1 DEF ContractInv, is_response_ready
  <1>10. CASE Environment \/ UNCHANGED actuatorVars
    <2>1. queue' = queue /\ pc' = pc
      BY <1>10 DEF Environment, Tick, Arrive, actuatorVars, vars
    <2>2. HasActive => HasActive'
      BY <2>1, ReadyByPlace, ReadyByPlacePrime
    <2> QED
      BY <2>1, <2>2 DEF ContractInv
  <1> QED
    BY <1>1, <1>2, <1>3, <1>4, <1>5, <1>6, <1>7, <1>8, <1>9, <1>10, ActuatorCases

\* Whatever run and the calls do, the client is used as it has to be: a
\* transaction is taken only when it is finished, and receive_blocking waits
\* only for a request that is out.  Then all that is proved of the client
\* holds of the client inside an Actuator.
THEOREM ActuatorKeepsClientContract == ActuatorSpec => KeepsClientContract
  <1>1. ActuatorInit => Init /\ FrontInv /\ ContractInv
    BY FrontInvInit DEF ActuatorInit, ContractInv, Init, is_response_ready
  <1>2. FrontInv /\ ContractInv /\ [ActuatorNext]_actuatorVars =>
            FrontInv' /\ ContractInv' /\ [Next]_vars
    BY ClientStep, ContractStep, FrontInvNext
  <1> QED
    BY <1>1, <1>2, PTL DEF ActuatorSpec, KeepsClientContract, Spec

-----------------------------------------------------------------------------
(* The queue is short.                                                     *)

LEMMA ShortStep ==
    ASSUME FrontInv, ContractInv, ShortInv, [ActuatorNext]_actuatorVars
    PROVE  ShortInv'
  <1> DEFINE n == Len(queue)
  <1>1. n \in Nat /\ n <= 2
    BY ReadyByPlace DEF ShortInv
  <1>2. ASSUME queue' = queue, Running, Running', ~(pc' = "return")
        PROVE  ShortInv'
    BY <1>2 DEF ShortInv, Running, Flushing
  <1>3. ASSUME Running
        PROVE  n <= 1 /\ \A i \in 1 .. n : ~queue[i].important
    <2>1. ~Flushing
      BY <1>3 DEF Running, Flushing
    <2>2. n # 2 /\ \A i \in 1 .. n : ~queue[i].important
      BY <1>3, <2>1 DEF ShortInv
    <2> HIDE DEF n
    <2> QED
      BY <1>1, <2>2
  <1>4. ASSUME queue' = << >>
        PROVE  ShortInv'
    <2>1. Len(queue') = 0
      BY <1>4
    <2> QED
      BY <1>4, <2>1 DEF ShortInv
  <1>5. ASSUME Running, Len(queue') = n, pc' # "return",
               \A i \in 1 .. n : queue'[i].important = queue[i].important
        PROVE  ShortInv'
    BY <1>1, <1>3, <1>5 DEF ShortInv
  <1>6. CASE run \/ enable_stream \/ disable_stream
    BY <1>2, <1>6 DEF run, enable_stream, disable_stream, Goto, Running, vars
  <1>7. CASE RunIn
    <2>1. Running /\ pc' = "claim"
      BY <1>7 DEF RunIn, Goto, Running
    <2>2. CASE UNCHANGED vars
      BY <1>2, <2>1, <2>2 DEF Running, vars
    <2>3. CASE Concluding
      <3>1. n = 1 /\ ~queue[1].important
        <4>1. n >= 1
          BY <2>3, FrontConcluded, ReadyByPlace
        <4>2. n <= 1 /\ \A i \in 1 .. n : ~queue[i].important
          BY <1>3, <2>1
        <4> HIDE DEF n
        <4> QED
          BY <1>1, <4>1, <4>2
      <3>2. Len(queue') = 1 /\ queue'[1].important = queue[1].important
        BY <2>3, <3>1, FrontConcluded
      <3> QED
        BY <1>5, <2>1, <3>1, <3>2
    <2>4. CASE run_in /\ ~Concluding
      BY <1>5, <2>1, <2>4, RunInEffect
    <2> QED
      BY <1>7, <2>2, <2>3, <2>4 DEF RunIn
  <1>8. CASE Claim
    <2>1. Running /\ pc' = "stream"
      BY <1>8 DEF Claim, Goto, Running
    <2>2. CASE UNCHANGED vars
      BY <1>2, <2>1, <2>2 DEF Running, vars
    <2>3. CASE dequeue_transaction
      <3>1. queue' \in Seq(Transaction) /\ Len(queue') = n - 1 /\ n >= 1
        BY <2>3, Dequeued, ReadyByPlace
      <3>2. queue' = << >>
        BY <1>1, <1>3, <2>1, <3>1, EmptySeq
      <3> QED
        BY <1>4, <3>2
    <2> QED
      BY <1>8, <2>2, <2>3 DEF Claim, claim_and_handle
  <1>9. CASE handle_stream
    <2>1. Running /\ pc' = "run_out"
      BY <1>9 DEF handle_stream, Goto, Running
    <2>2. CASE UNCHANGED vars
      BY <1>2, <2>1, <2>2 DEF Running, vars
    <2>3. CASE queue = << >> /\ enqueue_transaction(StreamRequest)
      <3>1. n = 0
        BY <2>3
      <3>2. Len(queue') = n + 1 /\ ~queue'[n + 1].important
        BY <2>3, RequestsOfCalls, Enqueued
      <3> QED
        BY <2>1, <3>1, <3>2 DEF ShortInv
    <2> QED
      BY <1>9, <2>2, <2>3
         DEF handle_stream, StreamDue, enqueue_function, StreamRequest
  <1>10. CASE RunOut
    <2>1. Running /\ pc' = "idle"
      BY <1>10 DEF RunOut, Goto, Running
    <2>2. CASE queue' = queue
      BY <1>2, <2>1, <2>2 DEF Running
    <2>3. CASE send_front_message
      BY <1>5, <2>1, <2>3, FrontSent
    <2> QED
      BY <1>10, <2>2, <2>3 DEF RunOut, run_out, run_out_send, run_out_idle, vars
  <1>11. ASSUME NEW c \in Calls, blocking_call(c)
         PROVE  ShortInv'
    <2>1. Running /\ pc' = "flush"
      BY <1>11 DEF blocking_call, Goto, Running
    <2>2. /\ Len(queue') = n + 1
          /\ \A i \in 1 .. n : queue'[i] = queue[i]
      BY <1>11, RequestsOfCalls, Enqueued DEF blocking_call, enqueue_function
    <2>3. n = 1 => ~queue'[1].important
      BY <1>3, <2>1, <2>2
    <2> QED
      BY <1>1, <1>3, <2>1, <2>2, <2>3 DEF ShortInv, Running, Flushing
  <1>12. CASE FlushSend
    <2>1. Flushing /\ pc' = "receive" /\ ~is_response_ready(queue)
      BY <1>12 DEF FlushSend, Goto, Flushing, ContractInv
    <2>2. /\ Len(queue') = n
          /\ \A i \in 1 .. n : queue'[i].important = queue[i].important
      BY <1>12, FrontSent DEF FlushSend, vars
    <2>3. n = 2 => ~queue'[1].important
      BY <1>1, <2>1, <2>2 DEF ShortInv
    <2> QED
      BY <1>1, <2>1, <2>2, <2>3 DEF ShortInv, Running, Flushing
  <1>13. CASE FlushReceive
    <2>1. pc = "receive" /\ pc' = "handle" /\ Concluding /\ ~is_response_ready(queue)
      BY <1>13, RequestsOfCalls
         DEF FlushReceive, Goto, ContractInv, await_response, Concluding
    <2>2. n = 2 => ~queue[1].important
      BY <2>1 DEF ShortInv
    <2>3. Len(queue') <= 2 /\ is_response_ready(queue')
      <3>1. is_response_ready(queue') /\ queue # << >>
        BY <2>1, FrontConcluded
      <3>2. \/ Len(queue') = n
            \/ Len(queue') = n + 1 /\ queue[1].important
        BY <2>1, FrontConcluded
      <3> HIDE DEF n
      <3> QED
        BY <1>1, <2>2, <3>1, <3>2
    <2> QED
      BY <2>1, <2>3 DEF ShortInv, Running, Flushing
  <1>14. CASE FlushHandle
    <2>1. pc' = "flush" /\ Len(queue') = n - 1
      BY <1>14, Dequeued DEF FlushHandle, Goto, claim_and_handle
    <2>2. Len(queue') <= 2 /\ Len(queue') # 2
      <3> HIDE DEF n
      <3> QED
        BY <1>1, <2>1
    <2> QED
      BY <2>1, <2>2 DEF ShortInv, Running
  <1>15. CASE FlushEnd \/ Return \/ open_serial_port
    BY <1>4, <1>15
       DEF FlushEnd, Return, Goto, open_serial_port, reset_state, ShortInv, vars
  <1>16. CASE Environment \/ UNCHANGED actuatorVars
    <2>1. queue' = queue /\ pc' = pc
      BY <1>16 DEF Environment, Tick, Arrive, actuatorVars, vars
    <2> QED
      BY <2>1 DEF ShortInv, Running, Flushing
  <1> QED
    BY <1>6, <1>7, <1>8, <1>9, <1>10, <1>11, <1>12, <1>13, <1>14, <1>15, <1>16,
       ActuatorCases

-----------------------------------------------------------------------------
(* A call returns what became of its own request.                          *)

LEMMA CallStep ==
    ASSUME FrontInv, RequestInv, ContractInv, CallInv, [ActuatorNext]_actuatorVars
    PROVE  CallInv'
  <1> DEFINE n == Len(queue)
  <1>1. n \in Nat /\ (queue # << >> <=> n >= 1)
    BY ReadyByPlace
  <1>2. CASE \/ run \/ RunIn \/ Claim \/ handle_stream \/ RunOut \/ Return
             \/ enable_stream \/ disable_stream \/ open_serial_port
    BY <1>2 DEF run, RunIn, Claim, handle_stream, RunOut, Return, enable_stream,
                disable_stream, open_serial_port, Goto, CallInv, Flushing
  <1>3. ASSUME NEW c \in Calls, blocking_call(c)
        PROVE  CallInv'
    <2>1. /\ call'.id = Len(submitted') /\ call'.important = c.important
          /\ enqueue_transaction(RequestFor(c.function, c.important))
      BY <1>3 DEF blocking_call, enqueue_function
    <2>2. /\ queue' \in Seq(Transaction) /\ Len(queue') = n + 1
          /\ \A i \in 1 .. n : queue'[i] = queue[i]
          /\ queue'[n + 1].id = Len(submitted) + 1
          /\ queue'[n + 1].important = c.important
          /\ Len(submitted') = Len(submitted) + 1
      BY <2>1, RequestsOfCalls, Enqueued
    <2>3. ASSUME NEW i \in 1 .. n
          PROVE  queue'[i].id # call'.id
      <3>1. queue'[i].id \in 1 .. Len(submitted)
        BY <2>2 DEF FrontInv, IdsSubmitted
      <3>2. Len(submitted) \in Nat
        BY DEF FrontInv, TypeOK
      <3> QED
        BY <2>1, <2>2, <3>1, <3>2
    <2>4. \A i \in 1 .. n + 1 : i \in 1 .. n \/ i = n + 1
      BY <1>1
    <2>5. queue' # << >>
      BY <1>1, <2>2
    <2> QED
      BY <2>1, <2>2, <2>3, <2>4, <2>5 DEF CallInv
  <1>4. ASSUME Flushing, call' = call, Len(queue') = n, queue' \in Seq(Transaction),
               n = 0 => UNCHANGED << handled, message_error >>,
               \A i \in 1 .. n : /\ queue'[i].id = queue[i].id
                                 /\ queue'[i].important = queue[i].important
        PROVE  CallInv'
    BY <1>1, <1>4, ReadyByPlacePrime DEF CallInv, OutcomeIsFinal
  <1>5. CASE FlushSend
    <2>1. Flushing /\ call' = call /\ queue # << >>
      BY <1>5 DEF FlushSend, Goto, Flushing, callVars
    <2>2. /\ Len(queue') = n /\ queue' \in Seq(Transaction)
          /\ \A i \in 1 .. n : /\ queue'[i].id = queue[i].id
                               /\ queue'[i].important = queue[i].important
      BY <1>5, FrontSent, ReadyByPlace DEF FlushSend, vars
    <2> QED
      BY <1>1, <1>4, <2>1, <2>2
  <1>6. CASE FlushReceive
    <2>1. Flushing /\ call' = call /\ Concluding
      BY <1>6, RequestsOfCalls
         DEF FlushReceive, Goto, Flushing, callVars, ContractInv, await_response,
             Concluding
    <2>2. /\ queue # << >> /\ queue' \in Seq(Transaction)
          /\ queue'[1].id = queue[1].id /\ queue'[1].important = queue[1].important
          /\ \/ /\ Len(queue') = n
                /\ \A i \in 2 .. Len(queue') : queue'[i] = queue[i]
             \/ /\ Len(queue') = n + 1
                /\ queue'[2].id = queue[1].id /\ queue'[2].important
                /\ \A i \in 3 .. Len(queue') : queue'[i] = queue[i - 1]
      BY <2>1, FrontConcluded
    <2>3. CASE /\ Len(queue') = n
               /\ \A i \in 2 .. Len(queue') : queue'[i] = queue[i]
      <3>1. \A i \in 1 .. n : i = 1 \/ i \in 2 .. n
        BY <1>1
      <3> QED
        BY <1>1, <1>4, <2>1, <2>2, <2>3, <3>1
    <2>4. CASE /\ Len(queue') = n + 1
               /\ queue'[2].id = queue[1].id /\ queue'[2].important
               /\ \A i \in 3 .. Len(queue') : queue'[i] = queue[i - 1]
      <3>1. /\ \A i \in 1 .. n :
                   queue[i].id = call.id /\ call.important => queue[i].important
            /\ queue[n].id = call.id /\ n >= 1
        BY <1>1, <2>1, <2>2 DEF CallInv
      <3>2. \A i \in 1 .. n + 1 : i = 1 \/ i = 2 \/ (i \in 3 .. n + 1 /\ i - 1 \in 1 .. n)
        BY <1>1
      <3>3. \A i \in 1 .. n + 1 :
                queue'[i].id = call.id /\ call.important => queue'[i].important
        <4> SUFFICES ASSUME NEW i \in 1 .. n + 1,
                            queue'[i].id = call.id, call.important
                     PROVE  queue'[i].important
          OBVIOUS
        <4>1. CASE i = 1
          BY <2>2, <3>1, <4>1
        <4>2. CASE i = 2
          BY <2>4, <4>2
        <4>3. CASE i \in 3 .. n + 1 /\ i - 1 \in 1 .. n
          BY <2>4, <3>1, <4>3
        <4> QED
          BY <3>2, <4>1, <4>2, <4>3
      <3>4. queue'[n + 1].id = call.id
        <4>1. CASE n = 1
          BY <2>4, <3>1, <4>1
        <4>2. CASE n > 1
          <5>1. n + 1 \in 3 .. n + 1 /\ (n + 1) - 1 = n
            BY <1>1, <4>2
          <5> QED
            BY <2>4, <3>1, <5>1
        <4> HIDE DEF n
        <4> QED
          BY <1>1, <3>1, <4>1, <4>2
      <3>5. queue' # << >>
        BY <1>1, <2>2, <2>4, ReadyByPlacePrime
      <3> QED
        BY <2>1, <2>4, <3>3, <3>4, <3>5 DEF CallInv
    <2> QED
      BY <2>2, <2>3, <2>4
  <1>7. CASE FlushHandle
    <2>1. /\ pc = "handle" /\ Flushing /\ call' = call /\ is_response_ready(queue)
          /\ dequeue_transaction
          /\ message_error' = Active.failure /\ handled' = AttemptOf(Active)
      BY <1>7 DEF FlushHandle, Goto, Flushing, claim_and_handle, ContractInv,
                  handle_transaction_response
    <2>2. /\ queue # << >> /\ queue' \in Seq(Transaction) /\ Len(queue') = n - 1
          /\ \A i \in 1 .. Len(queue') : queue'[i] = queue[i + 1]
      BY <2>1, Dequeued
    <2>3. /\ n >= 1 /\ queue[n].id = call.id
          /\ \A i \in 1 .. n :
                 queue[i].id = call.id /\ call.important => queue[i].important
      BY <1>1, <2>1, <2>2 DEF CallInv
    <2>4. CASE n > 1
      <3>1. \A i \in 1 .. n - 1 : i + 1 \in 1 .. n /\ queue'[i] = queue[i + 1]
        BY <1>1, <2>2
      <3>2. n - 1 \in 1 .. n - 1 /\ (n - 1) + 1 = n
        BY <1>1, <2>4
      <3>3. queue'[n - 1].id = call.id /\ queue' # << >>
        BY <2>2, <2>3, <3>1, <3>2, ReadyByPlacePrime
      <3> QED
        BY <2>1, <2>2, <2>3, <3>1, <3>3 DEF CallInv
    <2>5. CASE n = 1
      <3>1. /\ Active = queue[1] /\ queue[1] \in Transaction
            /\ queue[1].state = "ready_to_process" /\ 1 \in 1 .. n
        BY <2>1, <2>2, <2>5, ReadyByPlace
      <3>2. handled'.id = call.id
        BY <2>1, <2>3, <2>5, <3>1 DEF AttemptOf
      <3>3. ASSUME message_error' # {}, call.important
            PROVE  handled'.retries = MaxRetries
        <4>1. queue[1].important /\ ~Succeeded(queue[1])
          BY <2>1, <2>3, <2>5, <3>1, <3>3 DEF Succeeded, is_reception_valid
        <4>2. ~needs_retry(queue[1])
          BY <2>5, <3>1 DEF RequestInv, RetryInv
        <4>3. queue[1].retries <= MaxRetries /\ queue[1].retries \in Nat
          BY <3>1 DEF RequestInv, AttemptInv, Transaction
        <4>4. queue[1].retries = MaxRetries
          BY <4>1, <4>2, <4>3, RetryAssumption DEF needs_retry
        <4> QED
          BY <2>1, <3>1, <4>4 DEF AttemptOf
      <3>4. Len(queue') = 0 /\ queue' = << >>
        BY <2>2, <2>5, EmptySeq
      <3> QED
        BY <2>1, <3>2, <3>3, <3>4 DEF CallInv, OutcomeIsFinal
    <2>6. n >= 1
      BY <2>3
    <2> HIDE DEF n
    <2> QED
      BY <1>1, <2>4, <2>5, <2>6
  <1>8. CASE FlushEnd
    <2>1. UNCHANGED << queue, call, handled, message_error >> /\ Flushing
      BY <1>8 DEF FlushEnd, Goto, Flushing, vars, resultVars
    <2> QED
      BY <1>1, <1>4, <2>1, ReadyByPlace
  <1>9. CASE Environment \/ UNCHANGED actuatorVars
    <2>1. UNCHANGED << pc, queue, call, handled, message_error >>
      BY <1>9 DEF Environment, Tick, Arrive, actuatorVars, callVars, resultVars, vars
    <2> QED
      BY <2>1 DEF CallInv, Flushing, OutcomeIsFinal
  <1> QED
    BY <1>2, <1>3, <1>5, <1>6, <1>7, <1>8, <1>9, ActuatorCases

LEMMA DataStep ==
    ASSUME FrontInv, OwnInv, ValidInv, ContractInv, CallInv, DataInv,
           [ActuatorNext]_actuatorVars
    PROVE  DataInv'
  <1>1. CASE \/ run \/ RunIn \/ Claim \/ handle_stream \/ RunOut \/ Return
             \/ enable_stream \/ disable_stream \/ open_serial_port
    BY <1>1 DEF run, RunIn, Claim, handle_stream, RunOut, Return, enable_stream,
                disable_stream, open_serial_port, Goto, DataInv, Flushing
  <1>2. ASSUME NEW c \in Calls, blocking_call(c)
        PROVE  queue' # << >>
    <2>1. queue' \in Seq(Transaction) /\ Len(queue') = Len(queue) + 1
      BY <1>2, RequestsOfCalls, Enqueued DEF blocking_call, enqueue_function
    <2> QED
      BY <2>1, ReadyByPlace
  <1>3. CASE FlushSend
    <2>1. queue # << >> /\ Len(queue') = Len(queue) /\ queue' \in Seq(Transaction)
      BY <1>3, FrontSent, ReadyByPlace DEF FlushSend, vars
    <2>2. queue' # << >>
      BY <2>1, ReadyByPlace, ReadyByPlacePrime
    <2> QED
      BY <2>2 DEF DataInv
  <1>4. CASE FlushReceive
    <2>1. Concluding
      BY <1>4, RequestsOfCalls
         DEF FlushReceive, Goto, ContractInv, await_response, Concluding
    <2> QED
      BY <2>1, FrontConcluded DEF DataInv, is_response_ready
  <1>5. CASE FlushHandle
    <2>1. /\ pc = "handle" /\ Flushing /\ call' = call /\ is_response_ready(queue)
          /\ dequeue_transaction
          /\ message_error' = Active.failure
          /\ message_data' = NoData \/ message_data' = DataOf(Active)
      BY <1>5 DEF FlushHandle, Goto, Flushing, claim_and_handle, ContractInv,
                  handle_transaction_response
    <2> SUFFICES ASSUME queue' = << >>, Active.failure = {},
                        message_data' = DataOf(Active)
                 PROVE  message_data'.of.id = call.id
      BY <2>1 DEF DataInv
    <2>2. Len(queue) = 1
      BY <2>1, Dequeued, ReadyByPlace
    <2>3. Active = queue[1] /\ queue[1].id = call.id
      BY <2>1, <2>2, ReadyByPlace DEF CallInv
    <2>4. Active.rx[2].of = AttemptOf(Active)
      BY <2>1, ValidIsOwn DEF is_reception_valid
    <2> QED
      BY <2>3, <2>4 DEF DataOf, AttemptOf
  <1>6. CASE FlushEnd
    <2>1. UNCHANGED << queue, call, message_error, message_data >> /\ Flushing
      BY <1>6 DEF FlushEnd, Goto, Flushing, vars, resultVars
    <2> QED
      BY <2>1 DEF DataInv
  <1>7. CASE Environment \/ UNCHANGED actuatorVars
    <2>1. UNCHANGED << pc, queue, call, message_error, message_data >>
      BY <1>7 DEF Environment, Tick, Arrive, actuatorVars, callVars, resultVars, vars
    <2> QED
      BY <2>1 DEF DataInv, Flushing
  <1> QED
    BY <1>1, <1>2, <1>3, <1>4, <1>5, <1>6, <1>7, ActuatorCases DEF DataInv

-----------------------------------------------------------------------------
(* The theorems.                                                           *)

LEMMA ActuatorInvInit == ActuatorInit => ActuatorInv
  <1> SUFFICES ASSUME ActuatorInit PROVE ActuatorInv
    OBVIOUS
  <1>1. FrontInv /\ RequestInv
    BY FrontInvInit, RequestInvInit DEF ActuatorInit
  <1>2. queue = << >> /\ Len(queue) = 0 /\ pc = "idle"
    BY DEF ActuatorInit, Init
  <1>3. ContractInv
    BY <1>2 DEF ContractInv, is_response_ready
  <1>4. ShortInv /\ CallInv
    BY <1>2 DEF ShortInv, CallInv, Flushing
  <1> QED
    BY <1>1, <1>3, <1>4 DEF ActuatorInv

\* The client's invariant, the order in which run and flush use it, the
\* shortness of the queue and the place of a call's request in it hold at
\* every step of the calling thread, of time and of the line.
THEOREM ActuatorInvariant == ActuatorSpec => []ActuatorInv
  <1>1. ActuatorInv /\ [ActuatorNext]_actuatorVars => ActuatorInv'
    BY ClientStep, FrontInvNext, RequestInvNext, ContractStep, ShortStep, CallStep
       DEF ActuatorInv
  <1> QED
    BY <1>1, ActuatorInvInit, PTL DEF ActuatorSpec

\* However run and the blocking calls of a program alternate, the queue never
\* holds more than the command or failed try in front and one request.
THEOREM QueueAlwaysShort == ActuatorSpec => []QueueStaysShort
  <1>1. ActuatorInv => QueueStaysShort
    BY DEF ActuatorInv, ShortInv, QueueStaysShort
  <1> QED
    BY <1>1, ActuatorInvariant, PTL

\* What a blocking call reports is about its own request, and an error of an
\* important one is that of its last retry, whatever the line does.
THEOREM OutcomeIsOwn == ActuatorSpec => [](pc = "return" => OutcomeIsFinal)
  <1>1. ActuatorInv => (pc = "return" => OutcomeIsFinal)
    BY DEF ActuatorInv, ShortInv, CallInv
  <1> QED
    BY <1>1, ActuatorInvariant, PTL

\* A blocking call returns the outcome of its own request and, with no error,
\* registers out of the answer to it, when no byte outlives the pause before
\* the next request.
THEOREM ResultAlwaysOwn ==
    ASSUME LateAnswers = FALSE
    PROVE  ActuatorSpec => []ResultIsOwn
  <1>1. ActuatorSpec => [](FrontInv /\ OwnInv /\ ValidInv)
    BY ActuatorKeepsClientContract, OwnInvariant, PTL DEF KeepsClientContract
  <1>2. ActuatorInit => DataInv
    BY DEF ActuatorInit, DataInv, Flushing
  <1>3. /\ FrontInv /\ OwnInv /\ ValidInv /\ ActuatorInv /\ DataInv
        /\ [ActuatorNext]_actuatorVars
        => DataInv'
    BY DataStep DEF ActuatorInv
  <1>4. ActuatorInv /\ DataInv => ResultIsOwn
    BY DEF ActuatorInv, ShortInv, CallInv, OutcomeIsFinal, DataInv, ResultIsOwn
  <1> QED
    BY <1>1, <1>2, <1>3, <1>4, ActuatorInvariant, PTL DEF ActuatorSpec

\* In an Actuator too, an answer that is taken for valid is the answer to that
\* very attempt, when no byte outlives the pause before the next request.
THEOREM ActuatorAnswerIsOwn ==
    ASSUME LateAnswers = FALSE
    PROVE  ActuatorSpec => []ValidAnswerIsOwn
  BY ActuatorKeepsClientContract, ValidAnswerAlwaysOwn, PTL DEF KeepsClientContract

\* run and the blocking calls together implement RequestService: a request of
\* the stream or of a call is served in its turn, tried again only after a
\* failure and within the limit, and handed over once.
THEOREM ActuatorImplementsService == ActuatorSpec => ImplementsService
  BY ActuatorKeepsClientContract, ClientImplementsService, PTL DEF KeepsClientContract
=============================================================================
