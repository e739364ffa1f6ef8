------------------------ MODULE ModbusClient_proofs ------------------------
(***************************************************************************)
(* Proofs about ModbusClient, for every set of requests, every timeout and *)
(* retry limit, and both ways of driving an exchange.                      *)
(***************************************************************************)
EXTENDS ModbusClient, SequenceTheorems, TLAPS

-----------------------------------------------------------------------------
(* What the list operators of MessageQueue return.                         *)

\* Writing to the active transaction changes the front and nothing else.
LEMMA WithActiveProperties ==
    ASSUME NEW T, NEW q \in Seq(T), q # << >>, NEW t \in T
    PROVE  /\ WithActive(q, t) \in Seq(T)
           /\ Len(WithActive(q, t)) = Len(q)
           /\ WithActive(q, t)[1] = t
           /\ \A i \in 2 .. Len(q) : WithActive(q, t)[i] = q[i]
  <1>1. Tail(q) \in Seq(T) /\ Len(Tail(q)) = Len(q) - 1
    OBVIOUS
  <1>2. \A i \in 1 .. Len(q) - 1 : Tail(q)[i] = q[i + 1]
    OBVIOUS
  <1>3. << t >> \in Seq(T) /\ Len(<< t >>) = 1 /\ << t >>[1] = t
    OBVIOUS
  <1> QED
    BY <1>1, <1>2, <1>3 DEF WithActive

\* A retry goes behind the front and pushes the rest back by one.
LEMMA InsertNextProperties ==
    ASSUME NEW q \in Seq(Transaction), q # << >>, NEW t \in Transaction
    PROVE  /\ insert_next(q, t) \in Seq(Transaction)
           /\ Len(insert_next(q, t)) = Len(q) + 1
           /\ insert_next(q, t)[1] = q[1]
           /\ insert_next(q, t)[2] = [t EXCEPT !.state = "queued"]
           /\ \A i \in 3 .. Len(q) + 1 : insert_next(q, t)[i] = q[i - 1]
  <1> DEFINE u == [t EXCEPT !.state = "queued"]
             f == << q[1], u >>
  <1>1. u \in Transaction
    BY DEF Transaction, TransmitState
  <1>2. f \in Seq(Transaction) /\ Len(f) = 2 /\ f[1] = q[1] /\ f[2] = u
    <2>1. q[1] \in Transaction
      OBVIOUS
    <2> QED
      BY <1>1, <2>1
  <1>3. Tail(q) \in Seq(Transaction) /\ Len(Tail(q)) = Len(q) - 1
    OBVIOUS
  <1>4. \A i \in 1 .. Len(q) - 1 : Tail(q)[i] = q[i + 1]
    OBVIOUS
  <1>5. insert_next(q, t) = f \o Tail(q)
    BY DEF insert_next
  <1> HIDE DEF u, f
  <1>6. /\ f \o Tail(q) \in Seq(Transaction)
        /\ Len(f \o Tail(q)) = Len(q) + 1
        /\ (f \o Tail(q))[1] = q[1]
        /\ (f \o Tail(q))[2] = u
        /\ \A i \in 3 .. Len(q) + 1 : (f \o Tail(q))[i] = q[i - 1]
    <2> HIDE DEF f
    <2>1. /\ f \o Tail(q) \in Seq(Transaction)
          /\ Len(f \o Tail(q)) = Len(f) + Len(Tail(q))
          /\ \A i \in 1 .. Len(f) + Len(Tail(q)) :
                 (f \o Tail(q))[i] = IF i <= Len(f) THEN f[i]
                                     ELSE Tail(q)[i - Len(f)]
      BY <1>2, <1>3, ConcatProperties
    <2> QED
      BY <2>1, <1>2, <1>3, <1>4
  <1> QED
    BY <1>5, <1>6 DEF u

-----------------------------------------------------------------------------
(* Types of what the Transaction operators return.                         *)

LEMMA LoadType ==
    ASSUME NEW r \in Request, NEW n \in Nat
    PROVE  load_transmission_data(n, r) \in Transaction
  BY DEF load_transmission_data, Request, Transaction, TransmitState

LEMMA RetryType ==
    ASSUME NEW t \in Transaction
    PROVE  generate_retry(t) \in Transaction
  <1>1. t.retries + 1 \in Nat /\ << >> \in Seq(Byte) /\ {} \in SUBSET ErrorId
    BY DEF Transaction
  <1> QED
    BY <1>1 DEF generate_retry, Transaction, TransmitState

LEMMA InvalidateType ==
    ASSUME NEW t \in Transaction, NEW e \in SUBSET ErrorId
    PROVE  invalidate(t, e) \in Transaction
  BY DEF invalidate, Transaction, TransmitState

LEMMA ValidateType ==
    ASSUME NEW t \in Transaction
    PROVE  validate_response(t) \in Transaction
  <1>1. ResponseErrors(t) \in SUBSET ErrorId
    BY DEF ResponseErrors, ErrorId
  <1> QED
    BY <1>1, InvalidateType DEF validate_response

LEMMA ReceptionType ==
    ASSUME NEW t \in Transaction, NEW b \in Seq(Byte)
    PROVE  /\ load_reception(t, b) \in Transaction
           /\ load_reception(t, b).rx = t.rx \o b
  <1>1. t.rx \o b \in Seq(Byte)
    <2>1. t.rx \in Seq(Byte)
      BY DEF Transaction
    <2> QED
      BY <2>1
  <1> QED
    BY <1>1 DEF load_reception, Transaction

LEMMA SentType ==
    ASSUME NEW t \in Transaction
    PROVE  [t EXCEPT !.unsent = FALSE, !.state = "sent"] \in Transaction
  BY DEF Transaction, TransmitState

\* Every answer is a sequence of bytes.
LEMMA AnswersType ==
    ASSUME NEW t \in Transaction, NEW answer \in Answers(t)
    PROVE  answer \in Seq(Byte)
  <1>1. CASE answer = << >>
    BY <1>1
  <1>2. CASE answer # << >>
    <2> DEFINE Size(kind) == IF kind = "exception" \/ t.length < 0
                             THEN ExceptionLength ELSE t.length
               Whole(kind) == Frame(kind, AttemptOf(t), Size(kind))
    <2>1. PICK kind \in AnswerKinds : \E n \in 1 .. Len(Whole(kind)) :
                  answer = SubSeq(Whole(kind), 1, n)
      BY <1>2 DEF Answers
    <2>2. AttemptOf(t) \in Attempt /\ kind \in FrameKind
      BY ModesAssumption DEF AttemptOf, Attempt, Transaction
    <2>3. Size(kind) \in Nat
      BY ExceptionLengthAssumption DEF Transaction
    <2> HIDE DEF Size
    <2>4. Whole(kind) \in Seq(Byte)
      <3> DEFINE B(i) == [kind |-> kind, of |-> AttemptOf(t),
                          length |-> Size(kind), pos |-> i]
      <3>1. \A i \in 1 .. Size(kind) : B(i) \in Byte
        BY <2>2, <2>3 DEF Byte
      <3>2. Whole(kind) = [i \in 1 .. Size(kind) |-> B(i)]
        BY DEF Frame
      <3> HIDE DEF B
      <3>3. [i \in 1 .. Size(kind) |-> B(i)] \in Seq(Byte)
        BY <2>3, <3>1
      <3> QED
        BY <3>2, <3>3
    <2> HIDE DEF Whole
    <2> QED
      BY <2>1, <2>4
  <1> QED
    BY <1>1, <1>2


-----------------------------------------------------------------------------
(* The inductive invariant, first part: types and the state of the front.  *)

IdsSubmitted ==
    \A i \in 1 .. Len(queue) : queue[i].id \in 1 .. Len(submitted)

\* No transaction of the queue is unused, one that is queued is untouched, and
\* all but the front are queued.
StatesInv ==
    \A i \in 1 .. Len(queue) :
        /\ queue[i].state # "unused"
        /\ queue[i].state = "queued" =>
               /\ queue[i].unsent
               /\ queue[i].rx = << >> /\ queue[i].failure = {}
        /\ i > 1 => queue[i].state = "queued"

\* The active transaction has no error yet and waits for another byte.
ActiveInv ==
    HasActive =>
        /\ Active.failure = {}
        /\ Active.rx = << >> \/ ~received_expected_number_of_bytes(Active)

FrontInv ==
    /\ TypeOK /\ IdsSubmitted /\ StatesInv /\ ActiveInv
    /\ TimerHasActive /\ ActiveIsTimed

LEMMA ActiveIsFirst ==
    ASSUME TypeOK, queue # << >>
    PROVE  /\ Active = queue[1] /\ Active \in Transaction
           /\ Len(queue) \in Nat /\ Len(queue) >= 1
  <1>1. queue \in Seq(Transaction)
    BY DEF TypeOK
  <1>2. Len(queue) \in Nat /\ Len(queue) >= 1
    BY <1>1, EmptySeq
  <1> QED
    <2>1. Head(queue) = queue[1] /\ queue[1] \in Transaction
      BY <1>1, <1>2, HeadTailProperties
    <2> QED
      BY <1>2, <2>1 DEF Active, get_active_transaction

-----------------------------------------------------------------------------
(* What the client's operations do to the queue, place by place.           *)

LEMMA EnqueueEffect ==
    ASSUME TypeOK, NEW r \in Requests, enqueue_transaction(r)
    PROVE  /\ queue' \in Seq(Transaction) /\ Len(queue') = Len(queue) + 1
           /\ \A i \in 1 .. Len(queue) : queue'[i] = queue[i]
           /\ queue'[Len(queue) + 1] =
                  [load_transmission_data(Len(submitted) + 1, r)
                      EXCEPT !.state = "queued"]
  <1> DEFINE t == load_transmission_data(Len(submitted) + 1, r)
             u == [t EXCEPT !.state = "queued"]
  <1>1. t \in Transaction
    BY LoadType, RequestsAssumption DEF TypeOK
  <1>2. u \in Transaction
    BY <1>1 DEF Transaction, TransmitState
  <1>3. queue' = Append(queue, u)
    BY DEF enqueue_transaction, enqueue
  <1> HIDE DEF u
  <1>4. queue \in Seq(Transaction)
    BY DEF TypeOK
  <1>5. /\ queue' \in Seq(Transaction) /\ Len(queue') = Len(queue) + 1
        /\ \A i \in 1 .. Len(queue) : queue'[i] = queue[i]
        /\ queue'[Len(queue) + 1] = u
    BY <1>2, <1>3, <1>4
  <1> QED
    BY <1>5 DEF u

LEMMA DequeueEffect ==
    ASSUME TypeOK, dequeue_transaction
    PROVE  /\ queue' \in Seq(Transaction) /\ Len(queue') = Len(queue) - 1
           /\ \A i \in 1 .. Len(queue') : queue'[i] = queue[i + 1]
  BY DEF TypeOK, dequeue_transaction

\* A transaction that ended in t is left in front, and its retry, if it gets
\* one, stands behind it.
LEMMA ConcludeEffect ==
    ASSUME TypeOK, queue # << >>, NEW t \in Transaction, conclude_transaction(t)
    PROVE  /\ queue' \in Seq(Transaction) /\ queue'[1] = t
           /\ needs_retry(t) =>
                  /\ Len(queue') = Len(queue) + 1
                  /\ queue'[2] = [generate_retry(t) EXCEPT !.state = "queued"]
                  /\ \A i \in 3 .. Len(queue') : queue'[i] = queue[i - 1]
           /\ ~needs_retry(t) =>
                  /\ Len(queue') = Len(queue)
                  /\ \A i \in 2 .. Len(queue') : queue'[i] = queue[i]
  <1> DEFINE w == WithActive(queue, t)
  <1>1. queue \in Seq(Transaction)
    BY DEF TypeOK
  <1>2. /\ w \in Seq(Transaction) /\ Len(w) = Len(queue) /\ w[1] = t
        /\ \A i \in 2 .. Len(queue) : w[i] = queue[i]
    BY <1>1, WithActiveProperties
  <1>3. queue' = IF needs_retry(t) THEN insert_next(w, generate_retry(t)) ELSE w
    BY DEF conclude_transaction
  <1> HIDE DEF w
  <1>4. generate_retry(t) \in Transaction
    BY RetryType
  <1>5. Len(queue) \in Nat /\ Len(queue) >= 1 /\ w # << >>
    BY <1>1, <1>2
  <1>6. CASE needs_retry(t)
    <2>1. queue' = insert_next(w, generate_retry(t))
      BY <1>3, <1>6
    <2>2. /\ queue' \in Seq(Transaction) /\ Len(queue') = Len(w) + 1
          /\ queue'[1] = w[1]
          /\ queue'[2] = [generate_retry(t) EXCEPT !.state = "queued"]
          /\ \A i \in 3 .. Len(w) + 1 : queue'[i] = w[i - 1]
      <3> DEFINE g == generate_retry(t)
      <3>1. /\ w \in Seq(Transaction) /\ w # << >>
            /\ g \in Transaction /\ queue' = insert_next(w, g)
        BY <1>2, <1>4, <1>5, <2>1
      <3> HIDE DEF g
      <3>2. /\ insert_next(w, g) \in Seq(Transaction)
            /\ Len(insert_next(w, g)) = Len(w) + 1
            /\ insert_next(w, g)[1] = w[1]
            /\ insert_next(w, g)[2] = [g EXCEPT !.state = "queued"]
            /\ \A i \in 3 .. Len(w) + 1 : insert_next(w, g)[i] = w[i - 1]
        BY <3>1, InsertNextProperties
      <3> QED
        BY <3>1, <3>2 DEF g
    <2>3. \A i \in 3 .. Len(queue') : queue'[i] = queue[i - 1]
      BY <1>2, <1>5, <2>2
    <2> QED
      BY <1>2, <1>6, <2>2, <2>3
  <1>7. CASE ~needs_retry(t)
    BY <1>2, <1>3, <1>7
  <1> QED
    BY <1>6, <1>7

\* t is transaction a at the end of its reception.
Concluded(a, t) ==
    /\ t \in Transaction /\ t.state = "ready_to_process"
    /\ t.id = a.id /\ t.important = a.important /\ t.length = a.length
    /\ t.retries = a.retries /\ t.broadcast = a.broadcast

LEMMA InvalidateConcludes ==
    ASSUME NEW a \in Transaction, NEW e \in SUBSET ErrorId
    PROVE  Concluded(a, invalidate(a, e)) /\ invalidate(a, e).rx = a.rx
  <1>1. invalidate(a, e) \in Transaction
    BY InvalidateType
  <1> QED
    BY <1>1 DEF Concluded, invalidate, Transaction

LEMMA ValidateConcludes ==
    ASSUME NEW a \in Transaction, a.failure = {}
    PROVE  Concluded(a, validate_response(a)) /\ validate_response(a).rx = a.rx
  <1>1. ResponseErrors(a) \in SUBSET ErrorId
    BY DEF ResponseErrors, ErrorId
  <1>2. validate_response(a) = invalidate(a, ResponseErrors(a))
    BY DEF validate_response
  <1> QED
    BY <1>1, <1>2, InvalidateConcludes

LEMMA LoadKeeps ==
    ASSUME NEW a \in Transaction, NEW b \in Seq(Byte), NEW t,
           Concluded(load_reception(a, b), t)
    PROVE  Concluded(a, t)
  BY DEF Concluded, load_reception, Transaction


\* The steps that end a reception.
Concluding ==
    receive_all \/ response_timeout \/ interchar_timeout \/ await_response

LEMMA ConcludingStep ==
    ASSUME FrontInv, Concluding
    PROVE  /\ HasActive /\ queue # << >> /\ received' \in Seq(Byte)
           /\ line' = line
           /\ \E t : Concluded(Active, t) /\ conclude_transaction(t)
  <1>1. TypeOK /\ received \in Seq(Byte) /\ line \in Seq(Byte)
    BY DEF FrontInv, TypeOK
  <1>2. HasActive /\ queue # << >> /\ Active \in Transaction
    <2>1. CASE receive_all \/ await_response
      BY <1>1, <2>1, ActiveIsFirst
         DEF receive_all, await_response, HasActive
    <2>2. CASE response_timeout \/ interchar_timeout
      BY <1>1, <2>2, ActiveIsFirst
         DEF response_timeout, interchar_timeout, has_timer_expired, FrontInv,
             TimerHasActive, HasActive
    <2> QED
      BY <2>1, <2>2 DEF Concluding
  <1>3. Active.failure = {}
    BY <1>2 DEF FrontInv, ActiveInv
  <1>4. ASSUME NEW b \in Seq(Byte)
        PROVE  Concluded(Active, validate_response(load_reception(Active, b)))
    <2>1. /\ load_reception(Active, b) \in Transaction
          /\ load_reception(Active, b).failure = {}
      BY <1>2, <1>3, ReceptionType DEF load_reception, Transaction
    <2> QED
      BY <1>2, <2>1, ValidateConcludes, LoadKeeps
  <1>5. CASE receive_all
    <2>1. PICK n \in 1 .. Len(received) :
              /\ conclude_transaction(validate_response(AfterBytes(n)))
              /\ received' = SubSeq(received, n + 1, Len(received))
              /\ line' = line
      BY <1>5 DEF receive_all
    <2>2. SubSeq(received, 1, n) \in Seq(Byte) /\ received' \in Seq(Byte)
      BY <1>1, <2>1
    <2> QED
      BY <1>2, <1>4, <2>1, <2>2 DEF AfterBytes
  <1>6. CASE response_timeout
    <2>1. conclude_transaction(invalidate(Active, {"RESPONSE_TIMEOUT_ERROR"}))
      BY <1>6 DEF response_timeout
    <2>2. Concluded(Active, invalidate(Active, {"RESPONSE_TIMEOUT_ERROR"}))
      BY <1>2, InvalidateConcludes DEF ErrorId
    <2> QED
      BY <1>1, <1>2, <1>6, <2>1, <2>2 DEF response_timeout
  <1>7. CASE interchar_timeout
    <2> DEFINE t == IF is_expected_length_known(Active)
                    THEN invalidate(Active, {"INTERCHAR_TIMEOUT_ERROR"})
                    ELSE validate_response(Active)
    <2>1. conclude_transaction(t)
      BY <1>7 DEF interchar_timeout
    <2>2. Concluded(Active, t)
      BY <1>2, <1>3, InvalidateConcludes, ValidateConcludes DEF ErrorId
    <2> QED
      BY <1>1, <1>2, <1>7, <2>1, <2>2 DEF interchar_timeout
  <1>8. CASE await_response
    BY <1>1, <1>2, <1>4, <1>8 DEF await_response, receive_blocking
  <1> QED
    BY <1>5, <1>6, <1>7, <1>8 DEF Concluding

\* The front is sent as it stands and a timer is started for it.
LEMMA SendEffect ==
    ASSUME FrontInv, send_front_message
    PROVE  /\ queue # << >> /\ queue[1] \in Transaction
           /\ queue[1].state = "queued"
           /\ queue' \in Seq(Transaction) /\ Len(queue') = Len(queue)
           /\ queue'[1] = [queue[1] EXCEPT !.unsent = FALSE, !.state = "sent"]
           /\ \A i \in 2 .. Len(queue) : queue'[i] = queue[i]
           /\ timer' = IF queue[1].broadcast THEN "turnaround_delay"
                       ELSE "response_timeout"
           /\ elapsed' = 0 /\ received' = << >> /\ line' \in Seq(Byte)
           /\ sends' = [sends EXCEPT ![queue[1].id] = @ + 1]
           /\ UNCHANGED << submitted, settled, quiet >>
  <1> DEFINE u == [queue[1] EXCEPT !.unsent = FALSE, !.state = "sent"]
  <1>1. TypeOK /\ queue \in Seq(Transaction) /\ line \in Seq(Byte)
    BY DEF FrontInv, TypeOK
  <1>2. queue # << >> /\ Head(queue).state = "queued"
    BY DEF send_front_message, available_to_send
  <1>3. /\ Active = queue[1] /\ queue[1] \in Transaction
        /\ Len(queue) \in Nat /\ Len(queue) >= 1
    BY <1>1, <1>2, ActiveIsFirst
  <1>4. queue[1].state = "queued" /\ queue[1].unsent
    BY <1>2, <1>3 DEF Active, get_active_transaction, FrontInv, StatesInv
  <1>5. u \in Transaction
    BY <1>3, SentType
  <1>6. queue' = WithActive(queue, u)
    BY <1>3 DEF send_front_message
  <1>7. line' \in Seq(Byte) /\ received' = << >>
    <2>1. PICK answer \in Answers(queue[1]) :
              line' = (IF LateAnswers THEN line ELSE << >>) \o answer
      BY <1>3 DEF send_front_message, tx_enable
    <2>2. answer \in Seq(Byte)
      BY <1>3, AnswersType
    <2>3. (IF LateAnswers THEN line ELSE << >>) \in Seq(Byte)
      BY <1>1
    <2> QED
      BY <2>1, <2>2, <2>3, ConcatProperties DEF send_front_message, tx_enable
  <1> HIDE DEF u
  <1>8. /\ queue' \in Seq(Transaction) /\ Len(queue') = Len(queue)
        /\ queue'[1] = u
        /\ \A i \in 2 .. Len(queue) : queue'[i] = queue[i]
    <2>1. /\ WithActive(queue, u) \in Seq(Transaction)
          /\ Len(WithActive(queue, u)) = Len(queue)
          /\ WithActive(queue, u)[1] = u
          /\ \A i \in 2 .. Len(queue) : WithActive(queue, u)[i] = queue[i]
      BY <1>1, <1>2, <1>5, WithActiveProperties
    <2> QED
      BY <1>6, <2>1
  <1>9. /\ timer' = IF queue[1].broadcast THEN "turnaround_delay"
                    ELSE "response_timeout"
        /\ elapsed' = 0
        /\ sends' = [sends EXCEPT ![queue[1].id] = @ + 1]
        /\ UNCHANGED << submitted, settled, quiet >>
    BY <1>3, <1>4 DEF send_front_message, Start
  <1> QED
    BY <1>2, <1>3, <1>4, <1>7, <1>8, <1>9 DEF u

\* The active transaction takes all bytes and still waits for more.
LEMMA PartEffect ==
    ASSUME FrontInv, receive_part
    PROVE  /\ HasActive /\ queue # << >> /\ queue[1].state = "sent"
           /\ queue' \in Seq(Transaction) /\ Len(queue') = Len(queue)
           /\ queue'[1] = load_reception(queue[1], received)
           /\ ~received_expected_number_of_bytes(queue'[1])
           /\ Len(queue'[1].rx) >= 1
           /\ \A i \in 2 .. Len(queue) : queue'[i] = queue[i]
           /\ timer' = "interchar_timeout" /\ elapsed' = 0
           /\ received' = << >> /\ line' = line
  <1> DEFINE u == load_reception(queue[1], received)
  <1>1. /\ TypeOK /\ queue \in Seq(Transaction)
        /\ received \in Seq(Byte) /\ received # << >>
    BY DEF FrontInv, TypeOK, receive_part, CanReceive
  <1>2. HasActive /\ queue # << >>
    BY DEF receive_part, CanReceive, HasActive
  <1>3. /\ Active = queue[1] /\ queue[1] \in Transaction
        /\ queue[1].state = "sent"
    BY <1>1, <1>2, ActiveIsFirst DEF HasActive
  <1>4. Len(received) \in Nat /\ Len(received) >= 1
    BY <1>1, EmptySeq
  <1>5. SubSeq(received, 1, Len(received)) = received
    BY <1>1, <1>4
  <1>6. AfterBytes(Len(received)) = u
    BY <1>3, <1>5 DEF AfterBytes
  <1>7. u \in Transaction /\ u.rx = queue[1].rx \o received
    BY <1>1, <1>3, ReceptionType
  <1>8. Len(u.rx) >= 1
    <2>1. queue[1].rx \in Seq(Byte)
      BY <1>3 DEF Transaction
    <2> QED
      BY <1>1, <1>4, <1>7, <2>1, ConcatProperties
  <1>9. ~received_expected_number_of_bytes(u)
    BY <1>4, <1>6 DEF receive_part
  <1>10. queue' = WithActive(queue, u)
    BY <1>6 DEF receive_part
  <1> HIDE DEF u
  <1>11. /\ queue' \in Seq(Transaction) /\ Len(queue') = Len(queue)
         /\ queue'[1] = u
         /\ \A i \in 2 .. Len(queue) : queue'[i] = queue[i]
    <2>1. /\ WithActive(queue, u) \in Seq(Transaction)
          /\ Len(WithActive(queue, u)) = Len(queue)
          /\ WithActive(queue, u)[1] = u
          /\ \A i \in 2 .. Len(queue) : WithActive(queue, u)[i] = queue[i]
      BY <1>1, <1>2, <1>7, WithActiveProperties
    <2> QED
      BY <1>10, <2>1
  <1>12. /\ timer' = "interchar_timeout" /\ elapsed' = 0
         /\ received' = << >> /\ line' = line
    BY DEF receive_part, Start
  <1> QED
    BY <1>2, <1>3, <1>8, <1>9, <1>11, <1>12 DEF u


-----------------------------------------------------------------------------
(* Every step preserves the first part of the invariant.                   *)

\* The same as ActiveIsFirst after a step.
LEMMA ActiveIsFirstPrime ==
    ASSUME queue' \in Seq(Transaction)
    PROVE  /\ Len(queue') \in Nat
           /\ queue' # << >> <=> Len(queue') >= 1
           /\ queue' # << >> => Active' = queue'[1]
           /\ HasActive' <=> queue' # << >> /\ queue'[1].state = "sent"
  <1>1. Len(queue') \in Nat /\ (queue' # << >> <=> Len(queue') >= 1)
    BY EmptySeq
  <1>2. ASSUME queue' # << >>
        PROVE  Active' = queue'[1]
    BY <1>2, HeadTailProperties DEF Active, get_active_transaction
  <1> QED
    BY <1>1, <1>2 DEF HasActive

\* The parts of FrontInv that speak of the queue, for a queue that has not
\* changed.
LEMMA FrontUnchanged ==
    ASSUME FrontInv, TypeOK', UNCHANGED << queue, submitted >>,
           TimerHasActive', ActiveIsTimed'
    PROVE  FrontInv'
  <1>1. IdsSubmitted' /\ StatesInv'
    BY DEF FrontInv, IdsSubmitted, StatesInv
  <1>2. ActiveInv'
    BY DEF FrontInv, ActiveInv, HasActive, Active
  <1> QED
    BY <1>1, <1>2 DEF FrontInv

LEMMA HorizonProperties ==
    /\ Horizon \in Nat /\ Horizon >= 1
    /\ \A t \in Timer \ {"none"} : Duration[t] \in Nat /\ Duration[t] < Horizon
  BY TimesAssumption DEF Horizon, Timer, Duration

LEMMA FrontInvInit == Init => FrontInv
  <1> SUFFICES ASSUME Init PROVE FrontInv
    OBVIOUS
  <1>1. Horizon \in Nat
    BY HorizonProperties
  <1>2. TypeOK
    BY <1>1, TimesAssumption, RequestsAssumption DEF Init, TypeOK, Timer
  <1>3. IdsSubmitted /\ StatesInv
    BY DEF Init, IdsSubmitted, StatesInv
  <1>4. ~HasActive
    BY DEF Init, HasActive
  <1> QED
    BY <1>2, <1>3, <1>4
       DEF Init, FrontInv, ActiveInv, TimerHasActive, ActiveIsTimed

LEMMA FrontInvEnqueue ==
    ASSUME FrontInv, NEW r \in Requests, enqueue_transaction(r)
    PROVE  FrontInv'
  <1> DEFINE n == Len(queue)
  <1>1. TypeOK /\ n \in Nat
    BY DEF FrontInv, TypeOK
  <1>2. /\ queue' \in Seq(Transaction) /\ Len(queue') = n + 1
        /\ \A i \in 1 .. n : queue'[i] = queue[i]
        /\ queue'[n + 1] = [load_transmission_data(Len(submitted) + 1, r)
                                EXCEPT !.state = "queued"]
    BY <1>1, EnqueueEffect
  <1>3. /\ queue'[n + 1].state = "queued" /\ queue'[n + 1].unsent
        /\ queue'[n + 1].rx = << >> /\ queue'[n + 1].failure = {}
        /\ queue'[n + 1].id = Len(submitted) + 1
    BY <1>2 DEF load_transmission_data
  <1>4. /\ submitted' = Append(submitted, r) /\ submitted \in Seq(Requests)
        /\ Len(submitted') = Len(submitted) + 1 /\ Len(submitted) \in Nat
        /\ Len(submitted) < MaxRequests
        /\ UNCHANGED << timer, elapsed, received, line, sends, settled, quiet >>
    BY <1>1 DEF enqueue_transaction, TypeOK
  <1>5. submitted' \in Seq(Requests) /\ Len(submitted') <= MaxRequests
    BY <1>4, RequestsAssumption
  <1>6. TypeOK'
    BY <1>1, <1>2, <1>4, <1>5 DEF TypeOK
  <1>7. IdsSubmitted'
    <2> SUFFICES ASSUME NEW i \in 1 .. n + 1
                 PROVE  queue'[i].id \in 1 .. Len(submitted) + 1
      BY <1>2, <1>4 DEF IdsSubmitted
    <2>1. CASE i <= n
      BY <1>1, <1>2, <1>4, <2>1 DEF FrontInv, IdsSubmitted
    <2>2. CASE i = n + 1
      BY <1>3, <1>4, <2>2
    <2> QED
      BY <1>1, <2>1, <2>2
  <1>8. StatesInv'
    <2> SUFFICES ASSUME NEW i \in 1 .. n + 1
                 PROVE  /\ queue'[i].state # "unused"
                        /\ queue'[i].state = "queued" =>
                               /\ queue'[i].unsent
                               /\ queue'[i].rx = << >>
                               /\ queue'[i].failure = {}
                        /\ i > 1 => queue'[i].state = "queued"
      BY <1>2 DEF StatesInv
    <2>1. CASE i <= n
      BY <1>1, <1>2, <2>1 DEF FrontInv, StatesInv
    <2>2. CASE i = n + 1
      BY <1>3, <2>2
    <2> QED
      BY <1>1, <2>1, <2>2
  <1>9. HasActive' <=> HasActive
    <2>1. CASE queue = << >>
      <3>1. n = 0
        BY <2>1
      <3>2. ~HasActive /\ queue'[1].state = "queued"
        BY <1>3, <2>1, <3>1 DEF HasActive
      <3> QED
        BY <1>2, <3>2, ActiveIsFirstPrime
    <2>2. CASE queue # << >>
      BY <1>1, <1>2, <2>2, ActiveIsFirst, ActiveIsFirstPrime DEF HasActive
    <2> QED
      BY <2>1, <2>2
  <1>10. HasActive => Active' = Active
    BY <1>1, <1>2, ActiveIsFirst, ActiveIsFirstPrime DEF HasActive
  <1>11. ActiveInv' /\ TimerHasActive' /\ ActiveIsTimed'
    BY <1>4, <1>9, <1>10
       DEF FrontInv, ActiveInv, TimerHasActive, ActiveIsTimed
  <1> QED
    BY <1>6, <1>7, <1>8, <1>11 DEF FrontInv

LEMMA FrontInvClaim ==
    ASSUME FrontInv, claim_response
    PROVE  FrontInv'
  <1>1. /\ TypeOK /\ queue # << >> /\ dequeue_transaction
        /\ Head(queue).state = "ready_to_process"
    BY DEF FrontInv, claim_response, is_response_ready
  <1>2. /\ Active = queue[1] /\ queue[1].state = "ready_to_process"
        /\ Len(queue) \in Nat /\ Len(queue) >= 1
    BY <1>1, ActiveIsFirst DEF Active, get_active_transaction
  <1>3. /\ queue' \in Seq(Transaction) /\ Len(queue') = Len(queue) - 1
        /\ \A i \in 1 .. Len(queue') : queue'[i] = queue[i + 1]
    BY <1>1, DequeueEffect
  <1>4. /\ UNCHANGED << timer, elapsed, received, line, submitted, sends, quiet >>
        /\ settled' \subseteq settled \cup {queue[1].id}
    BY <1>1, <1>2 DEF dequeue_transaction
  <1>5. queue[1].id \in RequestId
    BY <1>1, <1>2, RequestsAssumption
       DEF FrontInv, IdsSubmitted, TypeOK, RequestId
  <1>6. TypeOK'
    BY <1>1, <1>3, <1>4, <1>5 DEF TypeOK
  <1>7. IdsSubmitted' /\ StatesInv'
    <2>1. \A i \in 1 .. Len(queue') :
              i + 1 \in 2 .. Len(queue) /\ queue'[i] = queue[i + 1]
      BY <1>2, <1>3
    <2>2. IdsSubmitted'
      BY <1>2, <1>4, <2>1 DEF FrontInv, IdsSubmitted
    <2>3. \A j \in 2 .. Len(queue) :
              /\ queue[j].state = "queued" /\ queue[j].unsent
              /\ queue[j].rx = << >> /\ queue[j].failure = {}
      BY <1>2 DEF FrontInv, StatesInv
    <2>4. StatesInv'
      BY <2>1, <2>3 DEF StatesInv
    <2> QED
      BY <2>2, <2>4
  <1>8. ~HasActive' /\ ~HasActive
    <2>1. ~HasActive
      BY <1>2 DEF HasActive
    <2>2. queue' # << >> => queue'[1].state = "queued"
      BY <1>2, <1>3, ActiveIsFirstPrime DEF FrontInv, StatesInv
    <2> QED
      BY <1>3, <2>1, <2>2, ActiveIsFirstPrime
  <1>9. ActiveInv' /\ TimerHasActive' /\ ActiveIsTimed'
    BY <1>4, <1>8 DEF FrontInv, ActiveInv, TimerHasActive, ActiveIsTimed
  <1> QED
    BY <1>6, <1>7, <1>9 DEF FrontInv

LEMMA FrontInvConclude ==
    ASSUME FrontInv, Concluding
    PROVE  FrontInv'
  <1> DEFINE n == Len(queue)
  <1>1. /\ TypeOK /\ HasActive /\ queue # << >> /\ received' \in Seq(Byte)
        /\ line' = line
    BY ConcludingStep DEF FrontInv
  <1>2. PICK t : Concluded(Active, t) /\ conclude_transaction(t)
    BY ConcludingStep
  <1>3. /\ Active = queue[1] /\ queue[1] \in Transaction
        /\ n \in Nat /\ n >= 1
    BY <1>1, ActiveIsFirst
  <1>4. /\ queue' \in Seq(Transaction) /\ queue'[1] = t
        /\ needs_retry(t) =>
               /\ Len(queue') = n + 1
               /\ queue'[2] = [generate_retry(t) EXCEPT !.state = "queued"]
               /\ \A i \in 3 .. Len(queue') : queue'[i] = queue[i - 1]
        /\ ~needs_retry(t) =>
               /\ Len(queue') = n
               /\ \A i \in 2 .. Len(queue') : queue'[i] = queue[i]
    BY <1>1, <1>2, ConcludeEffect DEF Concluded
  <1>5. /\ timer' = "interframe_delay" /\ elapsed' = 0 /\ quiet' \in {quiet, 0}
        /\ UNCHANGED << submitted, sends, settled >>
    BY <1>2 DEF conclude_transaction, Start
  <1>6. TypeOK'
    <2>1. elapsed' \in 0 .. Horizon /\ quiet' \in 0 .. InterframeDelay + 1
      BY <1>1, <1>5, HorizonProperties, TimesAssumption DEF TypeOK
    <2>2. timer' \in Timer
      BY <1>5 DEF Timer
    <2> QED
      BY <1>1, <1>4, <1>5, <2>1, <2>2 DEF TypeOK
  <1>7. /\ t.state = "ready_to_process" /\ t.id = queue[1].id
        /\ t \in Transaction
    BY <1>2, <1>3 DEF Concluded
  <1>8. needs_retry(t) =>
            /\ queue'[2].state = "queued" /\ queue'[2].unsent
            /\ queue'[2].rx = << >> /\ queue'[2].failure = {}
            /\ queue'[2].id = t.id
    BY <1>4, <1>7 DEF generate_retry, Transaction
  <1>9. \A i \in 3 .. Len(queue') : needs_retry(t) =>
            i - 1 \in 2 .. n /\ queue'[i] = queue[i - 1]
    BY <1>3, <1>4
  <1>10. IdsSubmitted'
    <2>1. \A j \in 1 .. n : queue[j].id \in 1 .. Len(submitted)
      BY DEF IdsSubmitted, FrontInv
    <2> SUFFICES ASSUME NEW i \in 1 .. Len(queue')
                 PROVE  queue'[i].id \in 1 .. Len(submitted)
      BY <1>5 DEF IdsSubmitted
    <2>2. CASE i = 1
      BY <1>3, <1>4, <1>7, <2>1, <2>2
    <2>3. CASE i > 1 /\ needs_retry(t)
      <3>1. i = 2 \/ i \in 3 .. Len(queue')
        BY <1>3, <1>4, <2>3
      <3>2. CASE i = 2
        BY <1>3, <1>7, <1>8, <2>1, <2>3, <3>2
      <3>3. CASE i \in 3 .. Len(queue')
        BY <1>9, <2>1, <2>3, <3>3
      <3> QED
        BY <3>1, <3>2, <3>3
    <2>4. CASE i > 1 /\ ~needs_retry(t)
      BY <1>3, <1>4, <2>1, <2>4
    <2> QED
      BY <1>3, <1>4, <2>2, <2>3, <2>4
  <1>11. StatesInv'
    <2> SUFFICES ASSUME NEW i \in 1 .. Len(queue')
                 PROVE  /\ queue'[i].state # "unused"
                        /\ queue'[i].state = "queued" =>
                               /\ queue'[i].unsent
                               /\ queue'[i].rx = << >>
                               /\ queue'[i].failure = {}
                        /\ i > 1 => queue'[i].state = "queued"
      BY DEF StatesInv
    <2>1. CASE i = 1
      BY <1>4, <1>7, <2>1
    <2>2. CASE i > 1 /\ needs_retry(t)
      <3>1. \A j \in 2 .. n :
                /\ queue[j].state = "queued" /\ queue[j].unsent
                /\ queue[j].rx = << >> /\ queue[j].failure = {}
        BY DEF FrontInv, StatesInv
      <3>2. i = 2 \/ i \in 3 .. Len(queue')
        BY <1>4, <2>2
      <3> QED
        BY <1>8, <1>9, <2>2, <3>1, <3>2
    <2>3. CASE i > 1 /\ ~needs_retry(t)
      BY <1>4, <2>3 DEF FrontInv, StatesInv
    <2> QED
      BY <1>4, <2>1, <2>2, <2>3
  <1>12. ~HasActive'
    BY <1>4, <1>7, ActiveIsFirstPrime
  <1> QED
    BY <1>5, <1>6, <1>10, <1>11, <1>12
       DEF FrontInv, ActiveInv, TimerHasActive, ActiveIsTimed


LEMMA FrontInvSend ==
    ASSUME FrontInv, send_front_message
    PROVE  FrontInv'
  <1> DEFINE n == Len(queue)
  <1>1. TypeOK /\ queue # << >> /\ n \in Nat /\ n >= 1
    BY SendEffect, ActiveIsFirst DEF FrontInv
  <1>2. /\ queue[1] \in Transaction
        /\ queue' \in Seq(Transaction) /\ Len(queue') = n
        /\ queue'[1] = [queue[1] EXCEPT !.unsent = FALSE, !.state = "sent"]
        /\ \A i \in 2 .. n : queue'[i] = queue[i]
    BY SendEffect
  <1>3. /\ timer' = IF queue[1].broadcast THEN "turnaround_delay"
                    ELSE "response_timeout"
        /\ elapsed' = 0 /\ received' = << >> /\ line' \in Seq(Byte)
        /\ sends' = [sends EXCEPT ![queue[1].id] = @ + 1]
        /\ UNCHANGED << submitted, settled, quiet >>
        /\ queue[1].state = "queued"
    BY SendEffect
  <1>4. /\ queue'[1].id = queue[1].id /\ queue'[1].state = "sent"
        /\ queue'[1].rx = queue[1].rx /\ queue'[1].failure = queue[1].failure
        /\ queue'[1].broadcast = queue[1].broadcast
    BY <1>2 DEF Transaction
  <1>5. TypeOK'
    <2>1. queue[1].id \in RequestId
      BY <1>1, RequestsAssumption
         DEF FrontInv, IdsSubmitted, TypeOK, RequestId
    <2>2. sends' \in [RequestId -> Nat]
      BY <1>1, <1>3, <2>1 DEF TypeOK
    <2>3. elapsed' \in 0 .. Horizon /\ timer' \in Timer
      BY <1>3, HorizonProperties DEF Timer
    <2>4. received' \in Seq(Byte)
      BY <1>3
    <2> QED
      BY <1>1, <1>2, <1>3, <2>2, <2>3, <2>4 DEF TypeOK
  <1>6. IdsSubmitted'
    <2> SUFFICES ASSUME NEW i \in 1 .. n
                 PROVE  queue'[i].id \in 1 .. Len(submitted)
      BY <1>2, <1>3 DEF IdsSubmitted
    <2>1. queue'[i].id = queue[i].id
      <3>1. CASE i = 1
        BY <1>4, <3>1
      <3>2. CASE i > 1
        BY <1>2, <3>2
      <3> QED
        BY <3>1, <3>2
    <2> QED
      BY <2>1 DEF FrontInv, IdsSubmitted
  <1>7. StatesInv'
    <2> SUFFICES ASSUME NEW i \in 1 .. n
                 PROVE  /\ queue'[i].state # "unused"
                        /\ queue'[i].state = "queued" =>
                               /\ queue'[i].unsent
                               /\ queue'[i].rx = << >>
                               /\ queue'[i].failure = {}
                        /\ i > 1 => queue'[i].state = "queued"
      BY <1>2 DEF StatesInv
    <2>1. CASE i = 1
      BY <1>4, <2>1
    <2>2. CASE i > 1
      BY <1>2, <2>2 DEF FrontInv, StatesInv
    <2> QED
      BY <2>1, <2>2
  <1>8. Active' = queue'[1]
    BY <1>1, <1>2, ActiveIsFirstPrime
  <1>9. queue[1].rx = << >> /\ queue[1].failure = {}
    BY <1>1, <1>3 DEF FrontInv, StatesInv
  <1>10. HasActive'
    BY <1>1, <1>2, <1>4, ActiveIsFirstPrime
  <1>11. ActiveInv' /\ TimerHasActive' /\ ActiveIsTimed'
    BY <1>3, <1>4, <1>8, <1>9, <1>10
       DEF ActiveInv, TimerHasActive, ActiveIsTimed
  <1> QED
    BY <1>5, <1>6, <1>7, <1>11 DEF FrontInv

LEMMA FrontInvPart ==
    ASSUME FrontInv, receive_part
    PROVE  FrontInv'
  <1> DEFINE n == Len(queue)
  <1>1. /\ TypeOK /\ queue # << >> /\ n \in Nat /\ n >= 1
        /\ received \in Seq(Byte)
        /\ Active = queue[1] /\ queue[1] \in Transaction
    BY PartEffect, ActiveIsFirst DEF FrontInv, TypeOK
  <1>2. /\ HasActive /\ queue[1].state = "sent"
        /\ queue' \in Seq(Transaction) /\ Len(queue') = n
        /\ queue'[1] = load_reception(queue[1], received)
        /\ ~received_expected_number_of_bytes(queue'[1])
        /\ \A i \in 2 .. n : queue'[i] = queue[i]
    BY PartEffect
  <1>3. /\ timer' = "interchar_timeout" /\ elapsed' = 0
        /\ received' = << >> /\ line' = line
        /\ UNCHANGED << submitted, sends, settled, quiet >>
    BY PartEffect DEF receive_part, historyVars
  <1>4. /\ queue'[1].id = queue[1].id /\ queue'[1].state = "sent"
        /\ queue'[1].failure = queue[1].failure
    BY <1>1, <1>2 DEF load_reception, Transaction
  <1>5. TypeOK'
    <2>1. elapsed' \in 0 .. Horizon /\ timer' \in Timer
      BY <1>3, HorizonProperties DEF Timer
    <2>2. received' \in Seq(Byte)
      BY <1>3
    <2> QED
      BY <1>1, <1>2, <1>3, <2>1, <2>2 DEF TypeOK
  <1>6. IdsSubmitted'
    <2> SUFFICES ASSUME NEW i \in 1 .. n
                 PROVE  queue'[i].id \in 1 .. Len(submitted)
      BY <1>2, <1>3 DEF IdsSubmitted
    <2>1. queue'[i].id = queue[i].id
      BY <1>1, <1>2, <1>4
    <2> QED
      BY <2>1 DEF FrontInv, IdsSubmitted
  <1>7. StatesInv'
    <2> SUFFICES ASSUME NEW i \in 1 .. n
                 PROVE  /\ queue'[i].state # "unused"
                        /\ queue'[i].state = "queued" =>
                               /\ queue'[i].unsent
                               /\ queue'[i].rx = << >>
                               /\ queue'[i].failure = {}
                        /\ i > 1 => queue'[i].state = "queued"
      BY <1>2 DEF StatesInv
    <2>1. CASE i = 1
      BY <1>4, <2>1
    <2>2. CASE i > 1
      BY <1>2, <2>2 DEF FrontInv, StatesInv
    <2> QED
      BY <2>1, <2>2
  <1>8. Active' = queue'[1]
    BY <1>1, <1>2, ActiveIsFirstPrime
  <1>9. queue[1].failure = {}
    BY <1>1, <1>2 DEF FrontInv, ActiveInv
  <1>10. HasActive'
    BY <1>1, <1>2, <1>4, ActiveIsFirstPrime
  <1>11. ActiveInv' /\ TimerHasActive' /\ ActiveIsTimed'
    BY <1>2, <1>3, <1>4, <1>8, <1>9, <1>10
       DEF ActiveInv, TimerHasActive, ActiveIsTimed
  <1> QED
    BY <1>5, <1>6, <1>7, <1>11 DEF FrontInv

\* The steps that leave the queue alone or empty it.
LEMMA FrontInvOther ==
    ASSUME FrontInv,
           \/ Tick \/ Arrive \/ reset_state \/ turnaround_delay
           \/ run_out_idle \/ UNCHANGED vars
    PROVE  FrontInv'
  <1>1. TypeOK /\ TimerHasActive /\ ActiveIsTimed
    BY DEF FrontInv
  <1>2. CASE Tick
    <2>1. elapsed' \in 0 .. Horizon /\ quiet' \in 0 .. InterframeDelay + 1
      BY <1>1, <1>2, HorizonProperties, TimesAssumption DEF Tick, TypeOK
    <2>2. UNCHANGED << queue, timer, received, line, submitted, sends, settled >>
      BY <1>2 DEF Tick
    <2>3. TypeOK'
      BY <1>1, <2>1, <2>2 DEF TypeOK
    <2> QED
      BY <1>1, <2>2, <2>3, FrontUnchanged
         DEF TimerHasActive, ActiveIsTimed, HasActive, Active
  <1>3. CASE Arrive
    <2>1. /\ UNCHANGED << queue, timer, elapsed, submitted, sends, settled, quiet >>
          /\ line # << >> /\ line' = Tail(line)
          /\ received' = Append(received, Head(line))
      BY <1>3 DEF Arrive, historyVars
    <2>2. received' \in Seq(Byte) /\ line' \in Seq(Byte)
      BY <1>1, <2>1, HeadTailProperties, AppendProperties DEF TypeOK
    <2>3. TypeOK'
      BY <1>1, <2>1, <2>2 DEF TypeOK
    <2> QED
      BY <1>1, <2>1, <2>3, FrontUnchanged
         DEF TimerHasActive, ActiveIsTimed, HasActive, Active
  <1>4. CASE reset_state
    <2>1. /\ queue' = << >> /\ timer' = "interframe_delay" /\ elapsed' = 0
          /\ UNCHANGED << received, line, submitted, sends, settled, quiet >>
      BY <1>4 DEF reset_state, Start, historyVars
    <2>2. elapsed' \in 0 .. Horizon /\ timer' \in Timer
      BY <2>1, HorizonProperties DEF Timer
    <2>3. queue' \in Seq(Transaction)
      BY <2>1
    <2>4. TypeOK'
      BY <1>1, <2>1, <2>2, <2>3 DEF TypeOK
    <2>5. IdsSubmitted' /\ StatesInv'
      BY <2>1 DEF IdsSubmitted, StatesInv
    <2>6. ~HasActive'
      BY <2>1 DEF HasActive
    <2> QED
      BY <2>1, <2>4, <2>5, <2>6
         DEF FrontInv, ActiveInv, TimerHasActive, ActiveIsTimed
  <1>5. CASE turnaround_delay
    <2>1. /\ timer = "turnaround_delay"
          /\ timer' = "interframe_delay" /\ elapsed' = 0
          /\ UNCHANGED << queue, received, line, submitted, sends, settled, quiet >>
      BY <1>5 DEF turnaround_delay, has_timer_expired, Start, historyVars
    <2>2. elapsed' \in 0 .. Horizon /\ timer' \in Timer
      BY <2>1, HorizonProperties DEF Timer
    <2>3. TypeOK'
      BY <1>1, <2>1, <2>2 DEF TypeOK
    <2> QED
      BY <1>1, <2>1, <2>3, FrontUnchanged
         DEF TimerHasActive, ActiveIsTimed, HasActive, Active
  <1>6. CASE run_out_idle
    <2>1. /\ timer \in {"none", "interframe_delay"}
          /\ timer' = "none" /\ elapsed' = 0
          /\ received' = << >> \/ received' = received
          /\ UNCHANGED << queue, line, submitted, sends, settled, quiet >>
      BY <1>6 DEF run_out_idle, MayTransmit, has_timer_expired, historyVars
    <2>2. elapsed' \in 0 .. Horizon /\ timer' \in Timer
      BY <2>1, HorizonProperties DEF Timer
    <2>3. received' \in Seq(Byte)
      <3>1. received \in Seq(Byte) /\ << >> \in Seq(Byte)
        BY <1>1 DEF TypeOK
      <3> QED
        BY <2>1, <3>1
    <2>4. TypeOK'
      BY <1>1, <2>1, <2>2, <2>3 DEF TypeOK
    <2> QED
      BY <1>1, <2>1, <2>4, FrontUnchanged
         DEF TimerHasActive, ActiveIsTimed, HasActive, Active
  <1>7. CASE UNCHANGED vars
    <2>1. TypeOK'
      BY <1>1, <1>7 DEF TypeOK, vars
    <2> QED
      BY <1>1, <1>7, <2>1, FrontUnchanged
         DEF TimerHasActive, ActiveIsTimed, HasActive, Active, vars
  <1> QED
    BY <1>2, <1>3, <1>4, <1>5, <1>6, <1>7

\* Next by what a step does to the queue.
LEMMA NextCases ==
    ASSUME [Next]_vars
    PROVE  \/ \E r \in Requests : enqueue_transaction(r)
           \/ claim_response
           \/ Concluding
           \/ receive_part
           \/ send_front_message /\ (BlockingCalls \/ MayTransmit)
           \/ Tick \/ Arrive \/ reset_state \/ turnaround_delay
           \/ run_out_idle \/ UNCHANGED vars
  BY DEF Next, run_in, run_out, run_out_send, send_blocking, Concluding

LEMMA FrontInvNext == FrontInv /\ [Next]_vars => FrontInv'
  BY NextCases, FrontInvEnqueue, FrontInvClaim, FrontInvConclude, FrontInvPart,
     FrontInvSend, FrontInvOther

\* The queue, the timer, the serial buffers and the histories keep their types;
\* every transaction in the queue belongs to a submitted request, only the
\* front one is under way, and the timer agrees with its state.
THEOREM FrontInvariant == Spec => []FrontInv
  BY FrontInvInit, FrontInvNext, PTL DEF Spec

THEOREM TypeCorrect == Spec => []TypeOK
  <1>1. FrontInv => TypeOK
    BY DEF FrontInv
  <1> QED
    BY <1>1, FrontInvariant, PTL

\* Whenever run_in acts on an expired response or intercharacter timer there
\* is an active transaction for get_active_transaction to return.
THEOREM TimerAlwaysHasActive == Spec => []TimerHasActive
  <1>1. FrontInv => TimerHasActive
    BY DEF FrontInv
  <1> QED
    BY <1>1, FrontInvariant, PTL

\* No request waits for an answer without a timer that ends the wait.
THEOREM ActiveAlwaysTimed == Spec => []ActiveIsTimed
  <1>1. FrontInv => ActiveIsTimed
    BY DEF FrontInv
  <1> QED
    BY <1>1, FrontInvariant, PTL

\* No operation touches a transaction behind the front.
THEOREM OnlyFrontEverProgresses == Spec => []OnlyFrontProgresses
  <1>1. FrontInv => OnlyFrontProgresses
    <2>1. TypeOK => Len(queue) \in Nat
      BY DEF TypeOK
    <2> QED
      BY <2>1 DEF FrontInv, StatesInv, OnlyFrontProgresses
  <1> QED
    BY <1>1, FrontInvariant, PTL


-----------------------------------------------------------------------------
(* The inductive invariant, second part: attempts and their order.         *)

\* What a transaction in the queue says of its request: how often that was
\* sent, that it may still be sent, and that it has not succeeded.
AttemptInv ==
    \A i \in 1 .. Len(queue) :
        /\ queue[i].retries <= MaxRetries
        /\ queue[i].retries > 0 => queue[i].important
        /\ queue[i].important => submitted[queue[i].id].important
        /\ sends[queue[i].id] = IF queue[i].state = "queued"
                                THEN queue[i].retries ELSE queue[i].retries + 1
        /\ queue[i].id \notin settled

\* Only the retry of a failed front shares its request with another.
OrderInv ==
    \A i, j \in 1 .. Len(queue) : i < j =>
        \/ queue[i].id < queue[j].id
        \/ /\ i = 1 /\ j = 2 /\ queue[1].id = queue[2].id
           /\ queue[1].state = "ready_to_process" /\ needs_retry(queue[1])

HistoryInv ==
    /\ \A r \in RequestId : r > Len(submitted) => sends[r] = 0
    /\ settled \subseteq 1 .. Len(submitted)

\* RetryFollowsFailure by place.
RetryInv ==
    Len(queue) >= 1 /\ queue[1].state = "ready_to_process"
            /\ needs_retry(queue[1]) =>
        /\ Len(queue) >= 2
        /\ queue[2].id = queue[1].id
        /\ queue[2].retries = queue[1].retries + 1
        /\ queue[2].length = queue[1].length /\ queue[2].important

RequestInv ==
    /\ AttemptInv /\ OrderInv /\ HistoryInv /\ RetryInv
    /\ SendBudget /\ ServedInOrder

LEMMA RequestInvInit == Init => RequestInv
  BY DEF Init, RequestInv, AttemptInv, OrderInv, HistoryInv, RetryInv,
         SendBudget, ServedInOrder

LEMMA RequestInvEnqueue ==
    ASSUME FrontInv, RequestInv, NEW r \in Requests, enqueue_transaction(r)
    PROVE  RequestInv'
  <1> DEFINE n == Len(queue)
             m == Len(submitted)
  <1>1. TypeOK /\ n \in Nat /\ m \in Nat /\ IdsSubmitted
    BY DEF FrontInv, TypeOK
  <1>2. /\ queue' \in Seq(Transaction) /\ Len(queue') = n + 1
        /\ \A i \in 1 .. n : queue'[i] = queue[i]
        /\ queue'[n + 1] = [load_transmission_data(m + 1, r)
                                EXCEPT !.state = "queued"]
    BY <1>1, EnqueueEffect
  <1>3. /\ queue'[n + 1].state = "queued" /\ queue'[n + 1].retries = 0
        /\ queue'[n + 1].important = r.important
        /\ queue'[n + 1].id = m + 1
    BY <1>2 DEF load_transmission_data
  <1>4. /\ submitted' = Append(submitted, r) /\ submitted \in Seq(Requests)
        /\ m < MaxRequests /\ UNCHANGED << sends, settled >>
    BY <1>1 DEF enqueue_transaction, TypeOK
  <1>5. /\ Len(submitted') = m + 1
        /\ \A k \in 1 .. m : submitted'[k] = submitted[k]
        /\ submitted'[m + 1] = r
    BY <1>4, AppendProperties
  <1>6. m + 1 \in RequestId /\ sends[m + 1] = 0 /\ m + 1 \notin settled
    BY <1>1, <1>4, RequestsAssumption DEF RequestId, RequestInv, HistoryInv
  <1>7. \A i \in 1 .. n : queue[i].id \in 1 .. m /\ queue'[i] = queue[i]
    BY <1>1, <1>2 DEF IdsSubmitted
  <1>8. AttemptInv'
    <2> SUFFICES ASSUME NEW i \in 1 .. n + 1
                 PROVE  /\ queue'[i].retries <= MaxRetries
                        /\ queue'[i].retries > 0 => queue'[i].important
                        /\ queue'[i].important =>
                               submitted'[queue'[i].id].important
                        /\ sends[queue'[i].id] =
                               IF queue'[i].state = "queued"
                               THEN queue'[i].retries
                               ELSE queue'[i].retries + 1
                        /\ queue'[i].id \notin settled
      BY <1>2, <1>4 DEF AttemptInv
    <2>1. CASE i <= n
      <3>1. i \in 1 .. n /\ queue'[i] = queue[i]
        BY <1>1, <1>2, <2>1
      <3>2. submitted'[queue[i].id] = submitted[queue[i].id]
        BY <1>5, <1>7, <3>1
      <3> QED
        BY <3>1, <3>2 DEF RequestInv, AttemptInv
    <2>2. CASE i = n + 1
      BY <1>3, <1>5, <1>6, <2>2, RetryAssumption
    <2> QED
      BY <1>1, <2>1, <2>2
  <1>9. OrderInv'
    <2> SUFFICES ASSUME NEW i \in 1 .. n + 1, NEW j \in 1 .. n + 1, i < j
                 PROVE  \/ queue'[i].id < queue'[j].id
                        \/ /\ i = 1 /\ j = 2 /\ queue'[1].id = queue'[2].id
                           /\ queue'[1].state = "ready_to_process"
                           /\ needs_retry(queue'[1])
      BY <1>2 DEF OrderInv
    <2>1. CASE j <= n
      <3>1. /\ i \in 1 .. n /\ j \in 1 .. n /\ 1 \in 1 .. n
            /\ queue'[i] = queue[i] /\ queue'[j] = queue[j]
            /\ queue'[1] = queue[1]
        BY <1>1, <1>2, <2>1
      <3> QED
        BY <3>1 DEF RequestInv, OrderInv
    <2>2. CASE j = n + 1
      <3>1. i \in 1 .. n
        BY <1>1, <2>2
      <3> QED
        BY <1>1, <1>3, <1>7, <2>2, <3>1
    <2> QED
      BY <1>1, <2>1, <2>2
  <1>10. HistoryInv'
    <2>1. \A k \in RequestId : k > m + 1 => sends[k] = 0
      BY <1>1 DEF RequestInv, HistoryInv, RequestId
    <2>2. settled \subseteq 1 .. m + 1
      BY <1>1 DEF RequestInv, HistoryInv
    <2> QED
      BY <1>4, <1>5, <2>1, <2>2 DEF HistoryInv
  <1>11. RetryInv'
    <2>1. CASE n = 0
      <3>1. n + 1 = 1
        BY <2>1
      <3>2. queue'[1].state = "queued"
        BY <1>3, <3>1
      <3> QED
        BY <3>2 DEF RetryInv
    <2>2. CASE n >= 1
      <3>1. queue'[1] = queue[1] /\ (n >= 2 => queue'[2] = queue[2])
        BY <1>1, <1>2, <2>2
      <3> QED
        BY <1>1, <1>2, <2>2, <3>1 DEF RequestInv, RetryInv
    <2> QED
      BY <1>1, <2>1, <2>2
  <1>12. SendBudget'
    <2> SUFFICES ASSUME NEW k \in 1 .. m + 1
                 PROVE  sends[k] <= IF submitted'[k].important
                                    THEN MaxRetries + 1 ELSE 1
      BY <1>4, <1>5 DEF SendBudget
    <2>1. CASE k <= m
      BY <1>1, <1>5, <2>1 DEF RequestInv, SendBudget
    <2>2. CASE k = m + 1
      BY <1>6, <2>2, RetryAssumption
    <2> QED
      BY <1>1, <2>1, <2>2
  <1>13. ServedInOrder'
    <2> SUFFICES ASSUME NEW i \in 1 .. n + 1, NEW k \in RequestId,
                        k > queue'[i].id
                 PROVE  sends[k] = 0
      BY <1>2, <1>4 DEF ServedInOrder
    <2>1. CASE i <= n
      BY <1>1, <1>2, <2>1 DEF RequestInv, ServedInOrder
    <2>2. CASE i = n + 1
      BY <1>1, <1>3, <2>2 DEF RequestInv, HistoryInv, RequestId
    <2> QED
      BY <1>1, <2>1, <2>2
  <1> QED
    BY <1>8, <1>9, <1>10, <1>11, <1>12, <1>13 DEF RequestInv

LEMMA RequestInvClaim ==
    ASSUME FrontInv, RequestInv, claim_response
    PROVE  RequestInv'
  <1> DEFINE n == Len(queue)
  <1>1. /\ TypeOK /\ queue # << >> /\ dequeue_transaction
        /\ Head(queue).state = "ready_to_process"
    BY DEF FrontInv, claim_response, is_response_ready
  <1>2. /\ Active = queue[1] /\ queue[1].state = "ready_to_process"
        /\ n \in Nat /\ n >= 1 /\ queue[1] \in Transaction
    BY <1>1, ActiveIsFirst DEF Active, get_active_transaction
  <1>3. /\ queue' \in Seq(Transaction) /\ Len(queue') = n - 1
        /\ \A i \in 1 .. n - 1 : queue'[i] = queue[i + 1]
    BY <1>1, DequeueEffect
  <1>4. /\ UNCHANGED << submitted, sends >>
        /\ settled' = IF Succeeded(queue[1])
                      THEN settled \cup {queue[1].id} ELSE settled
    BY <1>1, <1>2 DEF dequeue_transaction
  <1>5. \A i \in 1 .. n : queue[i].id \in 1 .. Len(submitted)
    BY DEF FrontInv, IdsSubmitted
  <1>6. \A i \in 2 .. n : queue[i].id \notin settled'
    <2>1. \A i \in 2 .. n : queue[i].id \notin settled
      BY DEF RequestInv, AttemptInv
    <2>2. ASSUME NEW i \in 2 .. n, Succeeded(queue[1])
          PROVE  queue[i].id # queue[1].id
      <3>1. ~needs_retry(queue[1])
        BY <2>2 DEF needs_retry
      <3>2. queue[1].id < queue[i].id
        BY <1>2, <3>1 DEF RequestInv, OrderInv
      <3> QED
        BY <1>2, <1>5, <3>2
    <2> QED
      BY <1>4, <2>1, <2>2
  <1>7. \A i \in 1 .. n - 1 : i + 1 \in 2 .. n /\ queue'[i] = queue[i + 1]
    BY <1>2, <1>3
  <1>8. AttemptInv'
    <2> SUFFICES ASSUME NEW i \in 1 .. n - 1
                 PROVE  /\ queue'[i].retries <= MaxRetries
                        /\ queue'[i].retries > 0 => queue'[i].important
                        /\ queue'[i].important =>
                               submitted[queue'[i].id].important
                        /\ sends[queue'[i].id] =
                               IF queue'[i].state = "queued"
                               THEN queue'[i].retries
                               ELSE queue'[i].retries + 1
                        /\ queue'[i].id \notin settled'
      BY <1>3, <1>4 DEF AttemptInv
    <2>1. i + 1 \in 1 .. n /\ i + 1 \in 2 .. n /\ queue'[i] = queue[i + 1]
      BY <1>2, <1>7
    <2> QED
      BY <1>6, <2>1 DEF RequestInv, AttemptInv
  <1>9. OrderInv'
    <2> SUFFICES ASSUME NEW i \in 1 .. n - 1, NEW j \in 1 .. n - 1, i < j
                 PROVE  queue'[i].id < queue'[j].id
      BY <1>3 DEF OrderInv
    <2>1. /\ i + 1 \in 1 .. n /\ j + 1 \in 1 .. n /\ i + 1 < j + 1
          /\ i + 1 # 1
          /\ queue'[i] = queue[i + 1] /\ queue'[j] = queue[j + 1]
      BY <1>2, <1>7
    <2> QED
      BY <2>1 DEF RequestInv, OrderInv
  <1>10. HistoryInv'
    <2>1. 1 \in 1 .. n /\ queue[1].id \in 1 .. Len(submitted)
      BY <1>2, <1>5
    <2>2. settled' \subseteq 1 .. Len(submitted)
      BY <1>4, <2>1 DEF RequestInv, HistoryInv
    <2> QED
      BY <1>4, <2>2 DEF RequestInv, HistoryInv
  <1>11. RetryInv'
    <2>1. n - 1 >= 1 => queue'[1].state = "queued"
      BY <1>2, <1>7 DEF FrontInv, StatesInv
    <2> QED
      BY <1>3, <2>1 DEF RetryInv
  <1>12. SendBudget'
    BY <1>4 DEF RequestInv, SendBudget
  <1>13. ServedInOrder'
    <2> SUFFICES ASSUME NEW i \in 1 .. n - 1, NEW k \in RequestId,
                        k > queue'[i].id
                 PROVE  sends[k] = 0
      BY <1>3, <1>4 DEF ServedInOrder
    <2>1. i + 1 \in 1 .. n /\ queue'[i] = queue[i + 1]
      BY <1>2, <1>7
    <2> QED
      BY <2>1 DEF RequestInv, ServedInOrder
  <1> QED
    BY <1>8, <1>9, <1>10, <1>11, <1>12, <1>13 DEF RequestInv

LEMMA RequestInvConclude ==
    ASSUME FrontInv, RequestInv, Concluding
    PROVE  RequestInv'
  <1> DEFINE n == Len(queue)
             a == queue[1]
  <1>1. TypeOK /\ HasActive /\ queue # << >>
    BY ConcludingStep DEF FrontInv
  <1>2. PICK t : Concluded(Active, t) /\ conclude_transaction(t)
    BY ConcludingStep
  <1>3. /\ Active = a /\ a \in Transaction /\ a.state = "sent"
        /\ n \in Nat /\ n >= 1 /\ 1 \in 1 .. n
    BY <1>1, ActiveIsFirst DEF HasActive
  <1>4. /\ queue' \in Seq(Transaction) /\ queue'[1] = t
        /\ needs_retry(t) =>
               /\ Len(queue') = n + 1
               /\ queue'[2] = [generate_retry(t) EXCEPT !.state = "queued"]
               /\ \A i \in 3 .. Len(queue') : queue'[i] = queue[i - 1]
        /\ ~needs_retry(t) =>
               /\ Len(queue') = n
               /\ \A i \in 2 .. Len(queue') : queue'[i] = queue[i]
    BY <1>1, <1>2, ConcludeEffect DEF Concluded
  <1>5. UNCHANGED << submitted, sends, settled >>
    BY <1>2 DEF conclude_transaction
  <1>6. /\ t \in Transaction /\ t.state = "ready_to_process" /\ t.id = a.id
        /\ t.important = a.important /\ t.retries = a.retries
    BY <1>2, <1>3 DEF Concluded
  <1>7. needs_retry(t) =>
            /\ t.important /\ t.retries < MaxRetries
            /\ queue'[2].id = t.id /\ queue'[2].retries = t.retries + 1
            /\ queue'[2].important /\ queue'[2].state = "queued"
            /\ queue'[2].length = t.length
    BY <1>4, <1>6 DEF needs_retry, generate_retry, Transaction
  <1>8. /\ t.retries \in Nat /\ t.id \in Nat /\ MaxRetries \in Nat
        /\ sends[t.id] = t.retries + 1 /\ t.id \notin settled
        /\ t.retries <= MaxRetries /\ (t.retries > 0 => t.important)
        /\ (t.important => submitted[t.id].important)
    BY <1>3, <1>6, RetryAssumption DEF RequestInv, AttemptInv, Transaction
  \* where the transactions behind the front and its retry come from
  <1>9. \A i \in 1 .. Len(queue') :
            \/ i = 1
            \/ i = 2 /\ needs_retry(t)
            \/ \E k \in 2 .. n : /\ queue'[i] = queue[k]
                                 /\ k = IF needs_retry(t) THEN i - 1 ELSE i
    BY <1>3, <1>4
  <1>10. \A i, j \in 1 .. n : i < j => queue[i].id < queue[j].id
    BY <1>3 DEF RequestInv, OrderInv
  <1>11. AttemptInv'
    <2> SUFFICES ASSUME NEW i \in 1 .. Len(queue')
                 PROVE  /\ queue'[i].retries <= MaxRetries
                        /\ queue'[i].retries > 0 => queue'[i].important
                        /\ queue'[i].important =>
                               submitted[queue'[i].id].important
                        /\ sends[queue'[i].id] =
                               IF queue'[i].state = "queued"
                               THEN queue'[i].retries
                               ELSE queue'[i].retries + 1
                        /\ queue'[i].id \notin settled
      BY <1>5 DEF AttemptInv
    <2>1. CASE i = 1
      BY <1>4, <1>6, <1>8, <2>1
    <2>2. CASE i = 2 /\ needs_retry(t)
      BY <1>7, <1>8, <2>2
    <2>3. CASE \E k \in 2 .. n : queue'[i] = queue[k]
      BY <2>3 DEF RequestInv, AttemptInv
    <2> QED
      BY <1>9, <2>1, <2>2, <2>3
  <1>12. OrderInv'
    <2> SUFFICES ASSUME NEW i \in 1 .. Len(queue'), NEW j \in 1 .. Len(queue'),
                        i < j
                 PROVE  \/ queue'[i].id < queue'[j].id
                        \/ /\ i = 1 /\ j = 2 /\ queue'[1].id = queue'[2].id
                           /\ queue'[1].state = "ready_to_process"
                           /\ needs_retry(queue'[1])
      BY DEF OrderInv
    <2>1. CASE j = 2 /\ needs_retry(t)
      BY <1>4, <1>6, <1>7, <2>1
    <2>2. CASE ~(j = 2 /\ needs_retry(t))
      <3>1. PICK l \in 2 .. n : /\ queue'[j] = queue[l]
                                /\ l = IF needs_retry(t) THEN j - 1 ELSE j
        BY <1>9, <2>2
      <3>2. CASE i = 1 \/ (i = 2 /\ needs_retry(t))
        <4>1. queue'[i].id = queue[1].id
          BY <1>4, <1>6, <1>7, <3>2
        <4>2. queue[1].id < queue[l].id
          BY <1>3, <1>10, <3>1
        <4> QED
          BY <3>1, <4>1, <4>2
      <3>3. CASE ~(i = 1 \/ (i = 2 /\ needs_retry(t)))
        <4>1. PICK k \in 2 .. n : /\ queue'[i] = queue[k]
                                  /\ k = IF needs_retry(t) THEN i - 1 ELSE i
          BY <1>9, <3>3
        <4>2. k \in 1 .. n /\ l \in 1 .. n /\ k < l
          BY <3>1, <4>1
        <4>3. queue[k].id < queue[l].id
          BY <1>10, <4>2
        <4> QED
          BY <3>1, <4>1, <4>3
      <3> QED
        BY <3>2, <3>3
    <2> QED
      BY <2>1, <2>2
  <1>13. HistoryInv' /\ SendBudget'
    BY <1>5 DEF RequestInv, HistoryInv, SendBudget
  <1>14. RetryInv'
    <2>1. needs_retry(t) => Len(queue') >= 2
      BY <1>3, <1>4
    <2> QED
      BY <1>4, <1>7, <2>1 DEF RetryInv
  <1>15. ServedInOrder'
    <2> SUFFICES ASSUME NEW i \in 1 .. Len(queue'), NEW r \in RequestId,
                        r > queue'[i].id
                 PROVE  sends[r] = 0
      BY <1>5 DEF ServedInOrder
    <2>1. \E k \in 1 .. n : queue'[i].id = queue[k].id
      <3>1. CASE i = 1 \/ (i = 2 /\ needs_retry(t))
        BY <1>3, <1>4, <1>6, <1>7, <3>1
      <3>2. CASE \E k \in 2 .. n : queue'[i] = queue[k]
        BY <3>2
      <3> QED
        BY <1>9, <3>1, <3>2
    <2> QED
      BY <2>1 DEF RequestInv, ServedInOrder
  <1> QED
    BY <1>11, <1>12, <1>13, <1>14, <1>15 DEF RequestInv

LEMMA RequestInvSend ==
    ASSUME FrontInv, RequestInv, send_front_message
    PROVE  RequestInv'
  <1> DEFINE n == Len(queue)
             a == queue[1]
  <1>1. TypeOK /\ n \in Nat /\ n >= 1 /\ 1 \in 1 .. n
    BY SendEffect, ActiveIsFirst DEF FrontInv
  <1>2. /\ a \in Transaction /\ a.state = "queued"
        /\ Len(queue') = n
        /\ queue'[1] = [a EXCEPT !.unsent = FALSE, !.state = "sent"]
        /\ \A i \in 2 .. n : queue'[i] = queue[i]
        /\ sends' = [sends EXCEPT ![a.id] = @ + 1]
        /\ UNCHANGED << submitted, settled >>
    BY SendEffect
  <1>3. /\ queue'[1].id = a.id /\ queue'[1].state = "sent"
        /\ queue'[1].retries = a.retries /\ queue'[1].important = a.important
        /\ a.retries \in Nat /\ a.id \in Nat
    BY <1>2 DEF Transaction
  <1>4. /\ a.id \in RequestId /\ a.id \in 1 .. Len(submitted)
        /\ sends \in [RequestId -> Nat] /\ Len(submitted) \in Nat
        /\ MaxRetries \in Nat
    BY <1>1, RequestsAssumption, RetryAssumption
       DEF FrontInv, IdsSubmitted, TypeOK, RequestId
  <1>5. /\ sends'[a.id] = a.retries + 1
        /\ \A r \in RequestId : r # a.id => sends'[r] = sends[r]
    <2>1. sends[a.id] = a.retries
      BY <1>1, <1>2 DEF RequestInv, AttemptInv
    <2> QED
      BY <1>2, <1>4, <2>1
  <1>6. \A i \in 2 .. n : /\ queue[i].id \in RequestId /\ a.id < queue[i].id
                          /\ i \in 1 .. n
    <2> SUFFICES ASSUME NEW i \in 2 .. n
                 PROVE  queue[i].id \in RequestId /\ a.id < queue[i].id
      OBVIOUS
    <2>1. i \in 1 .. n /\ 1 < i
      OBVIOUS
    <2>2. a.id < queue[i].id
      BY <1>1, <1>2, <2>1 DEF RequestInv, OrderInv
    <2>3. queue[i].id \in RequestId
      BY <1>1, <2>1, RequestsAssumption
         DEF FrontInv, IdsSubmitted, TypeOK, RequestId
    <2> QED
      BY <2>2, <2>3
  <1>7. ASSUME NEW i \in 1 .. n
        PROVE  queue'[i].id = queue[i].id
    <2>1. CASE i = 1
      BY <1>3, <2>1
    <2>2. CASE i > 1
      BY <1>2, <2>2
    <2> QED
      BY <2>1, <2>2
  <1>8. a.retries <= MaxRetries
            /\ (a.retries > 0 => a.important)
            /\ (a.important => submitted[a.id].important)
            /\ a.id \notin settled
    BY <1>1 DEF RequestInv, AttemptInv
  <1>9. AttemptInv'
    <2> SUFFICES ASSUME NEW i \in 1 .. n
                 PROVE  /\ queue'[i].retries <= MaxRetries
                        /\ queue'[i].retries > 0 => queue'[i].important
                        /\ queue'[i].important =>
                               submitted[queue'[i].id].important
                        /\ sends'[queue'[i].id] =
                               IF queue'[i].state = "queued"
                               THEN queue'[i].retries
                               ELSE queue'[i].retries + 1
                        /\ queue'[i].id \notin settled
      BY <1>2 DEF AttemptInv
    <2>1. CASE i = 1
      BY <1>3, <1>5, <1>8, <2>1
    <2>2. CASE i > 1
      <3>1. i \in 2 .. n
        BY <2>2
      <3>2. queue'[i] = queue[i] /\ sends'[queue[i].id] = sends[queue[i].id]
        BY <1>2, <1>3, <1>5, <1>6, <3>1
      <3> QED
        BY <3>2 DEF RequestInv, AttemptInv
    <2> QED
      BY <2>1, <2>2
  <1>10. OrderInv'
    <2> SUFFICES ASSUME NEW i \in 1 .. n, NEW j \in 1 .. n, i < j
                 PROVE  queue'[i].id < queue'[j].id
      BY <1>2 DEF OrderInv
    <2>1. queue[i].id < queue[j].id
      BY <1>2 DEF RequestInv, OrderInv
    <2> QED
      BY <1>7, <2>1
  <1>11. HistoryInv'
    <2> SUFFICES ASSUME NEW r \in RequestId, r > Len(submitted)
                 PROVE  sends'[r] = 0
      BY <1>2 DEF RequestInv, HistoryInv
    <2>1. r # a.id
      BY <1>4
    <2> QED
      BY <1>5, <2>1 DEF RequestInv, HistoryInv
  <1>12. RetryInv'
    BY <1>3 DEF RetryInv
  <1>13. SendBudget'
    <2> SUFFICES ASSUME NEW r \in 1 .. Len(submitted)
                 PROVE  sends'[r] <= IF submitted[r].important
                                     THEN MaxRetries + 1 ELSE 1
      BY <1>2 DEF SendBudget
    <2>1. CASE r = a.id
      BY <1>3, <1>4, <1>5, <1>8, <2>1
    <2>2. CASE r # a.id
      <3>1. r \in RequestId
        BY <1>1, RequestsAssumption DEF TypeOK, RequestId
      <3> QED
        BY <1>5, <2>2, <3>1 DEF RequestInv, SendBudget
    <2> QED
      BY <2>1, <2>2
  <1>14. ServedInOrder'
    <2> SUFFICES ASSUME NEW i \in 1 .. n, NEW r \in RequestId,
                        r > queue'[i].id
                 PROVE  sends'[r] = 0
      BY <1>2 DEF ServedInOrder
    <2>1. r > queue[i].id
      BY <1>7
    <2>2. a.id <= queue[i].id /\ queue[i].id \in Int
      <3>1. CASE i = 1
        BY <1>3, <3>1
      <3>2. CASE i > 1
        <4>1. i \in 2 .. n
          BY <3>2
        <4> QED
          BY <1>3, <1>6, <4>1 DEF RequestId
      <3> QED
        BY <3>1, <3>2
    <2>3. r # a.id
      BY <1>3, <2>1, <2>2 DEF RequestId
    <2> QED
      BY <1>5, <2>1, <2>3 DEF RequestInv, ServedInOrder
  <1> QED
    BY <1>9, <1>10, <1>11, <1>12, <1>13, <1>14 DEF RequestInv

LEMMA RequestInvPart ==
    ASSUME FrontInv, RequestInv, receive_part
    PROVE  RequestInv'
  <1> DEFINE n == Len(queue)
  <1>1. /\ TypeOK /\ n \in Nat /\ n >= 1 /\ queue[1] \in Transaction
    BY PartEffect, ActiveIsFirst DEF FrontInv
  <1>2. /\ queue[1].state = "sent" /\ Len(queue') = n
        /\ queue'[1] = load_reception(queue[1], received)
        /\ \A i \in 2 .. n : queue'[i] = queue[i]
        /\ UNCHANGED << submitted, sends, settled >>
    BY PartEffect DEF receive_part, historyVars
  <1>3. \A i \in 1 .. n :
            /\ queue'[i].id = queue[i].id /\ queue'[i].state = queue[i].state
            /\ queue'[i].retries = queue[i].retries
            /\ queue'[i].important = queue[i].important
    <2>1. /\ queue'[1].id = queue[1].id /\ queue'[1].state = queue[1].state
          /\ queue'[1].retries = queue[1].retries
          /\ queue'[1].important = queue[1].important
      BY <1>1, <1>2 DEF load_reception, Transaction
    <2>2. \A i \in 1 .. n : i = 1 \/ i \in 2 .. n
      BY <1>1
    <2> QED
      BY <1>2, <2>1, <2>2
  <1>4. AttemptInv'
    BY <1>2, <1>3 DEF RequestInv, AttemptInv
  <1>5. OrderInv'
    BY <1>2, <1>3 DEF RequestInv, OrderInv
  <1>6. RetryInv'
    BY <1>1, <1>2, <1>3 DEF RetryInv
  <1>7. HistoryInv' /\ SendBudget' /\ ServedInOrder'
    BY <1>2, <1>3 DEF RequestInv, HistoryInv, SendBudget, ServedInOrder
  <1> QED
    BY <1>4, <1>5, <1>6, <1>7 DEF RequestInv

\* The steps that leave the queue alone or empty it.
LEMMA RequestInvOther ==
    ASSUME RequestInv,
           \/ Tick \/ Arrive \/ reset_state \/ turnaround_delay
           \/ run_out_idle \/ UNCHANGED vars
    PROVE  RequestInv'
  <1>1. /\ UNCHANGED << submitted, sends, settled >>
        /\ queue' = queue \/ queue' = << >>
    BY DEF Tick, Arrive, reset_state, turnaround_delay, run_out_idle,
           historyVars, vars
  <1>2. CASE queue' = queue
    BY <1>1, <1>2 DEF RequestInv, AttemptInv, OrderInv, HistoryInv, RetryInv,
                      SendBudget, ServedInOrder
  <1>3. CASE queue' = << >>
    BY <1>1, <1>3 DEF RequestInv, AttemptInv, OrderInv, HistoryInv, RetryInv,
                      SendBudget, ServedInOrder
  <1> QED
    BY <1>1, <1>2, <1>3

LEMMA RequestInvNext == FrontInv /\ RequestInv /\ [Next]_vars => RequestInv'
  BY NextCases, RequestInvEnqueue, RequestInvClaim, RequestInvConclude,
     RequestInvPart, RequestInvSend, RequestInvOther

\* A transaction's place in the queue, its retry count and the frames sent for
\* its request agree, and every request keeps its place until it is over.
THEOREM RequestInvariant == Spec => [](FrontInv /\ RequestInv)
  <1>1. Init => FrontInv /\ RequestInv
    BY FrontInvInit, RequestInvInit
  <1>2. FrontInv /\ RequestInv /\ [Next]_vars => (FrontInv /\ RequestInv)'
    BY FrontInvNext, RequestInvNext
  <1> QED
    BY <1>1, <1>2, PTL DEF Spec

\* No request is ever sent more often than conclude_transaction's limit allows:
\* once, or 1 + MaxRetries times when it is important.
THEOREM SendBudgetKept == Spec => []SendBudget
  <1>1. RequestInv => SendBudget
    BY DEF RequestInv
  <1> QED
    BY <1>1, RequestInvariant, PTL

\* Retries never change the order in which requests are served.
THEOREM AlwaysServedInOrder == Spec => []ServedInOrder
  <1>1. RequestInv => ServedInOrder
    BY DEF RequestInv
  <1> QED
    BY <1>1, RequestInvariant, PTL

\* A request whose success the owner has taken is never in the queue again.
THEOREM SuccessAlwaysEndsRequest == Spec => []SuccessEndsRequest
  <1>1. RequestInv => SuccessEndsRequest
    BY DEF RequestInv, AttemptInv, SuccessEndsRequest
  <1> QED
    BY <1>1, RequestInvariant, PTL

\* A failed important transaction with retries left always has its next
\* attempt right behind it.
THEOREM RetryAlwaysFollowsFailure == Spec => []RetryFollowsFailure
  <1>1. FrontInv /\ RequestInv => RetryFollowsFailure
    <2> SUFFICES ASSUME FrontInv, RequestInv,
                        is_response_ready(queue), needs_retry(Active)
                 PROVE  /\ Len(queue) >= 2
                        /\ AttemptOf(queue[2]) =
                               [AttemptOf(Active) EXCEPT !.retries = @ + 1]
                        /\ queue[2].length = Active.length
                        /\ queue[2].important
      BY DEF RetryFollowsFailure
    <2>1. TypeOK /\ queue # << >> /\ Head(queue).state = "ready_to_process"
      BY DEF FrontInv, is_response_ready
    <2>2. /\ Active = queue[1] /\ Len(queue) >= 1
          /\ queue[1].state = "ready_to_process"
      BY <2>1, ActiveIsFirst DEF Active, get_active_transaction
    <2>3. /\ Len(queue) >= 2 /\ queue[2].id = queue[1].id
          /\ queue[2].retries = queue[1].retries + 1
          /\ queue[2].length = queue[1].length /\ queue[2].important
      BY <2>2 DEF RequestInv, RetryInv
    <2> QED
      BY <2>2, <2>3 DEF AttemptOf
  <1> QED
    BY <1>1, RequestInvariant, PTL

-----------------------------------------------------------------------------
(* What the client does with the line.  Results that are kept and          *)
(* receptions of known length hold however it is driven; the interframe    *)
(* delay and the length of receptions are promised by a client that is     *)
(* only polled; an answer is the attempt's own if none is late.            *)

\* A concluded reception starts the interframe delay, and the pause with it
\* unless it was silence.
LEMMA ConcludingTimes ==
    ASSUME Concluding
    PROVE  /\ timer' = "interframe_delay" /\ elapsed' = 0 /\ quiet' \in {quiet, 0}
           /\ UNCHANGED << submitted, sends, settled >>
  BY DEF Concluding, receive_all, response_timeout, interchar_timeout,
         await_response, receive_blocking, conclude_transaction, Start

-----------------------------------------------------------------------------
(* A finished transaction is not touched.                                  *)

\* A finished transaction stays in front as it is until the owner takes it or
\* the port is opened again, in every step of the client and of the line.
LEMMA ResultKeptStep ==
    ASSUME FrontInv, [Next]_vars, is_response_ready(queue)
    PROVE  \/ queue' = << >> \/ queue' = Tail(queue)
           \/ Head(queue') = Head(queue)
  <1>1. /\ TypeOK /\ queue # << >> /\ queue \in Seq(Transaction)
        /\ Active = queue[1] /\ Head(queue) = queue[1] /\ Len(queue) >= 1
        /\ queue[1].state = "ready_to_process" /\ ~HasActive
    BY ActiveIsFirst DEF FrontInv, TypeOK, is_response_ready, HasActive, Active,
                         get_active_transaction
  <1>2. ASSUME NEW r \in Requests, enqueue_transaction(r)
        PROVE  Head(queue') = Head(queue)
    <2>1. /\ queue' \in Seq(Transaction) /\ Len(queue') = Len(queue) + 1
          /\ \A i \in 1 .. Len(queue) : queue'[i] = queue[i]
      BY <1>1, <1>2, EnqueueEffect
    <2>2. Len(queue') >= 1 /\ queue'[1] = queue[1]
      BY <1>1, <2>1
    <2> QED
      BY <1>1, <2>1, <2>2, HeadTailProperties
  <1>3. ~Concluding
    BY <1>1, ConcludingStep
  <1>4. ~receive_part /\ ~send_front_message
    BY <1>1 DEF receive_part, CanReceive, send_front_message, available_to_send
  <1>5. CASE claim_response
    BY <1>5 DEF claim_response, dequeue_transaction
  <1>6. CASE Tick \/ Arrive \/ reset_state \/ turnaround_delay \/ run_out_idle
             \/ UNCHANGED vars
    BY <1>6 DEF Tick, Arrive, reset_state, turnaround_delay, run_out_idle, vars
  <1> QED
    BY <1>2, <1>3, <1>4, <1>5, <1>6, NextCases

\* No byte, timer or later request ever changes a result the owner has not
\* taken yet.
THEOREM ResultAlwaysKept == Spec => ResultKept
  <1>1. FrontInv /\ [Next]_vars =>
            [is_response_ready(queue) =>
                \/ queue' = << >> \/ queue' = Tail(queue)
                \/ Head(queue') = Head(queue)]_vars
    BY ResultKeptStep
  <1> QED
    BY <1>1, FrontInvariant, PTL DEF Spec, ResultKept

-----------------------------------------------------------------------------
(* The intercharacter timer.                                               *)

LEMMA KnownLengthStep ==
    ASSUME FrontInv, IntercharMeansKnownLength, [Next]_vars
    PROVE  IntercharMeansKnownLength'
  <1> SUFFICES ASSUME timer' = "interchar_timeout"
               PROVE  Active'.length # -1
    BY DEF IntercharMeansKnownLength, is_expected_length_known
  <1>1. TypeOK
    BY DEF FrontInv
  <1>2. CASE receive_part
    <2>1. /\ queue' # << >> /\ queue' \in Seq(Transaction)
          /\ ~received_expected_number_of_bytes(queue'[1])
          /\ Len(queue'[1].rx) >= 1
      BY <1>2, PartEffect, EmptySeq
    <2>2. Active' = queue'[1]
      BY <2>1, ActiveIsFirstPrime
    <2> QED
      BY <2>1, <2>2 DEF received_expected_number_of_bytes
  <1>3. ASSUME timer = "interchar_timeout"
        PROVE  /\ queue # << >> /\ Len(queue) >= 1 /\ Active = queue[1]
               /\ queue[1].state = "sent" /\ queue[1].length # -1
    <2>1. HasActive /\ queue # << >>
      BY <1>3 DEF FrontInv, TimerHasActive, HasActive
    <2> QED
      BY <1>1, <1>3, <2>1, ActiveIsFirst
         DEF IntercharMeansKnownLength, is_expected_length_known, HasActive
  <1>4. ASSUME NEW r \in Requests, enqueue_transaction(r)
        PROVE  Active'.length # -1
    <2>1. timer = "interchar_timeout"
      BY <1>4 DEF enqueue_transaction
    <2>2. /\ queue' \in Seq(Transaction) /\ Len(queue') = Len(queue) + 1
          /\ \A i \in 1 .. Len(queue) : queue'[i] = queue[i]
      BY <1>1, <1>4, EnqueueEffect
    <2>3. Len(queue') >= 1 /\ queue'[1] = queue[1]
      BY <1>1, <1>3, <2>1, <2>2, ActiveIsFirst
    <2> QED
      BY <1>3, <2>1, <2>2, <2>3, ActiveIsFirstPrime
  <1>5. CASE claim_response
    <2>1. timer = "interchar_timeout" /\ Head(queue).state = "ready_to_process"
      BY <1>5 DEF claim_response, dequeue_transaction, is_response_ready
    <2> QED
      BY <1>3, <2>1 DEF Active, get_active_transaction
  <1>6. ~Concluding
    BY ConcludingTimes
  <1>7. ~send_front_message
    BY SendEffect
  <1>8. CASE Tick \/ Arrive \/ UNCHANGED vars
    <2>1. UNCHANGED << timer, queue >>
      BY <1>8 DEF Tick, Arrive, vars
    <2> QED
      BY <1>3, <2>1 DEF Active
  <1>9. ~(reset_state \/ turnaround_delay \/ run_out_idle)
    BY DEF reset_state, turnaround_delay, run_out_idle, Start
  <1> QED
    BY <1>2, <1>4, <1>5, <1>6, <1>7, <1>8, <1>9, NextCases

\* The intercharacter timer never runs for a request of unknown length,
\* however the client is driven: run_in's branch for it is dead.
THEOREM IntercharAlwaysKnowsLength == Spec => []IntercharMeansKnownLength
  <1>1. Init => IntercharMeansKnownLength
    BY DEF Init, IntercharMeansKnownLength
  <1>2. FrontInv /\ IntercharMeansKnownLength /\ [Next]_vars =>
            IntercharMeansKnownLength'
    BY KnownLengthStep
  <1> QED
    BY <1>1, <1>2, FrontInvariant, PTL DEF Spec

-----------------------------------------------------------------------------
(* The interframe delay of a client that is only polled.                   *)

\* The interframe timer is no older than the pause, and when no timer runs
\* the pause is over.
QuietInv ==
    /\ timer = "interframe_delay" => quiet >= elapsed \/ quiet > InterframeDelay
    /\ timer = "none" => quiet > InterframeDelay

LEMMA QuietInvStep ==
    ASSUME FrontInv, QuietInv, [Next]_vars
    PROVE  QuietInv'
  <1>1. /\ TypeOK /\ elapsed \in Nat /\ quiet \in Nat /\ Horizon \in Nat
        /\ InterframeDelay \in Nat
    BY HorizonProperties, TimesAssumption DEF FrontInv, TypeOK
  <1>2. CASE \E r \in Requests : enqueue_transaction(r)
    BY <1>2 DEF enqueue_transaction, QuietInv
  <1>3. CASE claim_response
    BY <1>3 DEF claim_response, dequeue_transaction, QuietInv
  <1>4. CASE Concluding
    BY <1>1, <1>4, ConcludingTimes DEF QuietInv
  <1>5. CASE receive_part
    BY <1>5, PartEffect DEF QuietInv
  <1>6. CASE send_front_message
    BY <1>6, SendEffect DEF QuietInv
  <1>7. CASE Tick
    BY <1>1, <1>7 DEF Tick, QuietInv
  <1>8. CASE reset_state \/ turnaround_delay
    BY <1>1, <1>8 DEF reset_state, turnaround_delay, Start, historyVars, QuietInv
  <1>9. CASE run_out_idle
    BY <1>1, <1>9 DEF run_out_idle, MayTransmit, has_timer_expired, Duration,
                      historyVars, QuietInv
  <1>10. CASE Arrive \/ UNCHANGED vars
    BY <1>10 DEF Arrive, historyVars, vars, QuietInv
  <1> QED
    BY <1>2, <1>3, <1>4, <1>5, <1>6, <1>7, <1>8, <1>9, <1>10, NextCases

LEMMA SendingWaits ==
    ASSUME FrontInv, QuietInv, BlockingCalls = FALSE, [Next]_vars, sends' # sends
    PROVE  quiet > InterframeDelay
  <1>1. elapsed \in Nat /\ quiet \in Nat /\ InterframeDelay \in Nat
    BY HorizonProperties, TimesAssumption DEF FrontInv, TypeOK
  <1>2. ~Concluding
    BY ConcludingTimes
  <1>3. send_front_message /\ MayTransmit
    BY <1>2, NextCases
       DEF enqueue_transaction, claim_response, dequeue_transaction,
           receive_part, Tick, Arrive, reset_state, turnaround_delay,
           run_out_idle, historyVars, vars
  <1> QED
    BY <1>1, <1>3 DEF MayTransmit, has_timer_expired, Duration, QuietInv

\* A client that is only polled never transmits within the interframe delay
\* of the last reception with any byte that it concluded.
THEOREM PolledAlwaysObservesInterframe ==
    ASSUME BlockingCalls = FALSE
    PROVE  Spec => InterframeObserved
  <1>1. Init => QuietInv
    BY TimesAssumption DEF Init, QuietInv
  <1>2. FrontInv /\ QuietInv /\ [Next]_vars => QuietInv'
    BY QuietInvStep
  <1>3. FrontInv /\ QuietInv /\ [Next]_vars =>
            [sends' # sends => quiet > InterframeDelay]_vars
    BY SendingWaits
  <1> QED
    BY <1>1, <1>2, <1>3, FrontInvariant, PTL DEF Spec, InterframeObserved

-----------------------------------------------------------------------------
(* Receptions of a client that is only polled.                             *)

WithinLength(t) == Len(t.rx) <= IF t.length > 1 THEN t.length ELSE 1

\* receive takes no byte beyond the one that completes the reception.
LEMMA ReceiveAllWithinLength ==
    ASSUME FrontInv, receive_all
    PROVE  \E t : Concluded(Active, t) /\ conclude_transaction(t) /\ WithinLength(t)
  <1>1. /\ TypeOK /\ HasActive /\ queue # << >> /\ received \in Seq(Byte)
        /\ Len(received) \in Nat
    BY DEF receive_all, HasActive, FrontInv, TypeOK
  <1>2. PICK n \in 1 .. Len(received) :
            CompletesAt(n) /\ conclude_transaction(validate_response(AfterBytes(n)))
    BY DEF receive_all
  <1>3. /\ Active \in Transaction /\ Active.rx \in Seq(Byte)
        /\ Active.length \in Int /\ Active.failure = {}
        /\ Active.rx = << >> \/ ~received_expected_number_of_bytes(Active)
    BY <1>1, ActiveIsFirst DEF FrontInv, ActiveInv, Transaction
  <1>4. ASSUME NEW m \in 1 .. Len(received)
        PROVE  /\ AfterBytes(m) \in Transaction
               /\ AfterBytes(m).failure = {} /\ AfterBytes(m).length = Active.length
               /\ Len(AfterBytes(m).rx) = Len(Active.rx) + m
               /\ AfterBytes(m) = load_reception(Active, SubSeq(received, 1, m))
               /\ SubSeq(received, 1, m) \in Seq(Byte)
    <2> DEFINE b == SubSeq(received, 1, m)
    <2>1. b \in Seq(Byte) /\ Len(b) = m
      BY <1>1
    <2> HIDE DEF b
    <2>2. /\ load_reception(Active, b) \in Transaction
          /\ load_reception(Active, b).rx = Active.rx \o b
      BY <1>3, <2>1, ReceptionType
    <2>3. /\ load_reception(Active, b).failure = Active.failure
          /\ load_reception(Active, b).length = Active.length
      BY <1>3 DEF load_reception, Transaction
    <2>4. Len(Active.rx \o b) = Len(Active.rx) + m
      BY <1>3, <2>1, ConcatProperties
    <2>5. AfterBytes(m) = load_reception(Active, b)
      BY DEF AfterBytes, b
    <2> QED
      BY <1>3, <2>1, <2>2, <2>3, <2>4, <2>5 DEF b
  <1> DEFINE t == validate_response(AfterBytes(n))
  <1>5. Concluded(Active, t) /\ t.rx = AfterBytes(n).rx /\ t.length = Active.length
    <2>1. Concluded(AfterBytes(n), t) /\ t.rx = AfterBytes(n).rx
      BY <1>4, ValidateConcludes
    <2> HIDE DEF t
    <2>2. Concluded(Active, t)
      BY <1>3, <1>4, <2>1, LoadKeeps
    <2> QED
      BY <2>1, <2>2 DEF Concluded
  <1> HIDE DEF t
  <1>6. WithinLength(t)
    <2>1. Len(t.rx) = Len(Active.rx) + n /\ Len(Active.rx) \in Nat
      BY <1>3, <1>4, <1>5
    <2>2. CASE n = 1 /\ Active.rx = << >>
      BY <1>3, <1>5, <2>1, <2>2 DEF WithinLength
    <2>3. CASE n = 1 /\ Active.rx # << >>
      <3>1. Len(Active.rx) < Active.length /\ Len(Active.rx) >= 1
        BY <1>3, <2>1, <2>3, EmptySeq DEF received_expected_number_of_bytes
      <3> QED
        BY <1>3, <1>5, <2>1, <2>3, <3>1 DEF WithinLength
    <2>4. CASE n > 1
      <3>1. n - 1 \in 1 .. n - 1 /\ n - 1 \in 1 .. Len(received)
        BY <1>1, <2>4
      <3>2. ~received_expected_number_of_bytes(AfterBytes(n - 1))
        BY <1>2, <3>1 DEF CompletesAt
      <3>3. /\ Len(AfterBytes(n - 1).rx) = Len(Active.rx) + (n - 1)
            /\ AfterBytes(n - 1).length = Active.length
        BY <1>4, <3>1
      <3>4. Len(Active.rx) + (n - 1) < Active.length
        BY <1>3, <2>1, <3>2, <3>3 DEF received_expected_number_of_bytes
      <3> QED
        BY <1>3, <1>5, <2>1, <2>4, <3>4 DEF WithinLength
    <2> QED
      BY <2>2, <2>3, <2>4
  <1> QED
    BY <1>2, <1>5, <1>6 DEF t

LEMMA ConcludesWithinLength ==
    ASSUME FrontInv, ReceptionWithinLength, BlockingCalls = FALSE, Concluding
    PROVE  \E t : Concluded(Active, t) /\ conclude_transaction(t) /\ WithinLength(t)
  <1>1. /\ HasActive /\ Active = queue[1] /\ Active \in Transaction
        /\ Len(queue) \in Nat /\ Len(queue) >= 1 /\ Active.failure = {}
    BY ConcludingStep, ActiveIsFirst DEF FrontInv, ActiveInv
  <1>2. WithinLength(Active)
    BY <1>1 DEF ReceptionWithinLength, WithinLength
  <1>3. ASSUME NEW t, Concluded(Active, t), t.rx = Active.rx
        PROVE  WithinLength(t)
    BY <1>2, <1>3 DEF WithinLength, Concluded
  <1>4. CASE response_timeout
    <2>1. /\ Concluded(Active, invalidate(Active, {"RESPONSE_TIMEOUT_ERROR"}))
          /\ invalidate(Active, {"RESPONSE_TIMEOUT_ERROR"}).rx = Active.rx
      BY <1>1, InvalidateConcludes DEF ErrorId
    <2> QED
      BY <1>3, <1>4, <2>1 DEF response_timeout
  <1>5. CASE interchar_timeout
    <2> DEFINE t == IF is_expected_length_known(Active)
                    THEN invalidate(Active, {"INTERCHAR_TIMEOUT_ERROR"})
                    ELSE validate_response(Active)
    <2>1. conclude_transaction(t)
      BY <1>5 DEF interchar_timeout
    <2>2. Concluded(Active, t) /\ t.rx = Active.rx
      BY <1>1, InvalidateConcludes, ValidateConcludes DEF ErrorId
    <2> QED
      BY <1>3, <2>1, <2>2
  <1> QED
    BY <1>4, <1>5, ReceiveAllWithinLength DEF Concluding, await_response

LEMMA WithinLengthStep ==
    ASSUME FrontInv, ReceptionWithinLength, BlockingCalls = FALSE, [Next]_vars
    PROVE  ReceptionWithinLength'
  <1> DEFINE n == Len(queue)
  <1>1. TypeOK /\ n \in Nat /\ queue \in Seq(Transaction)
    BY DEF FrontInv, TypeOK
  <1>2. \A i \in 1 .. n : WithinLength(queue[i])
    BY DEF ReceptionWithinLength, WithinLength
  <1>3. ASSUME NEW t \in Transaction, t.rx = << >>
        PROVE  WithinLength(t)
    BY <1>3 DEF WithinLength, Transaction
  <1> SUFFICES \A i \in 1 .. Len(queue') : WithinLength(queue'[i])
    BY DEF ReceptionWithinLength, WithinLength
  <1>4. ASSUME NEW r \in Requests, enqueue_transaction(r)
        PROVE  \A i \in 1 .. Len(queue') : WithinLength(queue'[i])
    <2> DEFINE u == [load_transmission_data(Len(submitted) + 1, r)
                        EXCEPT !.state = "queued"]
    <2>1. /\ Len(queue') = n + 1 /\ queue'[n + 1] = u
          /\ \A i \in 1 .. n : queue'[i] = queue[i]
      BY <1>1, <1>4, EnqueueEffect
    <2>2. u.rx = << >>
      BY DEF load_transmission_data
    <2> HIDE DEF u
    <2>3. queue'[n + 1] \in Transaction
      BY <1>1, <1>4, <2>1, EnqueueEffect
    <2>4. WithinLength(queue'[n + 1])
      BY <1>3, <2>1, <2>2, <2>3
    <2> QED
      BY <1>1, <1>2, <2>1, <2>4
  <1>5. CASE claim_response
    <2>1. /\ Len(queue') = n - 1
          /\ \A i \in 1 .. Len(queue') : queue'[i] = queue[i + 1]
      BY <1>1, <1>5, DequeueEffect DEF claim_response
    <2> QED
      BY <1>1, <1>2, <2>1
  <1>6. CASE Concluding
    <2>1. PICK t : Concluded(Active, t) /\ conclude_transaction(t) /\ WithinLength(t)
      BY <1>6, ConcludesWithinLength
    <2>2. t \in Transaction /\ queue # << >>
      BY <1>6, <2>1, ConcludingStep DEF Concluded
    <2>3. CASE needs_retry(t)
      <3>1. /\ queue' \in Seq(Transaction)
            /\ Len(queue') = n + 1 /\ queue'[1] = t
            /\ queue'[2] = [generate_retry(t) EXCEPT !.state = "queued"]
            /\ \A i \in 3 .. Len(queue') : queue'[i] = queue[i - 1]
        BY <1>1, <2>1, <2>2, <2>3, ConcludeEffect
      <3>2. queue'[2].rx = << >>
        BY <2>2, <3>1 DEF generate_retry, Transaction
      <3>3. WithinLength(queue'[2])
        <4>1. n >= 1 /\ queue'[2] \in Transaction
          BY <1>1, <2>2, <3>1, EmptySeq
        <4> QED
          BY <1>3, <3>2, <4>1
      <3>4. \A i \in 3 .. n + 1 : WithinLength(queue'[i])
        BY <1>1, <1>2, <3>1
      <3> QED
        BY <1>1, <2>1, <3>1, <3>3, <3>4
    <2>4. CASE ~needs_retry(t)
      <3>1. /\ Len(queue') = n /\ queue'[1] = t
            /\ \A i \in 2 .. Len(queue') : queue'[i] = queue[i]
        BY <1>1, <2>1, <2>2, <2>4, ConcludeEffect
      <3> QED
        BY <1>1, <1>2, <2>1, <3>1
    <2> QED
      BY <2>3, <2>4
  <1>7. CASE receive_part
    <2>1. /\ Len(queue') = n /\ queue' \in Seq(Transaction) /\ n >= 1
          /\ ~received_expected_number_of_bytes(queue'[1])
          /\ \A i \in 2 .. n : queue'[i] = queue[i]
      BY <1>1, <1>7, PartEffect, EmptySeq
    <2>2. queue'[1] \in Transaction
      BY <1>1, <2>1
    <2>3. WithinLength(queue'[1])
      BY <2>1, <2>2 DEF received_expected_number_of_bytes, WithinLength, Transaction
    <2> QED
      BY <1>1, <1>2, <2>1, <2>3
  <1>8. CASE send_front_message
    <2>1. /\ Len(queue') = n /\ n >= 1 /\ queue[1] \in Transaction
          /\ queue'[1] = [queue[1] EXCEPT !.unsent = FALSE, !.state = "sent"]
          /\ \A i \in 2 .. n : queue'[i] = queue[i]
      BY <1>1, <1>8, SendEffect, EmptySeq
    <2>2. queue'[1].rx = queue[1].rx /\ queue'[1].length = queue[1].length
      BY <2>1 DEF Transaction
    <2>3. WithinLength(queue'[1])
      BY <1>1, <1>2, <2>1, <2>2 DEF WithinLength
    <2> QED
      BY <1>1, <1>2, <2>1, <2>3
  <1>9. CASE Tick \/ Arrive \/ turnaround_delay \/ run_out_idle \/ UNCHANGED vars
    <2>1. queue' = queue
      BY <1>9 DEF Tick, Arrive, turnaround_delay, run_out_idle, vars
    <2> QED
      BY <1>2, <2>1
  <1>10. CASE reset_state
    BY <1>10 DEF reset_state
  <1> QED
    BY <1>4, <1>5, <1>6, <1>7, <1>8, <1>9, <1>10, NextCases

\* A client that is only polled never takes more bytes into a transaction than
\* the answer was expected to have, whatever arrives.
THEOREM PolledReceptionWithinLength ==
    ASSUME BlockingCalls = FALSE
    PROVE  Spec => []ReceptionWithinLength
  <1>1. Init => ReceptionWithinLength
    BY DEF Init, ReceptionWithinLength
  <1>2. FrontInv /\ ReceptionWithinLength /\ [Next]_vars => ReceptionWithinLength'
    BY WithinLengthStep
  <1> QED
    BY <1>1, <1>2, FrontInvariant, PTL DEF Spec

-----------------------------------------------------------------------------
(* Answers that are taken for valid.                                       *)

AllOf(bytes, attempt) == \A i \in 1 .. Len(bytes) : bytes[i].of = attempt

\* What the active transaction has read answers this very attempt, and so does
\* all that it may read yet.
OwnInv ==
    /\ queue # << >> => AllOf(Active.rx, AttemptOf(Active))
    /\ HasActive =>
           AllOf(received, AttemptOf(Active)) /\ AllOf(line, AttemptOf(Active))

\* A reception is valid only when its checksum was.
ValidInv ==
    is_response_ready(queue) /\ is_reception_valid(Active) =>
        check_rx_buffer_crc(Active)

LEMMA AnswersOwn ==
    ASSUME NEW t \in Transaction, NEW answer \in Answers(t)
    PROVE  AllOf(answer, AttemptOf(t))
  <1>1. CASE answer = << >>
    BY <1>1 DEF AllOf
  <1>2. CASE answer # << >>
    <2> DEFINE Size(kind) == IF kind = "exception" \/ t.length < 0
                             THEN ExceptionLength ELSE t.length
               Whole(kind) == Frame(kind, AttemptOf(t), Size(kind))
    <2>1. PICK kind \in AnswerKinds : \E n \in 1 .. Len(Whole(kind)) :
                  answer = SubSeq(Whole(kind), 1, n)
      BY <1>2 DEF Answers
    <2>2. PICK n \in 1 .. Len(Whole(kind)) : answer = SubSeq(Whole(kind), 1, n)
      BY <2>1
    <2>3. Size(kind) \in Nat
      BY ExceptionLengthAssumption DEF Transaction
    <2> HIDE DEF Size
    <2>4. Len(Whole(kind)) = Size(kind)
      BY <2>3 DEF Frame
    <2>5. \A i \in 1 .. Size(kind) : Whole(kind)[i].of = AttemptOf(t)
      BY DEF Frame
    <2> HIDE DEF Whole
    <2>6. n \in Nat /\ n >= 1 /\ n <= Size(kind)
      BY <2>2, <2>3, <2>4
    <2>7. PICK m \in Int : m = 1
      OBVIOUS
    <2>8. Len(SubSeq(Whole(kind), m, n)) = n - m + 1
      BY <2>6, <2>7, SubSeqProperties
    <2>9. \A i \in 1 .. n - m + 1 :
              SubSeq(Whole(kind), m, n)[i] = Whole(kind)[m + i - 1]
      BY <2>6, <2>7, SubSeqProperties
    <2>10. \A i \in 1 .. n : answer[i] = Whole(kind)[i]
      BY <2>2, <2>6, <2>7, <2>9
    <2>11. Len(answer) = n
      BY <2>2, <2>6, <2>7, <2>8
    <2> QED
      BY <2>3, <2>5, <2>6, <2>10, <2>11 DEF AllOf
  <1> QED
    BY <1>1, <1>2

LEMMA AllOfConcat ==
    ASSUME NEW a, NEW s \in Seq(Byte), NEW b \in Seq(Byte), AllOf(s, a), AllOf(b, a)
    PROVE  AllOf(s \o b, a)
  <1>1. /\ Len(s) \in Nat /\ Len(b) \in Nat /\ Len(s \o b) = Len(s) + Len(b)
        /\ \A i \in 1 .. Len(s) + Len(b) :
               (s \o b)[i] = IF i <= Len(s) THEN s[i] ELSE b[i - Len(s)]
    BY ConcatProperties
  <1> SUFFICES ASSUME NEW i \in 1 .. Len(s) + Len(b)
               PROVE  (s \o b)[i].of = a
    BY <1>1 DEF AllOf
  <1>2. CASE i <= Len(s)
    BY <1>1, <1>2 DEF AllOf
  <1>3. CASE i > Len(s)
    <2>1. i - Len(s) \in 1 .. Len(b) /\ (s \o b)[i] = b[i - Len(s)]
      BY <1>1, <1>3
    <2> QED
      BY <2>1 DEF AllOf
  <1> QED
    BY <1>1, <1>2, <1>3

\* A reception ends as what was read of the answer to this attempt, and it is
\* valid only if validate_response found its checksum right.
LEMMA ConcludesOwn ==
    ASSUME FrontInv, OwnInv, Concluding
    PROVE  \E t : /\ Concluded(Active, t) /\ conclude_transaction(t)
                  /\ AllOf(t.rx, AttemptOf(Active))
                  /\ t.failure = {} => check_rx_buffer_crc(t)
  <1>1. /\ HasActive /\ queue # << >> /\ Active \in Transaction /\ Active.failure = {}
        /\ received \in Seq(Byte) /\ Len(received) \in Nat /\ Active.rx \in Seq(Byte)
    <2>1. HasActive /\ queue # << >> /\ Active \in Transaction /\ Active.failure = {}
      BY ConcludingStep, ActiveIsFirst DEF FrontInv, ActiveInv
    <2>2. received \in Seq(Byte) /\ Len(received) \in Nat
      BY DEF FrontInv, TypeOK
    <2>3. Active.rx \in Seq(Byte)
      BY <2>1 DEF Transaction
    <2> QED
      BY <2>1, <2>2, <2>3
  <1>2. AllOf(Active.rx, AttemptOf(Active)) /\ AllOf(received, AttemptOf(Active))
    BY <1>1 DEF OwnInv
  <1>3. ASSUME NEW u \in Transaction, u.failure = {},
               Concluded(u, validate_response(u)) =>
                   Concluded(Active, validate_response(u))
        PROVE  /\ Concluded(Active, validate_response(u))
               /\ validate_response(u).rx = u.rx
               /\ validate_response(u).failure = {} =>
                      check_rx_buffer_crc(validate_response(u))
    <2>1. Concluded(u, validate_response(u)) /\ validate_response(u).rx = u.rx
      BY <1>3, ValidateConcludes
    <2>2. validate_response(u).failure = ResponseErrors(u)
      BY <1>3 DEF validate_response, invalidate, Transaction
    <2>3. ResponseErrors(u) = {} => check_rx_buffer_crc(u)
      BY DEF ResponseErrors
    <2> QED
      BY <1>3, <2>1, <2>2, <2>3 DEF check_rx_buffer_crc
  <1>4. ASSUME NEW b \in Seq(Byte), AllOf(b, AttemptOf(Active)),
               conclude_transaction(validate_response(load_reception(Active, b)))
        PROVE  \E t : /\ Concluded(Active, t) /\ conclude_transaction(t)
                      /\ AllOf(t.rx, AttemptOf(Active))
                      /\ t.failure = {} => check_rx_buffer_crc(t)
    <2> DEFINE u == load_reception(Active, b)
    <2>1. u \in Transaction /\ u.rx = Active.rx \o b
      BY <1>1, ReceptionType
    <2>2. u.failure = {}
      BY <1>1 DEF load_reception, Transaction
    <2>3. Concluded(u, validate_response(u)) => Concluded(Active, validate_response(u))
      BY <1>1, LoadKeeps
    <2>4. AllOf(u.rx, AttemptOf(Active))
      BY <1>1, <1>2, <1>4, <2>1, AllOfConcat
    <2> HIDE DEF u
    <2>5. /\ Concluded(Active, validate_response(u)) /\ validate_response(u).rx = u.rx
          /\ validate_response(u).failure = {} =>
                 check_rx_buffer_crc(validate_response(u))
      BY <1>3, <2>1, <2>2, <2>3
    <2>6. conclude_transaction(validate_response(u))
      BY <1>4 DEF u
    <2> QED
      BY <2>4, <2>5, <2>6
  <1>5. CASE receive_all
    <2>1. PICK n \in 1 .. Len(received) :
              conclude_transaction(validate_response(AfterBytes(n)))
      BY <1>5 DEF receive_all
    <2> DEFINE b == SubSeq(received, 1, n)
    <2>2. b \in Seq(Byte) /\ Len(b) = n /\ \A i \in 1 .. n : b[i] = received[i]
      BY <1>1
    <2> HIDE DEF b
    <2>3. AllOf(b, AttemptOf(Active))
      BY <1>1, <1>2, <2>2 DEF AllOf
    <2>4. conclude_transaction(validate_response(load_reception(Active, b)))
      BY <2>1 DEF AfterBytes, b
    <2> QED
      BY <1>4, <2>2, <2>3, <2>4
  <1>6. CASE await_response
    BY <1>1, <1>2, <1>4, <1>6 DEF await_response, receive_blocking
  <1>7. ASSUME NEW e \in SUBSET ErrorId, e # {},
               conclude_transaction(invalidate(Active, e))
        PROVE  \E t : /\ Concluded(Active, t) /\ conclude_transaction(t)
                      /\ AllOf(t.rx, AttemptOf(Active))
                      /\ t.failure = {} => check_rx_buffer_crc(t)
    <2>1. Concluded(Active, invalidate(Active, e)) /\ invalidate(Active, e).rx = Active.rx
      BY <1>1, InvalidateConcludes
    <2>2. invalidate(Active, e).failure # {}
      BY <1>1, <1>7 DEF invalidate, Transaction
    <2> QED
      BY <1>2, <1>7, <2>1, <2>2
  <1>8. CASE response_timeout
    BY <1>7, <1>8 DEF response_timeout, ErrorId
  <1>9. CASE interchar_timeout
    <2>1. CASE is_expected_length_known(Active)
      BY <1>7, <1>9, <2>1 DEF interchar_timeout, ErrorId
    <2>2. CASE ~is_expected_length_known(Active)
      <3>1. conclude_transaction(validate_response(Active))
        BY <1>9, <2>2 DEF interchar_timeout
      <3> QED
        BY <1>1, <1>2, <1>3, <3>1
    <2> QED
      BY <2>1, <2>2
  <1> QED
    BY <1>5, <1>6, <1>8, <1>9 DEF Concluding

\* The two invariants by place, after a step.
LEMMA OwnByPlace ==
    ASSUME queue' \in Seq(Transaction),
           queue' # << >> =>
               /\ AllOf(queue'[1].rx, AttemptOf(queue'[1]))
               /\ queue'[1].state = "sent" =>
                      /\ AllOf(received', AttemptOf(queue'[1]))
                      /\ AllOf(line', AttemptOf(queue'[1]))
               /\ queue'[1].state = "ready_to_process" /\ queue'[1].failure = {} =>
                      check_rx_buffer_crc(queue'[1])
    PROVE  OwnInv' /\ ValidInv'
  <1>1. queue' # << >> => Active' = queue'[1]
    BY ActiveIsFirstPrime
  <1>2. OwnInv'
    BY <1>1, ActiveIsFirstPrime DEF OwnInv
  <1>3. ValidInv'
    BY <1>1 DEF ValidInv, is_response_ready, is_reception_valid, Active,
                get_active_transaction
  <1> QED
    BY <1>2, <1>3

LEMMA OwnStep ==
    ASSUME FrontInv, OwnInv, ValidInv, LateAnswers = FALSE, [Next]_vars
    PROVE  OwnInv' /\ ValidInv'
  <1> DEFINE n == Len(queue)
  <1>1. /\ TypeOK /\ n \in Nat /\ queue \in Seq(Transaction)
        /\ received \in Seq(Byte) /\ line \in Seq(Byte)
    BY DEF FrontInv, TypeOK
  <1>2. ASSUME queue # << >>
        PROVE  /\ n >= 1 /\ queue[1] \in Transaction /\ Active = queue[1]
               /\ AllOf(queue[1].rx, AttemptOf(queue[1]))
               /\ queue[1].state = "sent" =>
                      /\ AllOf(received, AttemptOf(queue[1]))
                      /\ AllOf(line, AttemptOf(queue[1]))
               /\ queue[1].state = "ready_to_process" /\ queue[1].failure = {} =>
                      check_rx_buffer_crc(queue[1])
    <2>1. n >= 1 /\ queue[1] \in Transaction /\ Active = queue[1]
      BY <1>1, <1>2, ActiveIsFirst
    <2> QED
      BY <1>2, <2>1 DEF OwnInv, ValidInv, HasActive, is_response_ready,
                        is_reception_valid, Active, get_active_transaction
  <1>3. \A i \in 1 .. n : queue[i].state = "queued" => queue[i].rx = << >>
    BY DEF FrontInv, StatesInv
  <1>4. ASSUME queue' \in Seq(Transaction), queue' # << >>,
               queue'[1].rx = << >>, queue'[1].state = "queued"
        PROVE  OwnInv' /\ ValidInv'
    BY <1>4, OwnByPlace DEF AllOf
  <1>5. ASSUME UNCHANGED queue,
               queue # << >> /\ queue[1].state = "sent" =>
                   /\ AllOf(received', AttemptOf(queue[1]))
                   /\ AllOf(line', AttemptOf(queue[1]))
        PROVE  OwnInv' /\ ValidInv'
    BY <1>1, <1>2, <1>5, OwnByPlace
  <1>6. ASSUME NEW r \in Requests, enqueue_transaction(r)
        PROVE  OwnInv' /\ ValidInv'
    <2>1. /\ queue' \in Seq(Transaction) /\ Len(queue') = n + 1
          /\ \A i \in 1 .. n : queue'[i] = queue[i]
          /\ queue'[n + 1] = [load_transmission_data(Len(submitted) + 1, r)
                                  EXCEPT !.state = "queued"]
      BY <1>1, <1>6, EnqueueEffect
    <2>2. queue' # << >>
      BY <1>1, <2>1
    <2>3. CASE queue = << >>
      <3>1. n = 0
        BY <2>3
      <3>2. queue'[1].rx = << >> /\ queue'[1].state = "queued"
        BY <2>1, <3>1 DEF load_transmission_data
      <3> QED
        BY <1>4, <2>1, <2>2, <3>2
    <2>4. CASE queue # << >>
      <3>1. queue'[1] = queue[1]
        BY <1>2, <2>1, <2>4
      <3>2. UNCHANGED << received, line >>
        BY <1>6 DEF enqueue_transaction
      <3> QED
        BY <1>2, <2>1, <2>4, <3>1, <3>2, OwnByPlace
    <2> QED
      BY <2>3, <2>4
  <1>7. CASE claim_response
    <2>1. /\ queue' \in Seq(Transaction) /\ Len(queue') = n - 1
          /\ \A i \in 1 .. Len(queue') : queue'[i] = queue[i + 1]
      BY <1>1, <1>7, DequeueEffect DEF claim_response
    <2>2. CASE queue' = << >>
      BY <2>1, <2>2, OwnByPlace
    <2>3. CASE queue' # << >>
      <3>1. 2 \in 1 .. n /\ queue'[1] = queue[2]
        BY <1>1, <2>1, <2>3, EmptySeq
      <3>2. queue[2].state = "queued"
        BY <3>1 DEF FrontInv, StatesInv
      <3> QED
        BY <1>3, <1>4, <2>1, <2>3, <3>1, <3>2
    <2> QED
      BY <2>2, <2>3
  <1>8. CASE Concluding
    <2>1. PICK t : /\ Concluded(Active, t) /\ conclude_transaction(t)
                   /\ AllOf(t.rx, AttemptOf(Active))
                   /\ t.failure = {} => check_rx_buffer_crc(t)
      BY <1>8, ConcludesOwn
    <2>2. /\ queue # << >> /\ t \in Transaction /\ t.state = "ready_to_process"
          /\ AttemptOf(t) = AttemptOf(Active)
      BY <1>8, <2>1, ConcludingStep DEF Concluded, AttemptOf
    <2>3. queue' \in Seq(Transaction) /\ queue'[1] = t
      BY <1>1, <2>1, <2>2, ConcludeEffect
    <2> QED
      BY <2>1, <2>2, <2>3, OwnByPlace
  <1>9. CASE receive_part
    <2>1. /\ queue # << >> /\ queue[1].state = "sent"
          /\ queue' \in Seq(Transaction)
          /\ queue'[1] = load_reception(queue[1], received)
          /\ received' = << >> /\ line' = line
      BY <1>9, PartEffect
    <2>2. /\ queue'[1].rx = queue[1].rx \o received /\ queue'[1].state = "sent"
          /\ AttemptOf(queue'[1]) = AttemptOf(queue[1])
      BY <1>1, <1>2, <2>1 DEF load_reception, Transaction, AttemptOf
    <2>3. AllOf(queue'[1].rx, AttemptOf(queue'[1]))
      <3>1. queue[1].rx \in Seq(Byte)
        BY <1>2, <2>1 DEF Transaction
      <3> QED
        BY <1>1, <1>2, <2>1, <2>2, <3>1, AllOfConcat
    <2>4. AllOf(received', AttemptOf(queue'[1])) /\ AllOf(line', AttemptOf(queue'[1]))
      BY <1>2, <2>1, <2>2 DEF AllOf
    <2> QED
      BY <2>1, <2>2, <2>3, <2>4, OwnByPlace
  <1>10. CASE send_front_message
    <2>1. /\ queue # << >> /\ queue[1] \in Transaction
          /\ queue[1].state = "queued"
          /\ queue' \in Seq(Transaction)
          /\ queue'[1] = [queue[1] EXCEPT !.unsent = FALSE, !.state = "sent"]
          /\ received' = << >>
      BY <1>10, SendEffect
    <2>2. /\ queue'[1].rx = queue[1].rx /\ queue'[1].state = "sent"
          /\ AttemptOf(queue'[1]) = AttemptOf(queue[1])
      BY <2>1 DEF Transaction, AttemptOf
    <2>3. AllOf(line', AttemptOf(queue[1]))
      <3>1. Active = queue[1]
        BY <1>2, <2>1
      <3>2. PICK answer \in Answers(queue[1]) :
                line' = (IF LateAnswers THEN line ELSE << >>) \o answer
        BY <1>10, <3>1 DEF send_front_message, tx_enable
      <3>3. answer \in Seq(Byte) /\ AllOf(answer, AttemptOf(queue[1]))
        BY <2>1, AnswersType, AnswersOwn
      <3>4. line' = << >> \o answer
        BY <3>2
      <3>5. line' = answer
        BY <3>3, <3>4, ConcatEmptySeq
      <3> QED
        BY <3>3, <3>5
    <2>4. AllOf(received', AttemptOf(queue[1]))
      BY <2>1 DEF AllOf
    <2> QED
      BY <1>2, <2>1, <2>2, <2>3, <2>4, OwnByPlace
  <1>11. CASE Arrive
    <2>1. /\ UNCHANGED queue /\ line # << >> /\ line' = Tail(line)
          /\ received' = Append(received, Head(line))
      BY <1>11 DEF Arrive
    <2>2. /\ Len(line) \in Nat /\ Len(line) >= 1 /\ Head(line) = line[1]
          /\ Len(line') = Len(line) - 1
          /\ \A i \in 1 .. Len(line') : line'[i] = line[i + 1]
      BY <1>1, <2>1, HeadTailProperties, EmptySeq
    <2>3. /\ Len(received) \in Nat /\ Len(received') = Len(received) + 1
          /\ \A i \in 1 .. Len(received) : received'[i] = received[i]
          /\ received'[Len(received) + 1] = Head(line)
      <3>1. Head(line) \in Byte
        BY <1>1, <2>1, HeadTailProperties
      <3> QED
        BY <1>1, <2>1, <3>1, AppendProperties
    <2>4. ASSUME NEW a, AllOf(received, a), AllOf(line, a)
          PROVE  AllOf(received', a) /\ AllOf(line', a)
      <3>1. AllOf(line', a)
        BY <2>2, <2>4 DEF AllOf
      <3>2. Head(line).of = a
        BY <2>2, <2>4 DEF AllOf
      <3>3. ASSUME NEW i \in 1 .. Len(received') PROVE received'[i].of = a
        <4>1. i \in 1 .. Len(received) \/ i = Len(received) + 1
          BY <2>3
        <4> QED
          BY <2>3, <2>4, <3>2, <4>1 DEF AllOf
      <3> QED
        BY <3>1, <3>3 DEF AllOf
    <2> QED
      BY <1>2, <1>5, <2>1, <2>4
  <1>12. CASE Tick \/ turnaround_delay \/ run_out_idle \/ UNCHANGED vars
    <2>1. /\ UNCHANGED << queue, line >>
          /\ received' = received \/ received' = << >>
      BY <1>12 DEF Tick, turnaround_delay, run_out_idle, vars
    <2>2. ASSUME NEW a, AllOf(received, a), AllOf(line, a)
          PROVE  AllOf(received', a) /\ AllOf(line', a)
      BY <2>1, <2>2 DEF AllOf
    <2> QED
      BY <1>2, <1>5, <2>1, <2>2
  <1>13. CASE reset_state
    <2>1. queue' = << >> /\ queue' \in Seq(Transaction)
      BY <1>13 DEF reset_state
    <2> QED
      BY <2>1, OwnByPlace
  <1> QED
    BY <1>6, <1>7, <1>8, <1>9, <1>10, <1>11, <1>12, <1>13, NextCases

\* An answer that is taken for valid has its checksum right and starts with a
\* byte of this attempt, when no byte outlives the pause before a request.
LEMMA OwnInvariant ==
    ASSUME LateAnswers = FALSE
    PROVE  Spec => [](FrontInv /\ OwnInv /\ ValidInv)
  <1>1. Init => OwnInv /\ ValidInv
    BY DEF Init, OwnInv, ValidInv, HasActive, is_response_ready
  <1>2. FrontInv /\ OwnInv /\ ValidInv /\ [Next]_vars => OwnInv' /\ ValidInv'
    BY OwnStep
  <1> QED
    BY <1>1, <1>2, FrontInvariant, PTL DEF Spec

LEMMA ValidIsOwn ==
    ASSUME FrontInv, OwnInv, ValidInv, is_response_ready(queue),
           is_reception_valid(Active)
    PROVE  /\ Active = queue[1] /\ Active.rx[1].of = AttemptOf(Active)
           /\ Len(Active.rx) >= 2 /\ Active.rx[2].of = AttemptOf(Active)
  <1>1. queue # << >> /\ Active \in Transaction /\ Active = queue[1]
    BY ActiveIsFirst DEF is_response_ready, FrontInv
  <1>2. Len(Active.rx) >= 2 /\ Len(Active.rx) \in Nat
    BY <1>1 DEF ValidInv, check_rx_buffer_crc, Transaction
  <1>3. 1 \in 1 .. Len(Active.rx) /\ 2 \in 1 .. Len(Active.rx)
    BY <1>2
  <1> QED
    BY <1>1, <1>2, <1>3 DEF OwnInv, AllOf

\* If no byte outlives the pause between two requests, an answer the client
\* takes for valid is the answer to that very attempt: no other answer ever
\* gets into its reception, in whichever way the client is driven.
THEOREM ValidAnswerAlwaysOwn ==
    ASSUME LateAnswers = FALSE
    PROVE  Spec => []ValidAnswerIsOwn
  <1>1. FrontInv /\ OwnInv /\ ValidInv => ValidAnswerIsOwn
    BY ValidIsOwn DEF ValidAnswerIsOwn
  <1> QED
    BY <1>1, OwnInvariant, PTL

-----------------------------------------------------------------------------
(* That ModbusClient implements RequestService: every step of the client   *)
(* is a step of the service or leaves it as it is.                         *)

(* The refinement mapping, by the queue.                                   *)

Entry(t) == [id |-> t.id, important |-> t.important]
Entries(q) == [i \in 1 .. Len(q) |-> Entry(q[i])]

\* A failed transaction with its retry behind it.
Retrying(q) == Len(q) >= 2 /\ q[2].id = q[1].id

Pending(q) == IF Retrying(q) THEN Entries(Tail(q)) ELSE Entries(q)

PhaseOf(t) ==
    IF t.state = "queued" THEN "waiting"
    ELSE IF t.state = "sent" THEN "trying"
    ELSE IF Succeeded(t) THEN "done" ELSE "failed"

TriesOf(t) == IF t.state = "queued" THEN t.retries ELSE t.retries + 1

Phase(q) == IF q = << >> THEN "waiting" ELSE PhaseOf(q[1])
Tries(q) == IF q = << >> THEN 0 ELSE TriesOf(q[1])

\* The mapping of ModbusClient in these terms, before and after a step.
LEMMA Mapping ==
    ASSUME queue \in Seq(Transaction)
    PROVE  /\ PendingRequests = Pending(queue)
           /\ FrontPhase = Phase(queue) /\ FrontTries = Tries(queue)
  <1>1. queue # << >> => Head(queue) = queue[1]
    BY HeadTailProperties
  <1>2. PendingRequests = Pending(queue)
    BY DEF PendingRequests, Pending, Entries, Entry, Retrying
  <1>3. FrontPhase = Phase(queue) /\ FrontTries = Tries(queue)
    BY <1>1 DEF FrontPhase, FrontTries, Phase, Tries, PhaseOf, TriesOf, Active,
                get_active_transaction, available_to_send
  <1> QED
    BY <1>2, <1>3

LEMMA MappingPrime ==
    ASSUME queue' \in Seq(Transaction)
    PROVE  /\ PendingRequests' = Pending(queue')
           /\ FrontPhase' = Phase(queue') /\ FrontTries' = Tries(queue')
  <1>1. queue' # << >> => Head(queue') = queue'[1]
    BY HeadTailProperties
  <1>2. PendingRequests' = Pending(queue')
    BY DEF PendingRequests, Pending, Entries, Entry, Retrying
  <1>3. FrontPhase' = Phase(queue') /\ FrontTries' = Tries(queue')
    BY <1>1 DEF FrontPhase, FrontTries, Phase, Tries, PhaseOf, TriesOf, Active,
                get_active_transaction, available_to_send
  <1> QED
    BY <1>2, <1>3

ServiceEntry == [id : Nat, important : BOOLEAN]

LEMMA EntriesType ==
    ASSUME NEW q \in Seq(Transaction)
    PROVE  /\ Entries(q) \in Seq(ServiceEntry) /\ Len(Entries(q)) = Len(q)
           /\ \A i \in 1 .. Len(q) : Entries(q)[i] = Entry(q[i])
           /\ Entries(q) = << >> <=> q = << >>
  <1>1. Len(q) \in Nat
    OBVIOUS
  <1>2. ASSUME NEW i \in 1 .. Len(q)
        PROVE  Entry(q[i]) \in ServiceEntry
    <2>1. q[i] \in Transaction
      OBVIOUS
    <2>2. q[i].id \in Nat
      BY <2>1 DEF Transaction
    <2>3. q[i].important \in BOOLEAN
      BY <2>1 DEF Transaction
    <2> QED
      BY <2>2, <2>3, Zenon DEF Entry, ServiceEntry
  <1>3. Entries(q) \in Seq(ServiceEntry) /\ Len(Entries(q)) = Len(q)
    BY <1>1, <1>2 DEF Entries
  <1>4. Entries(q) = << >> <=> q = << >>
    BY <1>3, EmptySeq
  <1> QED
    BY <1>3, <1>4 DEF Entries

LEMMA EntriesTail ==
    ASSUME NEW q \in Seq(Transaction), q # << >>
    PROVE  Head(Entries(q)) = Entry(q[1]) /\ Tail(Entries(q)) = Entries(Tail(q))
  <1>1. /\ Tail(q) \in Seq(Transaction) /\ Len(Tail(q)) = Len(q) - 1
        /\ \A i \in 1 .. Len(Tail(q)) : Tail(q)[i] = q[i + 1]
        /\ Len(q) \in Nat /\ Len(q) >= 1
    BY HeadTailProperties, EmptySeq
  <1> DEFINE e == Entries(q)  f == Entries(Tail(q))
  <1>2. /\ e \in Seq(ServiceEntry) /\ e # << >> /\ Len(e) = Len(q)
        /\ \A i \in 1 .. Len(q) : e[i] = Entry(q[i])
    BY EntriesType
  <1>3. /\ f \in Seq(ServiceEntry) /\ Len(f) = Len(q) - 1
        /\ \A i \in 1 .. Len(q) - 1 : f[i] = Entry(Tail(q)[i])
    BY <1>1, EntriesType
  <1> HIDE DEF e, f
  <1>4. /\ Tail(e) \in Seq(ServiceEntry) /\ Len(Tail(e)) = Len(e) - 1
        /\ \A i \in 1 .. Len(Tail(e)) : Tail(e)[i] = e[i + 1]
        /\ Head(e) = e[1]
    BY <1>2, HeadTailProperties
  <1>5. \A i \in 1 .. Len(q) - 1 : Tail(e)[i] = f[i]
    BY <1>1, <1>2, <1>3, <1>4
  <1>6. Tail(e) = f
    BY <1>1, <1>2, <1>3, <1>4, <1>5, SeqEqual
  <1> QED
    BY <1>1, <1>2, <1>4, <1>6 DEF e, f

\* Queues with the same requests in the same order have the same entries.
LEMMA EntriesSame ==
    ASSUME NEW p \in Seq(Transaction), NEW q \in Seq(Transaction),
           Len(p) = Len(q), \A i \in 1 .. Len(q) : Entry(p[i]) = Entry(q[i])
    PROVE  Entries(p) = Entries(q)
  BY DEF Entries

\* What the invariants say of the front and of the place behind it.
LEMMA FrontAndRetry ==
    ASSUME FrontInv, RequestInv, queue # << >>
    PROVE  /\ queue \in Seq(Transaction) /\ queue[1] \in Transaction
           /\ Len(queue) \in Nat /\ Len(queue) >= 1
           /\ queue[1].state \in {"queued", "sent", "ready_to_process"}
           /\ Retrying(queue) <=> /\ queue[1].state = "ready_to_process"
                                  /\ needs_retry(queue[1])
           /\ \A i \in 2 .. Len(queue) :
                  /\ queue[i] \in Transaction /\ queue[i].state = "queued"
                  /\ i > 2 \/ ~Retrying(queue) =>
                         queue[i].id > queue[1].id /\ queue[i].retries = 0
           /\ Len(queue) >= 3 => queue[3].id # queue[2].id
  <1>1. /\ queue \in Seq(Transaction) /\ queue[1] \in Transaction
        /\ Len(queue) \in Nat /\ Len(queue) >= 1
    BY ActiveIsFirst DEF FrontInv, TypeOK
  <1>2. queue[1].state \in {"queued", "sent", "ready_to_process"}
    BY <1>1 DEF FrontInv, StatesInv, Transaction, TransmitState
  <1>3. Retrying(queue) <=> /\ queue[1].state = "ready_to_process"
                            /\ needs_retry(queue[1])
    <2>1. ASSUME Retrying(queue)
          PROVE  queue[1].state = "ready_to_process" /\ needs_retry(queue[1])
      <3>1. 1 \in 1 .. Len(queue) /\ 2 \in 1 .. Len(queue)
        BY <1>1, <2>1 DEF Retrying
      <3>2. queue[1].id \in Nat /\ queue[2].id = queue[1].id
        BY <1>1, <2>1 DEF Retrying, Transaction
      <3>3. ~(queue[1].id < queue[2].id)
        BY <3>2
      <3> QED
        BY <3>1, <3>3 DEF RequestInv, OrderInv
    <2>2. ASSUME queue[1].state = "ready_to_process", needs_retry(queue[1])
          PROVE  Retrying(queue)
      BY <1>1, <2>2 DEF RequestInv, RetryInv, Retrying
    <2> QED
      BY <2>1, <2>2
  <1>4. ASSUME NEW i \in 2 .. Len(queue)
        PROVE  /\ queue[i] \in Transaction /\ queue[i].state = "queued"
               /\ i > 2 \/ ~Retrying(queue) =>
                      queue[i].id > queue[1].id /\ queue[i].retries = 0
    <2>1. i \in 1 .. Len(queue) /\ 1 \in 1 .. Len(queue) /\ i > 1
      BY <1>1
    <2>2. queue[i] \in Transaction /\ queue[i].state = "queued"
      BY <1>1, <2>1 DEF FrontInv, StatesInv
    <2>3. ASSUME i > 2 \/ ~Retrying(queue)
          PROVE  queue[i].id > queue[1].id /\ queue[i].retries = 0
      <3>1. queue[1].id < queue[i].id
        <4>1. \/ queue[1].id < queue[i].id
              \/ /\ i = 2 /\ queue[1].id = queue[2].id
          BY <2>1 DEF RequestInv, OrderInv
        <4> QED
          BY <1>1, <2>1, <2>3, <4>1 DEF Retrying
      <3>2. queue[1].id \in Nat /\ queue[i].id \in Nat
        BY <1>1, <2>2 DEF Transaction
      <3>3. queue[i].id \in RequestId
        <4>1. queue[i].id \in 1 .. Len(submitted)
          BY <2>1 DEF FrontInv, IdsSubmitted
        <4>2. Len(submitted) \in Nat /\ Len(submitted) <= MaxRequests
          BY DEF FrontInv, TypeOK
        <4> QED
          BY <4>1, <4>2, RequestsAssumption DEF RequestId
      <3>4. sends[queue[i].id] = 0
        BY <2>1, <3>1, <3>2, <3>3 DEF RequestInv, ServedInOrder
      <3>5. sends[queue[i].id] = queue[i].retries
        BY <2>1, <2>2 DEF RequestInv, AttemptInv
      <3> QED
        BY <3>1, <3>2, <3>4, <3>5
    <2> QED
      BY <2>2, <2>3
  <1>5. ASSUME Len(queue) >= 3
        PROVE  queue[3].id # queue[2].id
    <2>1. 2 \in 1 .. Len(queue) /\ 3 \in 1 .. Len(queue)
      BY <1>1, <1>5
    <2>2. queue[2].id < queue[3].id
      BY <2>1 DEF RequestInv, OrderInv
    <2>3. queue[2] \in Transaction /\ queue[3] \in Transaction
      BY <1>1, <2>1
    <2> QED
      BY <2>2, <2>3 DEF Transaction
  <1> QED
    BY <1>1, <1>2, <1>3, <1>4, <1>5

LEMMA FrontInvTypes ==
    ASSUME FrontInv, FrontInv'
    PROVE  /\ queue \in Seq(Transaction) /\ queue' \in Seq(Transaction)
           /\ Len(queue) \in Nat /\ Len(queue') \in Nat
           /\ queue = << >> <=> Len(queue) = 0
           /\ queue' = << >> <=> Len(queue') = 0
  <1>1. queue \in Seq(Transaction) /\ queue' \in Seq(Transaction)
    BY DEF FrontInv, TypeOK
  <1> QED
    BY <1>1, EmptySeq

-----------------------------------------------------------------------------
(* Each kind of step of the client, as a step of the service.              *)

ServiceUnchanged == UNCHANGED << Len(submitted), PendingRequests, FrontPhase, FrontTries >>

LEMMA EnqueueIsSubmit ==
    ASSUME FrontInv, FrontInv', RequestInv, NEW r \in Requests, enqueue_transaction(r)
    PROVE  Service!Submit(r.important)
  <1> DEFINE n == Len(queue)
             u == [load_transmission_data(Len(submitted) + 1, r)
                      EXCEPT !.state = "queued"]
  <1>1. /\ TypeOK /\ queue \in Seq(Transaction) /\ queue' \in Seq(Transaction)
        /\ n \in Nat /\ Len(queue') \in Nat
        /\ queue = << >> <=> n = 0
        /\ queue' = << >> <=> Len(queue') = 0
    BY FrontInvTypes DEF FrontInv
  <1>2. /\ Len(queue') = n + 1 /\ queue'[n + 1] = u /\ queue' = Append(queue, u)
        /\ \A i \in 1 .. n : queue'[i] = queue[i]
    BY <1>1, EnqueueEffect DEF enqueue_transaction, enqueue
  <1>3. Len(submitted) \in Nat /\ Len(submitted') = Len(submitted) + 1
    BY <1>1 DEF TypeOK, enqueue_transaction
  <1>4. /\ u.id = Len(submitted) + 1 /\ u.important = r.important
        /\ u.state = "queued" /\ u.retries = 0
    BY DEF load_transmission_data
  <1> HIDE DEF u
  <1>5. Retrying(queue') <=> Retrying(queue)
    <2>1. CASE n = 1
      <3>1. queue[1].id \in 1 .. Len(submitted)
        BY <1>1, <2>1 DEF FrontInv, IdsSubmitted
      <3> QED
        BY <1>2, <1>3, <1>4, <2>1, <3>1 DEF Retrying
    <2>2. CASE n = 0
      BY <1>2, <2>2 DEF Retrying
    <2>3. CASE n >= 2
      <3>1. queue'[1] = queue[1] /\ queue'[2] = queue[2]
        BY <1>1, <1>2, <2>3
      <3> QED
        BY <1>1, <1>2, <2>3, <3>1 DEF Retrying
    <2> QED
      BY <1>1, <2>1, <2>2, <2>3
  <1>6. u \in Transaction
    BY <1>1, <1>2
  <1>7. ASSUME NEW q \in Seq(Transaction)
        PROVE  Entries(Append(q, u)) = Append(Entries(q), Entry(u))
    <2>1. /\ Entries(q) \in Seq(ServiceEntry) /\ Len(Entries(q)) = Len(q)
          /\ \A i \in 1 .. Len(q) : Entries(q)[i] = Entry(q[i])
      BY EntriesType
    <2>2. /\ Append(q, u) \in Seq(Transaction) /\ Len(Append(q, u)) = Len(q) + 1
          /\ \A i \in 1 .. Len(q) : Append(q, u)[i] = q[i]
          /\ Append(q, u)[Len(q) + 1] = u
      BY <1>6
    <2>3. /\ Entries(Append(q, u)) \in Seq(ServiceEntry)
          /\ Len(Entries(Append(q, u))) = Len(q) + 1
          /\ \A i \in 1 .. Len(q) + 1 : Entries(Append(q, u))[i] = Entry(Append(q, u)[i])
      BY <2>2, EntriesType
    <2>4. Entry(u) \in ServiceEntry
      BY <2>2, <2>3
    <2>5. /\ Append(Entries(q), Entry(u)) \in Seq(ServiceEntry)
          /\ Len(Append(Entries(q), Entry(u))) = Len(q) + 1
          /\ \A i \in 1 .. Len(q) : Append(Entries(q), Entry(u))[i] = Entries(q)[i]
          /\ Append(Entries(q), Entry(u))[Len(q) + 1] = Entry(u)
      BY <2>1, <2>4
    <2>6. \A i \in 1 .. Len(q) + 1 :
              Entries(Append(q, u))[i] = Append(Entries(q), Entry(u))[i]
      BY <2>1, <2>2, <2>3, <2>5
    <2> QED
      BY <2>3, <2>5, <2>6, SeqEqual
  <1>8. Pending(queue') = Append(Pending(queue), Entry(u))
    <2>1. CASE Retrying(queue)
      <3>1. queue # << >>
        BY <1>1, <2>1 DEF Retrying
      <3>2. Tail(queue) \in Seq(Transaction)
        BY <1>1, <3>1, HeadTailProperties
      <3>3. Tail(queue') = Append(Tail(queue), u)
        <4>1. /\ Tail(queue') \in Seq(Transaction) /\ Len(Tail(queue')) = n
              /\ \A i \in 1 .. n : Tail(queue')[i] = queue'[i + 1]
          BY <1>1, <1>2, HeadTailProperties
        <4>2. /\ Len(Tail(queue)) = n - 1
              /\ \A i \in 1 .. n - 1 : Tail(queue)[i] = queue[i + 1]
          BY <1>1, <3>1, HeadTailProperties
        <4>3. n >= 1
          BY <1>1, <3>1
        <4>4. /\ Append(Tail(queue), u) \in Seq(Transaction)
              /\ Len(Append(Tail(queue), u)) = n
              /\ \A i \in 1 .. n - 1 : Append(Tail(queue), u)[i] = Tail(queue)[i]
              /\ Append(Tail(queue), u)[n] = u
          BY <1>1, <1>6, <3>2, <4>2, <4>3
        <4>5. ASSUME NEW i \in 1 .. n
              PROVE  Tail(queue')[i] = Append(Tail(queue), u)[i]
          <5>1. CASE i = n
            BY <1>1, <1>2, <4>1, <4>3, <4>4, <5>1
          <5>2. CASE i < n
            <6>1. i \in 1 .. n - 1 /\ i + 1 \in 1 .. n
              BY <1>1, <5>2
            <6> QED
              BY <1>2, <4>1, <4>2, <4>4, <6>1
          <5>3. n \in Nat
            BY <1>1
          <5>4. i = n \/ i < n
            BY <5>3
          <5> QED
            BY <5>1, <5>2, <5>4
        <4> QED
          BY <4>1, <4>4, <4>5, SeqEqual
      <3> QED
        BY <1>5, <1>7, <2>1, <3>2, <3>3 DEF Pending
    <2>2. CASE ~Retrying(queue)
      BY <1>1, <1>2, <1>5, <1>7, <2>2 DEF Pending
    <2> QED
      BY <2>1, <2>2
  <1>9. Phase(queue') = Phase(queue) /\ Tries(queue') = Tries(queue)
    <2>1. CASE n = 0
      BY <1>1, <1>2, <1>4, <2>1 DEF Phase, Tries, PhaseOf, TriesOf
    <2>2. CASE n # 0
      BY <1>1, <1>2, <2>2 DEF Phase, Tries
    <2> QED
      BY <2>1, <2>2
  <1>10. Entry(u) = [id |-> Len(submitted'), important |-> r.important]
    BY <1>3, <1>4 DEF Entry
  <1> QED
    BY <1>1, <1>3, <1>8, <1>9, <1>10, Mapping, MappingPrime DEF Service!Submit

\* Taking a result hands it over, or clears the way for the retry.
LEMMA ClaimIsHandOver ==
    ASSUME FrontInv, FrontInv', RequestInv, claim_response
    PROVE  Service!HandOver \/ Service!TryAgain
  <1> DEFINE n == Len(queue)
  <1>1. /\ TypeOK /\ queue \in Seq(Transaction) /\ queue' \in Seq(Transaction)
        /\ n \in Nat /\ Len(queue') \in Nat
        /\ queue = << >> <=> n = 0
        /\ queue' = << >> <=> Len(queue') = 0
    BY FrontInvTypes DEF FrontInv
  <1>2. /\ queue # << >> /\ Head(queue).state = "ready_to_process"
        /\ queue' = Tail(queue) /\ submitted' = submitted
    BY DEF claim_response, is_response_ready, dequeue_transaction
  <1>3. /\ queue[1] \in Transaction /\ n >= 1 /\ queue[1].state = "ready_to_process"
        /\ Retrying(queue) <=> needs_retry(queue[1])
        /\ \A i \in 2 .. n :
               /\ queue[i] \in Transaction /\ queue[i].state = "queued"
               /\ ~Retrying(queue) => queue[i].retries = 0
        /\ n >= 3 => queue[3].id # queue[2].id
    BY <1>1, <1>2, FrontAndRetry, HeadTailProperties
  <1>4. /\ Len(queue') = n - 1
        /\ \A i \in 1 .. n - 1 : queue'[i] = queue[i + 1]
    BY <1>1, <1>2, HeadTailProperties
  <1>5. ~Retrying(queue') /\ Pending(queue') = Entries(Tail(queue))
    <2>1. n >= 3 => queue'[1] = queue[2] /\ queue'[2] = queue[3]
      BY <1>1, <1>4
    <2>2. ~Retrying(queue')
      BY <1>1, <1>3, <1>4, <2>1 DEF Retrying
    <2> QED
      BY <1>2, <2>2 DEF Pending
  <1>6. Phase(queue') = "waiting"
        /\ Tries(queue') = IF n = 1 THEN 0 ELSE queue[2].retries
    <2>1. CASE n = 1
      BY <1>1, <1>4, <2>1 DEF Phase, Tries
    <2>2. CASE n > 1
      <3>1. queue'[1] = queue[2] /\ queue[2].state = "queued" /\ queue' # << >>
        BY <1>1, <1>3, <1>4, <2>2
      <3> QED
        BY <2>2, <3>1 DEF Phase, Tries, PhaseOf, TriesOf
    <2>3. n \in Nat /\ n >= 1
      BY <1>1, <1>3
    <2>4. n = 1 \/ n > 1
      <3> HIDE DEF n
      <3> QED
        BY <2>3
    <2> QED
      BY <2>1, <2>2, <2>4
  <1>7. /\ Phase(queue) = IF Succeeded(queue[1]) THEN "done" ELSE "failed"
        /\ Tries(queue) = queue[1].retries + 1
    BY <1>2, <1>3 DEF Phase, Tries, PhaseOf, TriesOf
  <1>8. /\ PendingRequests = Pending(queue) /\ PendingRequests' = Pending(queue')
        /\ FrontPhase = Phase(queue) /\ FrontPhase' = Phase(queue')
        /\ FrontTries = Tries(queue) /\ FrontTries' = Tries(queue')
    BY <1>1, Mapping, MappingPrime
  <1>9. CASE needs_retry(queue[1])
    <2>1. Retrying(queue) /\ Pending(queue) = Entries(Tail(queue)) /\ n >= 2
      BY <1>3, <1>9 DEF Pending, Retrying
    <2>2. /\ queue[2].retries = queue[1].retries + 1 /\ queue[2].important
      BY <1>3, <1>9 DEF RequestInv, RetryInv
    <2>3. Head(Pending(queue)) = Entry(queue[2])
      <3>1. Tail(queue) \in Seq(Transaction) /\ Tail(queue) # << >> /\ Tail(queue)[1] = queue[2]
        BY <1>1, <1>2, <1>4, <2>1
      <3> QED
        BY <2>1, <3>1, EntriesTail
    <2>4. Head(PendingRequests).important
      BY <1>8, <2>2, <2>3 DEF Entry
    <2>5. FrontPhase = "failed" /\ FrontPhase' = "waiting"
      BY <1>6, <1>7, <1>8, <1>9 DEF needs_retry
    <2>6. FrontTries <= MaxRetries /\ FrontTries' = FrontTries
      <3>1. queue[1].retries \in Nat /\ queue[1].retries < MaxRetries
        BY <1>3, <1>9 DEF needs_retry, Transaction
      <3>2. FrontTries = queue[1].retries + 1
        BY <1>7, <1>8
      <3>3. FrontTries' = queue[2].retries
        BY <1>6, <1>8, <2>1
      <3> QED
        BY <2>2, <3>1, <3>2, <3>3, RetryAssumption
    <2>7. PendingRequests' = PendingRequests
      BY <1>5, <1>8, <2>1
    <2>8. Len(submitted') = Len(submitted)
      BY <1>2
    <2> QED
      BY <2>4, <2>5, <2>6, <2>7, <2>8 DEF Service!TryAgain
  <1>10. CASE ~needs_retry(queue[1])
    <2>1. ~Retrying(queue) /\ Pending(queue) = Entries(queue)
      BY <1>3, <1>10 DEF Pending
    <2>2. /\ Head(PendingRequests) = Entry(queue[1])
          /\ PendingRequests' = Tail(PendingRequests)
      BY <1>1, <1>2, <1>5, <1>8, <2>1, EntriesTail
    <2>3. FrontPhase' = "waiting" /\ FrontTries' = 0
      <3>1. n = 1 \/ queue[2].retries = 0
        <4>1. n \in Nat /\ n >= 1
          BY <1>1, <1>3
        <4>2. n = 1 \/ 2 \in 2 .. n
          <5> HIDE DEF n
          <5> QED
            BY <4>1
        <4> QED
          BY <1>3, <2>1, <4>2
      <3>2. FrontTries' = IF n = 1 THEN 0 ELSE queue[2].retries
        BY <1>6, <1>8
      <3> QED
        BY <1>6, <1>8, <3>1, <3>2
    <2>4. \/ FrontPhase = "done"
          \/ FrontPhase = "failed"
             /\ (~Head(PendingRequests).important \/ FrontTries > MaxRetries)
      <3>1. CASE Succeeded(queue[1])
        BY <1>7, <1>8, <3>1
      <3>2. CASE ~Succeeded(queue[1])
        <4>1. ~queue[1].important \/ queue[1].retries >= MaxRetries
          BY <1>3, <1>10, <3>2, RetryAssumption DEF needs_retry, Transaction
        <4>2. queue[1].retries \in Nat
          BY <1>3 DEF Transaction
        <4>3. CASE ~queue[1].important
          BY <1>7, <1>8, <2>2, <3>2, <4>3 DEF Entry
        <4>4. CASE queue[1].retries >= MaxRetries
          BY <1>7, <1>8, <3>2, <4>2, <4>4, RetryAssumption
        <4> QED
          BY <4>1, <4>3, <4>4
      <3> QED
        BY <3>1, <3>2
    <2>5. Len(submitted') = Len(submitted)
      BY <1>2
    <2> QED
      BY <2>2, <2>3, <2>4, <2>5 DEF Service!HandOver
  <1> QED
    BY <1>9, <1>10

\* The end of a reception is the end of a try.
LEMMA ConcludingIsFinish ==
    ASSUME FrontInv, FrontInv', RequestInv, Concluding
    PROVE  Service!Finish
  <1> DEFINE n == Len(queue)
  <1>1. /\ TypeOK /\ queue \in Seq(Transaction) /\ queue' \in Seq(Transaction)
    BY FrontInvTypes DEF FrontInv
  <1>2. HasActive /\ queue # << >>
    BY ConcludingStep
  <1>3. PICK t : Concluded(Active, t) /\ conclude_transaction(t)
    BY ConcludingStep
  <1>4. /\ Active = queue[1] /\ queue[1] \in Transaction /\ t \in Transaction
        /\ queue[1].state = "sent" /\ t.state = "ready_to_process"
        /\ t.id = queue[1].id /\ t.important = queue[1].important
        /\ t.retries = queue[1].retries
    BY <1>1, <1>2, <1>3, ActiveIsFirst DEF Concluded, HasActive
  <1>5. /\ n \in Nat /\ n >= 1 /\ ~Retrying(queue)
        /\ \A i \in 2 .. n : queue[i] \in Transaction /\ queue[i].id > queue[1].id
    BY <1>2, <1>4, FrontAndRetry
  <1>6. /\ queue' # << >> /\ queue'[1] = t
        /\ Pending(queue') = Entries(queue)
    <2>1. CASE needs_retry(t)
      <3>1. /\ Len(queue') = n + 1 /\ queue'[1] = t
            /\ queue'[2] = [generate_retry(t) EXCEPT !.state = "queued"]
            /\ \A i \in 3 .. Len(queue') : queue'[i] = queue[i - 1]
        BY <1>1, <1>2, <1>3, <1>4, <2>1, ConcludeEffect
      <3>2. queue'[2].id = t.id /\ queue'[2].important = TRUE
        BY <1>4, <3>1 DEF generate_retry, Transaction
      <3>3. t.important = TRUE
        <4>1. t.important \in BOOLEAN
          BY <1>4 DEF Transaction
        <4> QED
          BY <2>1, <4>1 DEF needs_retry
      <3>4. Entry(queue'[2]) = Entry(queue[1])
        BY <1>4, <3>2, <3>3 DEF Entry
      <3>5. queue' # << >> /\ Retrying(queue')
        BY <1>1, <1>5, <3>1, <3>2, EmptySeq DEF Retrying
      <3>6. /\ Tail(queue') \in Seq(Transaction) /\ Len(Tail(queue')) = n
            /\ \A i \in 1 .. n : Tail(queue')[i] = queue'[i + 1]
        BY <1>1, <1>5, <3>1, <3>5, HeadTailProperties
      <3>7. ASSUME NEW i \in 1 .. n
            PROVE  Entry(Tail(queue')[i]) = Entry(queue[i])
        <4>1. CASE i = 1
          BY <3>4, <3>6, <4>1
        <4>2. CASE i > 1
          <5>1. i + 1 \in 3 .. n + 1 /\ (i + 1) - 1 = i
            BY <1>5, <4>2
          <5>2. queue'[i + 1] = queue[i]
            BY <3>1, <5>1
          <5> QED
            BY <3>6, <5>2
        <4>3. n \in Nat
          BY <1>5
        <4> HIDE DEF n
        <4>4. i = 1 \/ i > 1
          BY <4>3
        <4> QED
          BY <4>1, <4>2, <4>4
      <3>8. Entries(Tail(queue')) = Entries(queue)
        BY <1>1, <3>6, <3>7, EntriesSame
      <3> QED
        BY <3>1, <3>5, <3>8 DEF Pending
    <2>2. CASE ~needs_retry(t)
      <3>1. /\ Len(queue') = n /\ queue'[1] = t
            /\ \A i \in 2 .. n : queue'[i] = queue[i]
        BY <1>1, <1>2, <1>3, <1>4, <2>2, ConcludeEffect
      <3>2. queue' # << >>
        BY <1>1, <1>5, <3>1, EmptySeq
      <3>3. ~Retrying(queue')
        <4>1. n >= 2 => queue'[2] = queue[2] /\ queue[2].id # queue[1].id
          <5>1. ASSUME n >= 2
                PROVE  queue'[2] = queue[2] /\ queue[2].id > queue[1].id
            BY <1>5, <3>1, <5>1
          <5> QED
            BY <1>4, <1>5, <5>1 DEF Transaction
        <4> QED
          BY <1>4, <3>1, <4>1 DEF Retrying
      <3>4. ASSUME NEW i \in 1 .. n
            PROVE  Entry(queue'[i]) = Entry(queue[i])
        <4>1. CASE i = 1
          BY <1>4, <3>1, <4>1 DEF Entry
        <4>2. CASE i > 1
          BY <1>5, <3>1, <4>2
        <4> QED
          BY <1>5, <4>1, <4>2
      <3>5. Entries(queue') = Entries(queue)
        BY <1>1, <3>1, <3>4, EntriesSame
      <3> QED
        BY <3>1, <3>2, <3>3, <3>5 DEF Pending
    <2> QED
      BY <2>1, <2>2
  <1>7. /\ Phase(queue) = "trying" /\ Phase(queue') \in {"done", "failed"}
        /\ Tries(queue') = Tries(queue)
    BY <1>2, <1>4, <1>6 DEF Phase, Tries, PhaseOf, TriesOf
  <1>8. Pending(queue') = Pending(queue)
    BY <1>5, <1>6 DEF Pending
  <1>9. Len(submitted') = Len(submitted)
    BY <1>3 DEF conclude_transaction
  <1> QED
    BY <1>1, <1>7, <1>8, <1>9, Mapping, MappingPrime DEF Service!Finish

\* Sending the front is a try.
LEMMA SendIsTry ==
    ASSUME FrontInv, FrontInv', RequestInv, send_front_message
    PROVE  Service!Try
  <1> DEFINE n == Len(queue)
  <1>1. queue \in Seq(Transaction) /\ queue' \in Seq(Transaction)
    BY FrontInvTypes
  <1>2. /\ queue # << >> /\ queue[1] \in Transaction /\ queue[1].state = "queued"
        /\ Len(queue') = n
        /\ queue'[1] = [queue[1] EXCEPT !.unsent = FALSE, !.state = "sent"]
        /\ \A i \in 2 .. n : queue'[i] = queue[i]
        /\ submitted' = submitted
    BY SendEffect
  <1>3. n \in Nat /\ n >= 1 /\ ~Retrying(queue) /\ queue' # << >>
    BY <1>1, <1>2, FrontAndRetry, EmptySeq
  <1>4. /\ queue'[1].id = queue[1].id /\ queue'[1].important = queue[1].important
        /\ queue'[1].retries = queue[1].retries /\ queue'[1].state = "sent"
    BY <1>2 DEF Transaction
  <1>5. ~Retrying(queue')
    BY <1>2, <1>3, <1>4 DEF Retrying
  <1>6. ASSUME NEW i \in 1 .. n
        PROVE  Entry(queue'[i]) = Entry(queue[i])
    <2>1. CASE i = 1
      BY <1>4, <2>1 DEF Entry
    <2>2. CASE i > 1
      BY <1>2, <1>3, <2>2
    <2> QED
      BY <1>3, <2>1, <2>2
  <1>7. Entries(queue') = Entries(queue)
    BY <1>1, <1>2, <1>6, EntriesSame
  <1>8. Pending(queue') = Pending(queue) /\ Pending(queue) # << >>
    <2>1. Entries(queue) # << >>
      BY <1>1, <1>2, EntriesType
    <2> QED
      BY <1>3, <1>5, <1>7, <2>1 DEF Pending
  <1>9. /\ Phase(queue) = "waiting" /\ Phase(queue') = "trying"
        /\ Tries(queue') = Tries(queue) + 1
    BY <1>2, <1>3, <1>4 DEF Phase, Tries, PhaseOf, TriesOf
  <1> QED
    BY <1>1, <1>2, <1>8, <1>9, Mapping, MappingPrime DEF Service!Try

\* A part of an answer is nothing to the service.
LEMMA PartIsStutter ==
    ASSUME FrontInv, FrontInv', RequestInv, receive_part
    PROVE  ServiceUnchanged
  <1> DEFINE n == Len(queue)
  <1>1. queue \in Seq(Transaction) /\ queue' \in Seq(Transaction)
    BY FrontInvTypes
  <1>2. /\ queue # << >> /\ queue[1].state = "sent" /\ Len(queue') = n
        /\ queue'[1] = load_reception(queue[1], received)
        /\ \A i \in 2 .. n : queue'[i] = queue[i]
        /\ submitted' = submitted
    BY PartEffect DEF receive_part, historyVars
  <1>3. /\ n \in Nat /\ n >= 1 /\ ~Retrying(queue) /\ queue' # << >>
        /\ queue[1] \in Transaction
    BY <1>1, <1>2, FrontAndRetry, EmptySeq
  <1>4. /\ queue'[1].id = queue[1].id /\ queue'[1].important = queue[1].important
        /\ queue'[1].retries = queue[1].retries /\ queue'[1].state = "sent"
    BY <1>2, <1>3 DEF load_reception, Transaction
  <1>5. ~Retrying(queue')
    BY <1>2, <1>3, <1>4 DEF Retrying
  <1>6. ASSUME NEW i \in 1 .. n
        PROVE  Entry(queue'[i]) = Entry(queue[i])
    <2>1. CASE i = 1
      BY <1>4, <2>1 DEF Entry
    <2>2. CASE i > 1
      BY <1>2, <1>3, <2>2
    <2> QED
      BY <1>3, <2>1, <2>2
  <1>7. Entries(queue') = Entries(queue)
    BY <1>1, <1>2, <1>6, EntriesSame
  <1>8. Pending(queue') = Pending(queue)
    BY <1>3, <1>5, <1>7 DEF Pending
  <1>9. Phase(queue') = Phase(queue) /\ Tries(queue') = Tries(queue)
    BY <1>2, <1>3, <1>4 DEF Phase, Tries, PhaseOf, TriesOf
  <1> QED
    BY <1>1, <1>2, <1>8, <1>9, Mapping, MappingPrime DEF ServiceUnchanged

\* Time, bytes on the line and the timers that only pass the time are nothing
\* to the service either; opening the port drops all requests.
LEMMA OtherSteps ==
    ASSUME FrontInv, FrontInv',
           \/ Tick \/ Arrive \/ reset_state \/ turnaround_delay
           \/ run_out_idle \/ UNCHANGED vars
    PROVE  ServiceUnchanged \/ Service!DropAll
  <1>1. queue \in Seq(Transaction) /\ queue' \in Seq(Transaction)
    BY FrontInvTypes
  <1>2. /\ submitted' = submitted
        /\ queue' = queue \/ queue' = << >>
    BY DEF Tick, Arrive, reset_state, turnaround_delay, run_out_idle,
           historyVars, vars
  <1>3. CASE queue' = queue
    BY <1>1, <1>2, <1>3, Mapping, MappingPrime DEF ServiceUnchanged
  <1>4. CASE queue' = << >>
    <2>1. Pending(queue') = << >>
      <3>1. ~Retrying(queue')
        BY <1>4 DEF Retrying
      <3>2. Entries(queue') = << >>
        BY <1>1, <1>4, EntriesType
      <3> QED
        BY <3>1, <3>2 DEF Pending
    <2>2. Phase(queue') = "waiting" /\ Tries(queue') = 0
      BY <1>4 DEF Phase, Tries
    <2> QED
      BY <1>1, <1>2, <2>1, <2>2, MappingPrime DEF Service!DropAll
  <1> QED
    BY <1>2, <1>3, <1>4

-----------------------------------------------------------------------------
LEMMA InitIsInit == Init => Service!Init
  <1> SUFFICES ASSUME Init
               PROVE  Service!Init
    OBVIOUS
  <1>1. /\ queue = << >> /\ Len(queue) = 0 /\ Len(submitted) = 0
        /\ queue \in Seq(Transaction)
    BY DEF Init
  <1>2. ~Retrying(queue)
    BY <1>1 DEF Retrying
  <1>3. Entries(queue) = << >>
    BY <1>1, EntriesType
  <1> QED
    BY <1>1, <1>2, <1>3, Mapping DEF Pending, Phase, Tries, Service!Init

LEMMA NextIsNext ==
    ASSUME FrontInv, FrontInv', RequestInv, [Next]_vars
    PROVE  [Service!Next]_(Service!serviceVars)
  <1>1. ASSUME NEW r \in Requests, enqueue_transaction(r)
        PROVE  Service!Next
    <2>1. r.important \in BOOLEAN
      BY RequestsAssumption DEF Request
    <2>2. Service!Submit(r.important)
      BY <1>1, EnqueueIsSubmit
    <2> QED
      BY <2>1, <2>2 DEF Service!Next
  <1>2. CASE claim_response
    BY <1>2, ClaimIsHandOver DEF Service!Next
  <1>3. CASE Concluding
    BY <1>3, ConcludingIsFinish DEF Service!Next
  <1>4. CASE receive_part
    BY <1>4, PartIsStutter DEF ServiceUnchanged, Service!serviceVars
  <1>5. CASE send_front_message
    BY <1>5, SendIsTry DEF Service!Next
  <1>6. CASE Tick \/ Arrive \/ reset_state \/ turnaround_delay \/ run_out_idle
             \/ UNCHANGED vars
    BY <1>6, OtherSteps DEF ServiceUnchanged, Service!serviceVars, Service!Next
  <1> QED
    BY <1>1, <1>2, <1>3, <1>4, <1>5, <1>6, NextCases

\* Polled and blocking exchanges, timers, bytes and retries come down to
\* RequestService for every set of requests, timeout and retry limit: requests
\* in order, one at a time, tried again only after a failure and within the
\* limit, and over when the owner takes the result.
THEOREM ClientImplementsService == Spec => ImplementsService
  <1>1. FrontInv /\ FrontInv' /\ RequestInv /\ [Next]_vars =>
            [Service!Next]_(Service!serviceVars)
    BY NextIsNext
  <1> QED
    BY <1>1, InitIsInit, RequestInvariant, PTL DEF Spec, ImplementsService, Service!Spec
=============================================================================
