------------------------- MODULE SerialASIO_proofs -------------------------
(***************************************************************************)
(* What the two threads of SerialASIO do to an exchange, for answers and   *)
(* exceptions of any length and any number of requests.                    *)
(***************************************************************************)
EXTENDS SerialASIO, SequenceTheorems, TLAPS

-----------------------------------------------------------------------------
(* The inductive invariant.                                                *)
(* TypeInv: types, and the outstanding operations stay inside read_buffer. *)
(* SendInv: bytes left in send_data have a handler on its way that will    *)
(* clear them, so that the next exchange that is quiet begins without.     *)
(* ExchangeInv: in a quiet exchange one operation at a time is under way,  *)
(* and it says where each byte of the answer is: taken, in read_buffer or  *)
(* on the line.                                                            *)

ReadOp == [first : {1, HeaderLength + 1}, want : Nat, got : Nat, resuming : BOOLEAN]
DoneOp == [op : {"write", "aborted_write", "header", "body"}, want : Nat]

DataOK ==
    /\ pc \in {"idle", "send", "expect", "cancel", "clear", "write", "wait"}
    /\ send_data \in Seq(1..MaxRequests)
    /\ read_data \in Seq(Byte) /\ line \in Seq(Byte)
    /\ answer \in Seq(Byte) /\ collected \in Seq(Byte)
    /\ read_buffer \in [1..AnswerLength -> Byte]
    /\ write \in SUBSET Seq(1..MaxRequests) /\ motor \in Seq(1..MaxRequests)
    /\ current \in 0..MaxRequests

FlagsOK == notified \in BOOLEAN /\ quiet \in BOOLEAN

\* Every outstanding read fits into read_buffer and wants another byte.
ReadsOK ==
    \A n \in DOMAIN reads :
        /\ reads[n] \in ReadOp /\ reads[n].got < reads[n].want
        /\ reads[n].first + reads[n].want <= AnswerLength + 1

PostedOK ==
    /\ posted \in Seq(DoneOp)
    /\ \A i \in 1 .. Len(posted) :
           posted[i].op = "body" => HeaderLength + posted[i].want <= AnswerLength

LengthOK ==
    /\ bytes_to_read \in {0, AnswerLength, ExceptionLength}
    /\ io \in {"idle", "header"}
    /\ bytes_to_read = 0 =>
           /\ pc \in {"idle", "send", "expect"}
           /\ write = {} /\ DOMAIN reads = {} /\ posted = << >> /\ io = "idle"
    /\ pc = "send" => current >= 1

TypeInv == DataOK /\ FlagsOK /\ ReadsOK /\ PostedOK /\ LengthOK

\* What stays in send_data after tx_enable is cleared when its write is over.
SendInv ==
    pc \in {"idle", "wait"} /\ write = {} /\ send_data # << >> =>
        \E i \in 1 .. Len(posted) : posted[i].op \in {"write", "aborted_write"}

\* Nothing is under way but reads that still wait.
AtRest ==
    /\ write = {} /\ posted = << >> /\ io = "idle" /\ line = << >> /\ motor = << >>
    /\ \A n \in DOMAIN reads : ~reads[n].resuming

NoRead == DOMAIN reads = {}

Preparing ==
    /\ AtRest
    /\ pc \in {"send", "expect", "cancel", "clear", "write"}
    /\ send_data = IF pc = "send" THEN << current >> ELSE Request(current)
    /\ pc \in {"cancel", "clear", "write"} => bytes_to_read = AnswerLength
    /\ pc \in {"clear", "write"} => NoRead
    /\ pc = "write" => collected = << >> /\ read_data = << >> /\ answer = << >>

Taken == collected \o read_data

\* The motor has not answered, or this is the beginning of a frame of its own.
AnswerOfCurrent ==
    /\ motor # << >> => motor = << current >> /\ answer = << >>
    /\ \E kind \in FrameKind :
           /\ Len(answer) <= FrameLength(kind)
           /\ \A p \in 1 .. Len(answer) :
                  answer[p] = [of |-> current, kind |-> kind, pos |-> p]

\* The first n bytes of the answer are in read_buffer and the rest is to come.
Buffered(n) ==
    /\ n <= Len(answer) /\ line = SubSeq(answer, n + 1, Len(answer))
    /\ \A p \in 1 .. n : read_buffer[p] = answer[p]

\* One read is outstanding, for what follows the first bytes of the answer.
Reading(before, want) ==
    \E n \in DOMAIN reads :
        /\ DOMAIN reads = {n}
        /\ reads[n].first = before + 1 /\ reads[n].want = want
        /\ Buffered(before + reads[n].got)

Others(w, done, handler) == write = w /\ posted = done /\ io = handler

Writing ==
    /\ Others({Request(current)}, << >>, "idle") /\ NoRead
    /\ Taken = << >> /\ answer = << >> /\ motor = << >> /\ line = << >>
    /\ bytes_to_read = AnswerLength

Written ==
    /\ Others({}, << Done("write", 0) >>, "idle") /\ NoRead
    /\ Taken = << >> /\ Buffered(0) /\ bytes_to_read = AnswerLength

ReadingHeader ==
    /\ Others({}, << >>, "idle") /\ Reading(0, HeaderLength)
    /\ Taken = << >> /\ bytes_to_read = AnswerLength

HeaderRead ==
    /\ Others({}, << Done("header", HeaderLength) >>, "idle") /\ NoRead
    /\ Taken = << >> /\ Buffered(HeaderLength) /\ bytes_to_read = AnswerLength

HeaderSeen ==
    /\ Others({}, << >>, "header") /\ NoRead
    /\ Taken = << >> /\ Buffered(HeaderLength)
    /\ bytes_to_read = FrameLength(answer[1].kind)

ReadingBody ==
    /\ Others({}, << >>, "idle")
    /\ Reading(HeaderLength, bytes_to_read - HeaderLength)
    /\ Taken = SubSeq(answer, 1, HeaderLength)
    /\ bytes_to_read = FrameLength(answer[1].kind)

BodyRead ==
    /\ Others({}, << Done("body", bytes_to_read - HeaderLength) >>, "idle") /\ NoRead
    /\ Taken = SubSeq(answer, 1, HeaderLength) /\ Buffered(bytes_to_read)
    /\ bytes_to_read = FrameLength(answer[1].kind)

Finished ==
    /\ Others({}, << >>, "idle") /\ NoRead
    /\ Taken = answer /\ line = << >> /\ motor = << >>
    /\ bytes_to_read = Len(answer)

Underway ==
    \/ Writing \/ Written \/ ReadingHeader \/ HeaderRead \/ HeaderSeen
    \/ ReadingBody \/ BodyRead

Exchanging ==
    /\ pc \in {"idle", "wait"}
    /\ AnswerOfCurrent
    /\ \/ Finished
       \/ Underway /\ (pc = "wait" => ~notified)

ExchangeInv == quiet => Preparing \/ Exchanging

SerialInv == TypeInv /\ SendInv /\ ExchangeInv

-----------------------------------------------------------------------------
(* Types and operations.                                                   *)

LEMMA LengthsPositive ==
    /\ AnswerLength \in Nat /\ ExceptionLength \in Nat /\ MaxRequests \in Nat
    /\ HeaderLength = 2 /\ ExceptionLength > 2 /\ AnswerLength >= ExceptionLength
    /\ \A kind \in FrameKind :
           FrameLength(kind) \in {AnswerLength, ExceptionLength}
  BY SerialAssumption DEF HeaderLength, FrameKind, FrameLength

LEMMA TypeInvImplies == TypeInv => SerialTypeOK
  <1> SUFFICES ASSUME TypeInv PROVE SerialTypeOK
    OBVIOUS
  <1>1. \A i \in DOMAIN posted :
            posted[i].op \in {"write", "aborted_write", "header", "body"}
    <2>1. posted \in Seq(DoneOp)
      BY DEF TypeInv, PostedOK
    <2>2. \A i \in DOMAIN posted : posted[i] \in DoneOp
      BY <2>1, ElementOfSeq, LenProperties
    <2> QED
      BY <2>2 DEF DoneOp
  <1>2. \A i \in DOMAIN reads :
            /\ reads[i].got < reads[i].want
            /\ reads[i].first + reads[i].want <= AnswerLength + 1
    BY DEF TypeInv, ReadsOK
  <1> QED
    BY <1>1, <1>2 DEF TypeInv, DataOK, FlagsOK, LengthOK, SerialTypeOK

LEMMA TypeInit == Init => TypeInv
  <1> SUFFICES ASSUME Init PROVE TypeInv
    OBVIOUS
  <1>1. NoByte \in Byte
    BY LengthsPositive DEF NoByte, Byte, FrameKind
  <1>2. DataOK
    <2>1. read_buffer \in [1..AnswerLength -> Byte]
      BY <1>1 DEF Init
    <2>2. write \in SUBSET Seq(1..MaxRequests) /\ current \in 0..MaxRequests
      BY LengthsPositive DEF Init
    <2> QED
      BY <2>1, <2>2 DEF Init, DataOK
  <1>4. FlagsOK
    BY DEF Init, FlagsOK
  <1>3. DOMAIN reads = {} /\ posted \in Seq(DoneOp) /\ Len(posted) = 0
    BY DEF Init
  <1> QED
    BY <1>2, <1>3, <1>4 DEF Init, TypeInv, ReadsOK, PostedOK, LengthOK


-----------------------------------------------------------------------------
(* The helpers on posted and read_buffer.                                  *)

LEMMA FirstPosted ==
    ASSUME PostedOK, posted # << >>
    PROVE  /\ Head(posted) = posted[1] /\ posted[1] \in DoneOp
           /\ Tail(posted) \in Seq(DoneOp) /\ Len(posted) \in Nat /\ Len(posted) >= 1
           /\ Len(Tail(posted)) = Len(posted) - 1
           /\ \A i \in 1 .. Len(Tail(posted)) : Tail(posted)[i] = posted[i + 1]
  BY HeadTailProperties, EmptySeq DEF PostedOK

LEMMA PostedTail ==
    ASSUME PostedOK, posted # << >>, posted' = Tail(posted)
    PROVE  PostedOK'
  BY FirstPosted DEF PostedOK

LEMMA PostedAppend ==
    ASSUME PostedOK, NEW done \in DoneOp, posted' = Append(posted, done),
           done.op = "body" => HeaderLength + done.want <= AnswerLength
    PROVE  PostedOK'
  <1>1. posted \in Seq(DoneOp) /\ Len(posted) \in Nat
    BY DEF PostedOK
  <1>2. /\ posted' \in Seq(DoneOp) /\ Len(posted') = Len(posted) + 1
        /\ \A i \in 1 .. Len(posted) : posted'[i] = posted[i]
        /\ posted'[Len(posted) + 1] = done
    BY <1>1, AppendProperties
  <1> QED
    BY <1>1, <1>2 DEF PostedOK

LEMMA BufferPart ==
    ASSUME DataOK, NEW m \in 1 .. AnswerLength + 1, NEW n \in 0 .. AnswerLength
    PROVE  /\ SubSeq(read_buffer, m, n) \in Seq(Byte)
           /\ Len(SubSeq(read_buffer, m, n)) = IF m <= n THEN n - m + 1 ELSE 0
           /\ \A i \in 1 .. n - m + 1 :
                  SubSeq(read_buffer, m, n)[i] = read_buffer[m + i - 1]
  <1>1. \A i \in m .. n : read_buffer[i] \in Byte
    BY LengthsPositive DEF DataOK
  <1>2. m \in Int /\ n \in Int
    BY LengthsPositive
  <1> QED
    BY <1>1, <1>2, SubSeqProperties

LEMMA FrameBytes ==
    ASSUME NEW n \in 0..MaxRequests, NEW kind \in FrameKind,
           NEW length \in 0..FrameLength(kind)
    PROVE  /\ SubSeq(Frame(n, kind), 1, length) \in Seq(Byte)
           /\ Len(SubSeq(Frame(n, kind), 1, length)) = length
           /\ \A p \in 1 .. length : SubSeq(Frame(n, kind), 1, length)[p] =
                                        [of |-> n, kind |-> kind, pos |-> p]
  <1>1. FrameLength(kind) \in 0..AnswerLength
    BY LengthsPositive
  <1>2. \A p \in 1 .. length : /\ Frame(n, kind)[p] = [of |-> n, kind |-> kind, pos |-> p]
                               /\ Frame(n, kind)[p] \in Byte
    BY <1>1, LengthsPositive DEF Frame, Byte
  <1>3. length \in Nat
    BY <1>1, LengthsPositive
  <1> DEFINE s == Frame(n, kind)
  <1>4. \A p \in 1 .. length : s[p] = [of |-> n, kind |-> kind, pos |-> p] /\ s[p] \in Byte
    BY <1>2
  <1> HIDE DEF s
  <1>5. /\ SubSeq(s, 1, length) \in Seq(Byte)
        /\ Len(SubSeq(s, 1, length)) = length
        /\ \A p \in 1 .. length : SubSeq(s, 1, length)[p] = s[p]
    <2>1. PICK m \in Int : m = 1
      OBVIOUS
    <2>2. length \in Int /\ \A p \in m .. length : s[p] \in Byte
      <3>1. \A p \in 1 .. length : s[p] \in Byte
        BY <1>4
      <3>2. m .. length = 1 .. length /\ length \in Int
        BY <1>3, <2>1
      <3> QED
        BY <3>1, <3>2
    <2>3. /\ SubSeq(s, m, length) \in Seq(Byte)
          /\ Len(SubSeq(s, m, length)) = IF m <= length THEN length - m + 1 ELSE 0
          /\ \A p \in 1 .. length - m + 1 : SubSeq(s, m, length)[p] = s[m + p - 1]
      BY <2>2, SubSeqProperties
    <2> QED
      BY <1>3, <2>1, <2>3
  <1> QED
    BY <1>4, <1>5 DEF s

-----------------------------------------------------------------------------
(* Every step keeps the types.                                             *)

LEMMA TypeSendFirstByte ==
    ASSUME TypeInv, send_first_byte
    PROVE  TypeInv'
  <1>1. DataOK'
    <2>1. /\ send_data \in Seq(1..MaxRequests) /\ send_data' = Append(send_data, current + 1)
          /\ write' = write \/ write' = {<< >>}
      BY DEF send_first_byte, QueueByte, TypeInv, DataOK
    <2>2. current + 1 \in 1..MaxRequests
      BY LengthsPositive DEF send_first_byte, TypeInv, DataOK, LengthOK
    <2>3. send_data' \in Seq(1..MaxRequests)
      BY <2>1, <2>2, AppendProperties
    <2>4. current' \in 0..MaxRequests
      BY <2>2, LengthsPositive DEF send_first_byte, requestVars, TypeInv, DataOK
    <2>5. write' \in SUBSET Seq(1..MaxRequests)
      <3>1. << >> \in Seq(1..MaxRequests) /\ write \in SUBSET Seq(1..MaxRequests)
        BY EmptySeq DEF TypeInv, DataOK
      <3> QED
        BY <2>1, <3>1
    <2> QED
      BY <2>3, <2>4, <2>5
         DEF send_first_byte, QueueByte, portVars, ioVars, requestVars, TypeInv, DataOK
  <1>2. FlagsOK'
    BY DEF send_first_byte, QueueByte, portVars, ioVars, TypeInv, FlagsOK, Quiet
  <1>3. ReadsOK'
    BY LengthsPositive
       DEF send_first_byte, QueueByte, portVars, ioVars, TypeInv, ReadsOK, ReadOp,
           LengthOK
  <1>4. PostedOK'
    BY LengthsPositive
       DEF send_first_byte, QueueByte, portVars, ioVars, TypeInv, PostedOK, DoneOp,
           ReadsOK, ReadOp
  <1>5. LengthOK'
    BY LengthsPositive
       DEF send_first_byte, QueueByte, portVars, ioVars, TypeInv, LengthOK, ReadsOK,
           PostedOK, DataOK, ReadOp, DoneOp
  <1> QED
    BY <1>1, <1>2, <1>3, <1>4, <1>5 DEF TypeInv

LEMMA TypeSendLastByte ==
    ASSUME TypeInv, send_last_byte
    PROVE  TypeInv'
  <1>1. DataOK'
    <2>1. /\ send_data \in Seq(1..MaxRequests) /\ send_data' = Append(send_data, current)
          /\ write' = write \/ write' = {<< >>}
      BY DEF send_last_byte, QueueByte, TypeInv, DataOK
    <2>2. current \in 1..MaxRequests
      BY LengthsPositive DEF send_last_byte, TypeInv, DataOK, LengthOK
    <2>3. send_data' \in Seq(1..MaxRequests)
      BY <2>1, <2>2, AppendProperties
    <2>4. current' \in 0..MaxRequests
      BY <2>2, LengthsPositive DEF send_last_byte, requestVars, TypeInv, DataOK
    <2>5. write' \in SUBSET Seq(1..MaxRequests)
      <3>1. << >> \in Seq(1..MaxRequests) /\ write \in SUBSET Seq(1..MaxRequests)
        BY EmptySeq DEF TypeInv, DataOK
      <3> QED
        BY <2>1, <3>1
    <2> QED
      BY <2>3, <2>4, <2>5
         DEF send_last_byte, QueueByte, portVars, ioVars, requestVars, TypeInv, DataOK
  <1>2. FlagsOK'
    BY
       DEF send_last_byte, QueueByte, portVars, ioVars, requestVars, TypeInv, FlagsOK,
           Quiet
  <1>3. ReadsOK'
    BY LengthsPositive
       DEF send_last_byte, QueueByte, portVars, ioVars, requestVars, TypeInv, ReadsOK,
           ReadOp, LengthOK
  <1>4. PostedOK'
    BY LengthsPositive
       DEF send_last_byte, QueueByte, portVars, ioVars, requestVars, TypeInv, PostedOK,
           DoneOp, ReadsOK, ReadOp
  <1>5. LengthOK'
    BY LengthsPositive
       DEF send_last_byte, QueueByte, portVars, ioVars, requestVars, TypeInv, LengthOK,
           ReadsOK, PostedOK, DataOK, ReadOp, DoneOp
  <1> QED
    BY <1>1, <1>2, <1>3, <1>4, <1>5 DEF TypeInv

LEMMA TypeTxEnableExpect ==
    ASSUME TypeInv, tx_enable_expect
    PROVE  TypeInv'
  <1>1. DataOK'
    BY LengthsPositive
       DEF tx_enable_expect, requestVars, portVars, opVars, ioVars, TypeInv, DataOK,
           LengthOK
  <1>2. FlagsOK'
    BY
       DEF tx_enable_expect, requestVars, portVars, opVars, ioVars, TypeInv, FlagsOK,
           Quiet
  <1>3. ReadsOK'
    BY LengthsPositive
       DEF tx_enable_expect, requestVars, portVars, opVars, ioVars, TypeInv, ReadsOK,
           ReadOp, LengthOK
  <1>4. PostedOK'
    BY LengthsPositive
       DEF tx_enable_expect, requestVars, portVars, opVars, ioVars, TypeInv, PostedOK,
           DoneOp, ReadsOK, ReadOp
  <1>5. LengthOK'
    BY LengthsPositive
       DEF tx_enable_expect, requestVars, portVars, opVars, ioVars, TypeInv, LengthOK,
           ReadsOK, PostedOK, DataOK, ReadOp, DoneOp
  <1> QED
    BY <1>1, <1>2, <1>3, <1>4, <1>5 DEF TypeInv

LEMMA TypeTxEnableCancel ==
    ASSUME TypeInv, tx_enable_cancel
    PROVE  TypeInv'
  <1>1. DataOK'
    BY LengthsPositive
       DEF tx_enable_cancel, requestVars, portVars, dataVars, Restrict, Done, TypeInv,
           DataOK, LengthOK
  <1>2. FlagsOK'
    BY
       DEF tx_enable_cancel, requestVars, portVars, dataVars, Restrict, Done, TypeInv,
           FlagsOK, Quiet
  <1>3. ReadsOK'
    BY LengthsPositive
       DEF tx_enable_cancel, requestVars, portVars, dataVars, Restrict, Done, TypeInv,
           ReadsOK, ReadOp, LengthOK
  <1>4. PostedOK'
    <2>1. CASE write = {}
      BY <2>1, ConcatEmptySeq DEF tx_enable_cancel, TypeInv, PostedOK
    <2>2. CASE write # {}
      <3>1. posted' = posted \o << Done("aborted_write", 0) >>
        BY <2>2 DEF tx_enable_cancel
      <3>2. Done("aborted_write", 0) \in DoneOp /\ Done("aborted_write", 0).op # "body"
        BY DEF Done, DoneOp
      <3>3. posted' = Append(posted, Done("aborted_write", 0))
        BY <3>1, <3>2, AppendIsConcat DEF TypeInv, PostedOK
      <3> QED
        BY <3>2, <3>3, PostedAppend DEF TypeInv
    <2> QED
      BY <2>1, <2>2
  <1>5. LengthOK'
    BY LengthsPositive
       DEF tx_enable_cancel, requestVars, portVars, dataVars, Restrict, Done, TypeInv,
           LengthOK, ReadsOK, PostedOK, DataOK, ReadOp, DoneOp
  <1> QED
    BY <1>1, <1>2, <1>3, <1>4, <1>5 DEF TypeInv

LEMMA TypeTxEnableClear ==
    ASSUME TypeInv, tx_enable_clear
    PROVE  TypeInv'
  <1>1. DataOK'
    BY LengthsPositive
       DEF tx_enable_clear, requestVars, opVars, ioVars, TypeInv, DataOK, LengthOK
  <1>2. FlagsOK'
    BY DEF tx_enable_clear, requestVars, opVars, ioVars, TypeInv, FlagsOK, Quiet
  <1>3. ReadsOK'
    BY LengthsPositive
       DEF tx_enable_clear, requestVars, opVars, ioVars, TypeInv, ReadsOK, ReadOp,
           LengthOK
  <1>4. PostedOK'
    BY LengthsPositive
       DEF tx_enable_clear, requestVars, opVars, ioVars, TypeInv, PostedOK, DoneOp,
           ReadsOK, ReadOp
  <1>5. LengthOK'
    BY LengthsPositive
       DEF tx_enable_clear, requestVars, opVars, ioVars, TypeInv, LengthOK, ReadsOK,
           PostedOK, DataOK, ReadOp, DoneOp
  <1> QED
    BY <1>1, <1>2, <1>3, <1>4, <1>5 DEF TypeInv

LEMMA TypeTxEnableWrite ==
    ASSUME TypeInv, tx_enable_write
    PROVE  TypeInv'
  <1>1. DataOK'
    BY LengthsPositive
       DEF tx_enable_write, requestVars, portVars, dataVars, ioVars, TypeInv, DataOK,
           LengthOK
  <1>2. FlagsOK'
    BY
       DEF tx_enable_write, requestVars, portVars, dataVars, ioVars, TypeInv, FlagsOK,
           Quiet
  <1>3. ReadsOK'
    BY LengthsPositive
       DEF tx_enable_write, requestVars, portVars, dataVars, ioVars, TypeInv, ReadsOK,
           ReadOp, LengthOK
  <1>4. PostedOK'
    BY LengthsPositive
       DEF tx_enable_write, requestVars, portVars, dataVars, ioVars, TypeInv, PostedOK,
           DoneOp, ReadsOK, ReadOp
  <1>5. LengthOK'
    BY LengthsPositive
       DEF tx_enable_write, requestVars, portVars, dataVars, ioVars, TypeInv, LengthOK,
           ReadsOK, PostedOK, DataOK, ReadOp, DoneOp
  <1> QED
    BY <1>1, <1>2, <1>3, <1>4, <1>5 DEF TypeInv

LEMMA TypeReceiveByte ==
    ASSUME TypeInv, receive_byte
    PROVE  TypeInv'
  <1>1. DataOK'
    BY LengthsPositive
       DEF receive_byte, requestVars, portVars, opVars, ioVars, TypeInv, DataOK,
           LengthOK
  <1>2. FlagsOK'
    BY DEF receive_byte, requestVars, portVars, opVars, ioVars, TypeInv, FlagsOK, Quiet
  <1>3. ReadsOK'
    BY LengthsPositive
       DEF receive_byte, requestVars, portVars, opVars, ioVars, TypeInv, ReadsOK,
           ReadOp, LengthOK
  <1>4. PostedOK'
    BY LengthsPositive
       DEF receive_byte, requestVars, portVars, opVars, ioVars, TypeInv, PostedOK,
           DoneOp, ReadsOK, ReadOp
  <1>5. LengthOK'
    BY LengthsPositive
       DEF receive_byte, requestVars, portVars, opVars, ioVars, TypeInv, LengthOK,
           ReadsOK, PostedOK, DataOK, ReadOp, DoneOp
  <1> QED
    BY <1>1, <1>2, <1>3, <1>4, <1>5 DEF TypeInv

LEMMA TypeReceiveBytesAtOnce ==
    ASSUME TypeInv, receive_bytes_at_once
    PROVE  TypeInv'
  <1>1. DataOK'
    BY LengthsPositive
       DEF receive_bytes_at_once, TakeAll, requestVars, portVars, opVars, ioVars,
           TypeInv, DataOK, LengthOK
  <1>2. FlagsOK'
    BY
       DEF receive_bytes_at_once, TakeAll, requestVars, portVars, opVars, ioVars,
           TypeInv, FlagsOK, Quiet
  <1>3. ReadsOK'
    BY LengthsPositive
       DEF receive_bytes_at_once, TakeAll, requestVars, portVars, opVars, ioVars,
           TypeInv, ReadsOK, ReadOp, LengthOK
  <1>4. PostedOK'
    BY LengthsPositive
       DEF receive_bytes_at_once, TakeAll, requestVars, portVars, opVars, ioVars,
           TypeInv, PostedOK, DoneOp, ReadsOK, ReadOp
  <1>5. LengthOK'
    BY LengthsPositive
       DEF receive_bytes_at_once, TakeAll, requestVars, portVars, opVars, ioVars,
           TypeInv, LengthOK, ReadsOK, PostedOK, DataOK, ReadOp, DoneOp
  <1> QED
    BY <1>1, <1>2, <1>3, <1>4, <1>5 DEF TypeInv

LEMMA TypeReceiveBytesWait ==
    ASSUME TypeInv, receive_bytes_wait
    PROVE  TypeInv'
  <1>1. DataOK'
    BY LengthsPositive
       DEF receive_bytes_wait, requestVars, portVars, opVars, dataVars, ioVars, TypeInv,
           DataOK, LengthOK
  <1>2. FlagsOK'
    BY
       DEF receive_bytes_wait, requestVars, portVars, opVars, dataVars, ioVars, TypeInv,
           FlagsOK, Quiet
  <1>3. ReadsOK'
    BY LengthsPositive
       DEF receive_bytes_wait, requestVars, portVars, opVars, dataVars, ioVars, TypeInv,
           ReadsOK, ReadOp, LengthOK
  <1>4. PostedOK'
    BY LengthsPositive
       DEF receive_bytes_wait, requestVars, portVars, opVars, dataVars, ioVars, TypeInv,
           PostedOK, DoneOp, ReadsOK, ReadOp
  <1>5. LengthOK'
    BY LengthsPositive
       DEF receive_bytes_wait, requestVars, portVars, opVars, dataVars, ioVars, TypeInv,
           LengthOK, ReadsOK, PostedOK, DataOK, ReadOp, DoneOp
  <1> QED
    BY <1>1, <1>2, <1>3, <1>4, <1>5 DEF TypeInv

LEMMA TypeReceiveBytesNotified ==
    ASSUME TypeInv, receive_bytes_notified
    PROVE  TypeInv'
  <1>1. DataOK'
    BY LengthsPositive
       DEF receive_bytes_notified, TakeAll, requestVars, portVars, opVars, ioVars,
           TypeInv, DataOK, LengthOK
  <1>2. FlagsOK'
    BY
       DEF receive_bytes_notified, TakeAll, requestVars, portVars, opVars, ioVars,
           TypeInv, FlagsOK, Quiet
  <1>3. ReadsOK'
    BY LengthsPositive
       DEF receive_bytes_notified, TakeAll, requestVars, portVars, opVars, ioVars,
           TypeInv, ReadsOK, ReadOp, LengthOK
  <1>4. PostedOK'
    BY LengthsPositive
       DEF receive_bytes_notified, TakeAll, requestVars, portVars, opVars, ioVars,
           TypeInv, PostedOK, DoneOp, ReadsOK, ReadOp
  <1>5. LengthOK'
    BY LengthsPositive
       DEF receive_bytes_notified, TakeAll, requestVars, portVars, opVars, ioVars,
           TypeInv, LengthOK, ReadsOK, PostedOK, DataOK, ReadOp, DoneOp
  <1> QED
    BY <1>1, <1>2, <1>3, <1>4, <1>5 DEF TypeInv

LEMMA TypeReceiveBytesTimedOut ==
    ASSUME TypeInv, receive_bytes_timed_out
    PROVE  TypeInv'
  <1>1. DataOK'
    BY LengthsPositive
       DEF receive_bytes_timed_out, TakeAll, requestVars, portVars, opVars, ioVars,
           TypeInv, DataOK, LengthOK
  <1>2. FlagsOK'
    BY
       DEF receive_bytes_timed_out, TakeAll, requestVars, portVars, opVars, ioVars,
           TypeInv, FlagsOK, Quiet
  <1>3. ReadsOK'
    BY LengthsPositive
       DEF receive_bytes_timed_out, TakeAll, requestVars, portVars, opVars, ioVars,
           TypeInv, ReadsOK, ReadOp, LengthOK
  <1>4. PostedOK'
    BY LengthsPositive
       DEF receive_bytes_timed_out, TakeAll, requestVars, portVars, opVars, ioVars,
           TypeInv, PostedOK, DoneOp, ReadsOK, ReadOp
  <1>5. LengthOK'
    BY LengthsPositive
       DEF receive_bytes_timed_out, TakeAll, requestVars, portVars, opVars, ioVars,
           TypeInv, LengthOK, ReadsOK, PostedOK, DataOK, ReadOp, DoneOp
  <1> QED
    BY <1>1, <1>2, <1>3, <1>4, <1>5 DEF TypeInv

LEMMA TypeOnWritten ==
    ASSUME TypeInv, on_written
    PROVE  TypeInv'
  <1>1. DataOK'
    BY LengthsPositive
       DEF on_written, NextHandler, With, Read, callerVars, requestVars, portVars,
           TypeInv, DataOK, LengthOK
  <1>2. FlagsOK'
    BY
       DEF on_written, NextHandler, With, Read, callerVars, requestVars, portVars,
           TypeInv, FlagsOK, Quiet
  <1>3. ReadsOK'
    BY LengthsPositive
       DEF on_written, NextHandler, With, Read, callerVars, requestVars, portVars,
           TypeInv, ReadsOK, ReadOp, LengthOK
  <1>4. PostedOK'
    <2>1. posted # << >> /\ posted' = Tail(posted)
      BY DEF on_written, NextHandler
    <2> QED
      BY <2>1, PostedTail DEF TypeInv
  <1>5. LengthOK'
    BY LengthsPositive
       DEF on_written, NextHandler, With, Read, callerVars, requestVars, portVars,
           TypeInv, LengthOK, ReadsOK, PostedOK, DataOK, ReadOp, DoneOp
  <1> QED
    BY <1>1, <1>2, <1>3, <1>4, <1>5 DEF TypeInv

LEMMA TypeOnHeaderLength ==
    ASSUME TypeInv, on_header_length
    PROVE  TypeInv'
  <1>1. DataOK'
    BY LengthsPositive
       DEF on_header_length, NextHandler, callerVars, requestVars, portVars, opVars,
           TypeInv, DataOK, LengthOK
  <1>2. FlagsOK'
    BY
       DEF on_header_length, NextHandler, callerVars, requestVars, portVars, opVars,
           TypeInv, FlagsOK, Quiet
  <1>3. ReadsOK'
    BY LengthsPositive
       DEF on_header_length, NextHandler, callerVars, requestVars, portVars, opVars,
           TypeInv, ReadsOK, ReadOp, LengthOK
  <1>4. PostedOK'
    <2>1. posted # << >> /\ posted' = Tail(posted)
      BY DEF on_header_length, NextHandler
    <2> QED
      BY <2>1, PostedTail DEF TypeInv
  <1>5. LengthOK'
    BY LengthsPositive
       DEF on_header_length, NextHandler, callerVars, requestVars, portVars, opVars,
           TypeInv, LengthOK, ReadsOK, PostedOK, DataOK, ReadOp, DoneOp
  <1> QED
    BY <1>1, <1>2, <1>3, <1>4, <1>5 DEF TypeInv

LEMMA TypeOnHeader ==
    ASSUME TypeInv, on_header
    PROVE  TypeInv'
  <1>1. DataOK'
    BY LengthsPositive
       DEF on_header, With, Read, callerVars, requestVars, portVars, TypeInv, DataOK,
           LengthOK
  <1>2. FlagsOK'
    BY
       DEF on_header, With, Read, callerVars, requestVars, portVars, TypeInv, FlagsOK,
           Quiet
  <1>3. ReadsOK'
    BY LengthsPositive
       DEF on_header, With, Read, callerVars, requestVars, portVars, TypeInv, ReadsOK,
           ReadOp, LengthOK
  <1>4. PostedOK'
    BY LengthsPositive
       DEF on_header, With, Read, callerVars, requestVars, portVars, TypeInv, PostedOK,
           DoneOp, ReadsOK, ReadOp
  <1>5. LengthOK'
    BY LengthsPositive
       DEF on_header, With, Read, callerVars, requestVars, portVars, TypeInv, LengthOK,
           ReadsOK, PostedOK, DataOK, ReadOp, DoneOp
  <1> QED
    BY <1>1, <1>2, <1>3, <1>4, <1>5 DEF TypeInv

LEMMA TypeOnBody ==
    ASSUME TypeInv, on_body
    PROVE  TypeInv'
  <1>1. DataOK'
    <2>1. posted # << >> /\ Head(posted).op = "body"
      BY DEF on_body, NextHandler
    <2>2. /\ Head(posted).want \in Nat
          /\ HeaderLength + Head(posted).want <= AnswerLength
      BY <2>1, FirstPosted DEF TypeInv, PostedOK, DoneOp
    <2>3. SubSeq(read_buffer, HeaderLength + 1, HeaderLength + Head(posted).want)
              \in Seq(Byte)
      <3>1. /\ HeaderLength + 1 \in 1 .. AnswerLength + 1
            /\ HeaderLength + Head(posted).want \in 0 .. AnswerLength
        BY <2>2, LengthsPositive
      <3> QED
        BY <3>1, BufferPart DEF TypeInv
    <2>4. read_data' \in Seq(Byte)
      BY <2>3, ConcatProperties DEF on_body, TypeInv, DataOK
    <2> QED
      BY <2>4 DEF on_body, requestVars, portVars, opVars, TypeInv, DataOK
  <1>2. FlagsOK'
    BY DEF on_body, NextHandler, requestVars, portVars, opVars, TypeInv, FlagsOK, Quiet
  <1>3. ReadsOK'
    BY LengthsPositive
       DEF on_body, NextHandler, requestVars, portVars, opVars, TypeInv, ReadsOK,
           ReadOp, LengthOK
  <1>4. PostedOK'
    <2>1. posted # << >> /\ posted' = Tail(posted)
      BY DEF on_body, NextHandler
    <2> QED
      BY <2>1, PostedTail DEF TypeInv
  <1>5. LengthOK'
    BY LengthsPositive
       DEF on_body, NextHandler, requestVars, portVars, opVars, TypeInv, LengthOK,
           ReadsOK, PostedOK, DataOK, ReadOp, DoneOp
  <1> QED
    BY <1>1, <1>2, <1>3, <1>4, <1>5 DEF TypeInv

LEMMA TypeResumeRead ==
    ASSUME TypeInv, NEW n \in DOMAIN reads, resume_read(n)
    PROVE  TypeInv'
  <1>1. DataOK'
    BY LengthsPositive
       DEF resume_read, callerVars, requestVars, portVars, dataVars, ioVars, TypeInv,
           DataOK, LengthOK
  <1>2. FlagsOK'
    BY
       DEF resume_read, callerVars, requestVars, portVars, dataVars, ioVars, TypeInv,
           FlagsOK, Quiet
  <1>3. ReadsOK'
    BY LengthsPositive
       DEF resume_read, callerVars, requestVars, portVars, dataVars, ioVars, TypeInv,
           ReadsOK, ReadOp, LengthOK
  <1>4. PostedOK'
    BY LengthsPositive
       DEF resume_read, callerVars, requestVars, portVars, dataVars, ioVars, TypeInv,
           PostedOK, DoneOp, ReadsOK, ReadOp
  <1>5. LengthOK'
    BY LengthsPositive
       DEF resume_read, callerVars, requestVars, portVars, dataVars, ioVars, TypeInv,
           LengthOK, ReadsOK, PostedOK, DataOK, ReadOp, DoneOp
  <1> QED
    BY <1>1, <1>2, <1>3, <1>4, <1>5 DEF TypeInv

LEMMA TypeWriteCompletes ==
    ASSUME TypeInv, write_completes
    PROVE  TypeInv'
  <1>1. DataOK'
    <2> PICK bytes \in write :
            /\ write' = {}
            /\ motor' = IF bytes # << >> /\ bytes = Request(bytes[1])
                        THEN Append(motor, bytes[1]) ELSE motor
      BY DEF write_completes
    <2>1. bytes \in Seq(1..MaxRequests) /\ motor \in Seq(1..MaxRequests)
      BY DEF TypeInv, DataOK
    <2>2. ASSUME bytes # << >> PROVE bytes[1] \in 1..MaxRequests
      <3>1. Len(bytes) \in Nat \ {0}
        BY <2>1, <2>2, EmptySeq
      <3>2. 1 \in 1 .. Len(bytes)
        BY <3>1
      <3> QED
        BY <2>1, <3>2, ElementOfSeq
    <2>3. motor' \in Seq(1..MaxRequests)
      BY <2>1, <2>2, AppendProperties
    <2> QED
      BY <2>3 DEF write_completes, callerVars, requestVars, dataVars, TypeInv, DataOK
  <1>2. FlagsOK'
    BY
       DEF write_completes, Done, Request, callerVars, requestVars, dataVars, TypeInv,
           FlagsOK, Quiet
  <1>3. ReadsOK'
    BY LengthsPositive
       DEF write_completes, Done, Request, callerVars, requestVars, dataVars, TypeInv,
           ReadsOK, ReadOp, LengthOK
  <1>4. PostedOK'
    BY LengthsPositive
       DEF write_completes, Done, Request, callerVars, requestVars, dataVars, TypeInv,
           PostedOK, DoneOp, ReadsOK, ReadOp
  <1>5. LengthOK'
    BY LengthsPositive
       DEF write_completes, Done, Request, callerVars, requestVars, dataVars, TypeInv,
           LengthOK, ReadsOK, PostedOK, DataOK, ReadOp, DoneOp
  <1> QED
    BY <1>1, <1>2, <1>3, <1>4, <1>5 DEF TypeInv

LEMMA TypeReadByte ==
    ASSUME TypeInv, NEW n \in DOMAIN reads, read_byte(n)
    PROVE  TypeInv'
  <1>1. DataOK'
    <2>1. /\ line \in Seq(Byte) /\ line # << >> /\ line' = Tail(line)
          /\ read_buffer' =
                 [read_buffer EXCEPT ![reads[n].first + reads[n].got] = Head(line)]
      BY DEF read_byte, TypeInv, DataOK
    <2>2. Head(line) \in Byte /\ line' \in Seq(Byte)
      BY <2>1, HeadTailProperties
    <2>3. read_buffer' \in [1..AnswerLength -> Byte]
      BY <2>1, <2>2 DEF TypeInv, DataOK
    <2> QED
      BY <2>2, <2>3 DEF read_byte, callerVars, requestVars, dataVars, TypeInv, DataOK
  <1>2. FlagsOK'
    BY
       DEF read_byte, Without, Restrict, Done, callerVars, requestVars, dataVars,
           TypeInv, FlagsOK, Quiet
  <1>3. ReadsOK'
    <2>1. /\ n \in DOMAIN reads
          /\ reads[n] \in ReadOp /\ reads[n].got < reads[n].want
          /\ reads[n].first + reads[n].want <= AnswerLength + 1
      BY DEF TypeInv, ReadsOK
    <2>2. CASE reads[n].got + 1 = reads[n].want
      BY <2>2 DEF read_byte, Without, Restrict, TypeInv, ReadsOK
    <2>3. CASE reads[n].got + 1 # reads[n].want
      <3>1. reads' = [reads EXCEPT ![n].got = @ + 1, ![n].resuming = TRUE]
        BY <2>3 DEF read_byte
      <3>2. /\ DOMAIN reads' = DOMAIN reads
            /\ \A m \in DOMAIN reads : m # n => reads'[m] = reads[m]
            /\ reads'[n] = [reads[n] EXCEPT !.got = @ + 1, !.resuming = TRUE]
        BY <2>1, <3>1
      <3>3. /\ reads'[n].got = reads[n].got + 1
            /\ reads'[n].first = reads[n].first /\ reads'[n].want = reads[n].want
        BY <2>1, <3>2 DEF ReadOp
      <3>5. reads'[n] \in ReadOp
        <4>1. reads[n].got + 1 \in Nat
          BY <2>1 DEF ReadOp
        <4> QED
          BY <2>1, <3>2, <4>1, Zenon DEF ReadOp
      <3>4. reads[n].got + 1 < reads[n].want
        <4>1. reads[n].got \in Nat /\ reads[n].want \in Nat
          BY <2>1 DEF ReadOp
        <4> QED
          BY <2>1, <2>3, <4>1
      <3> QED
        BY <2>1, <3>2, <3>3, <3>4, <3>5 DEF TypeInv, ReadsOK
    <2> QED
      BY <2>2, <2>3
  <1>4. PostedOK'
    <2>1. CASE reads[n].got + 1 = reads[n].want
      <3> DEFINE done == Done(IF reads[n].first = 1 THEN "header" ELSE "body",
                              reads[n].want)
      <3>1. reads[n] \in ReadOp /\ reads[n].first + reads[n].want <= AnswerLength + 1
        BY DEF TypeInv, ReadsOK
      <3>2. /\ done \in DoneOp
            /\ done.op = "body" => HeaderLength + done.want <= AnswerLength
        BY <3>1, LengthsPositive DEF Done, DoneOp, ReadOp
      <3>3. posted' = Append(posted, done)
        BY <2>1 DEF read_byte
      <3> HIDE DEF done
      <3> QED
        BY <3>2, <3>3, PostedAppend DEF TypeInv
    <2>2. CASE reads[n].got + 1 # reads[n].want
      BY <2>2 DEF read_byte, TypeInv, PostedOK
    <2> QED
      BY <2>1, <2>2
  <1>5. LengthOK'
    BY LengthsPositive
       DEF read_byte, Without, Restrict, Done, callerVars, requestVars, dataVars,
           TypeInv, LengthOK, ReadsOK, PostedOK, DataOK, ReadOp, DoneOp
  <1> QED
    BY <1>1, <1>2, <1>3, <1>4, <1>5 DEF TypeInv

LEMMA TypeAnswer ==
    ASSUME TypeInv, Answer
    PROVE  TypeInv'
  <1>1. DataOK'
    <2> PICK kind \in FrameKind : \E length \in 0..FrameLength(kind) :
              /\ line' = line \o SubSeq(Frame(Head(motor), kind), 1, length)
              /\ \/ answer' = answer
                 \/ answer' = SubSeq(Frame(Head(motor), kind), 1, length)
      BY DEF Answer
    <2>1. PICK length \in 0..FrameLength(kind) :
              /\ line' = line \o SubSeq(Frame(Head(motor), kind), 1, length)
              /\ \/ answer' = answer
                 \/ answer' = SubSeq(Frame(Head(motor), kind), 1, length)
      OBVIOUS
    <2>2. /\ motor \in Seq(1..MaxRequests) /\ motor # << >> /\ motor' = Tail(motor)
          /\ Head(motor) \in 1..MaxRequests /\ Tail(motor) \in Seq(1..MaxRequests)
      BY HeadTailProperties DEF Answer, TypeInv, DataOK
    <2>3. SubSeq(Frame(Head(motor), kind), 1, length) \in Seq(Byte)
      <3>1. Head(motor) \in 0..MaxRequests
        BY <2>2, LengthsPositive
      <3> QED
        BY <3>1, FrameBytes
    <2>4. line' \in Seq(Byte) /\ answer' \in Seq(Byte)
      BY <2>1, <2>3, ConcatProperties DEF TypeInv, DataOK
    <2> QED
      BY <2>2, <2>4
         DEF Answer, callerVars, requestVars, opVars, dataVars, ioVars, TypeInv, DataOK
  <1>2. FlagsOK'
    BY
       DEF Answer, Frame, callerVars, requestVars, opVars, dataVars, ioVars, TypeInv,
           FlagsOK, Quiet
  <1>3. ReadsOK'
    BY LengthsPositive
       DEF Answer, Frame, callerVars, requestVars, opVars, dataVars, ioVars, TypeInv,
           ReadsOK, ReadOp, LengthOK
  <1>4. PostedOK'
    BY LengthsPositive
       DEF Answer, Frame, callerVars, requestVars, opVars, dataVars, ioVars, TypeInv,
           PostedOK, DoneOp, ReadsOK, ReadOp
  <1>5. LengthOK'
    BY LengthsPositive
       DEF Answer, Frame, callerVars, requestVars, opVars, dataVars, ioVars, TypeInv,
           LengthOK, ReadsOK, PostedOK, DataOK, ReadOp, DoneOp
  <1> QED
    BY <1>1, <1>2, <1>3, <1>4, <1>5 DEF TypeInv

\* What takes bytes out of read_data.
TakesBytes ==
    \/ receive_byte \/ receive_bytes_at_once
    \/ receive_bytes_notified \/ receive_bytes_timed_out

LEMMA NextCases ==
    ASSUME [Next]_vars
    PROVE  \/ send_first_byte \/ send_last_byte
           \/ tx_enable_expect \/ tx_enable_cancel \/ tx_enable_clear
           \/ tx_enable_write
           \/ TakesBytes \/ receive_bytes_wait
           \/ on_written \/ on_header_length \/ on_header \/ on_body
           \/ \E n \in DOMAIN reads : resume_read(n)
           \/ write_completes \/ \E n \in DOMAIN reads : read_byte(n)
           \/ Answer \/ UNCHANGED vars
  BY DEF Next, Caller, tx_enable, IoThread, ReadByte, TakesBytes

LEMMA TypeNext == TypeInv /\ [Next]_vars => TypeInv'
  <1> SUFFICES ASSUME TypeInv, [Next]_vars PROVE TypeInv'
    OBVIOUS
  <1>1. CASE TakesBytes
    BY <1>1, TypeReceiveByte, TypeReceiveBytesAtOnce, TypeReceiveBytesNotified,
       TypeReceiveBytesTimedOut DEF TakesBytes
  <1>2. CASE UNCHANGED vars
    BY <1>2 DEF vars, callerVars, requestVars, portVars, opVars, dataVars, ioVars,
                TypeInv, DataOK, FlagsOK, ReadsOK, PostedOK, LengthOK
  <1> QED
    BY <1>1, <1>2, NextCases, TypeSendFirstByte, TypeSendLastByte, TypeTxEnableExpect,
       TypeTxEnableCancel, TypeTxEnableClear, TypeTxEnableWrite, TypeReceiveBytesWait,
       TypeOnWritten, TypeOnHeaderLength, TypeOnHeader, TypeOnBody, TypeResumeRead,
       TypeWriteCompletes, TypeReadByte, TypeAnswer

-----------------------------------------------------------------------------
(* Every step keeps SendInv.                                               *)

LEMMA SendNext ==
    ASSUME TypeInv, SendInv, [Next]_vars
    PROVE  SendInv'
  <1> DEFINE OfWrite(i) == posted[i].op \in {"write", "aborted_write"}
  <1>1. CASE \/ send_first_byte \/ send_last_byte
             \/ tx_enable_expect \/ tx_enable_cancel \/ tx_enable_clear
    BY <1>1 DEF send_first_byte, send_last_byte, tx_enable_expect, tx_enable_cancel,
                tx_enable_clear, SendInv
  <1>2. CASE tx_enable_write
    BY <1>2 DEF tx_enable_write, SendInv
  <1>3. CASE TakesBytes \/ receive_bytes_wait
    BY <1>3 DEF TakesBytes, receive_byte, receive_bytes_at_once, receive_bytes_notified,
                receive_bytes_timed_out, receive_bytes_wait, TakeAll, opVars, ioVars,
                dataVars, SendInv
  <1>4. CASE on_written
    BY <1>4 DEF on_written, SendInv
  <1>5. CASE on_header_length \/ on_body
    <2>1. /\ posted # << >> /\ posted' = Tail(posted) /\ ~OfWrite(1)
          /\ UNCHANGED << pc, write, send_data >>
      BY <1>5, FirstPosted DEF on_header_length, on_body, NextHandler, TypeInv,
                               callerVars, opVars
    <2>2. /\ Len(posted) \in Nat /\ Len(posted') = Len(posted) - 1
          /\ \A i \in 1 .. Len(posted') : posted'[i] = posted[i + 1]
      BY <2>1, FirstPosted DEF TypeInv
    <2>3. ASSUME NEW i \in 1 .. Len(posted), OfWrite(i)
          PROVE  i - 1 \in 1 .. Len(posted') /\ posted'[i - 1] = posted[i]
      BY <2>1, <2>2, <2>3
    <2> QED
      BY <2>1, <2>3 DEF SendInv
  <1>6. CASE on_header \/ (\E n \in DOMAIN reads : resume_read(n)) \/ Answer
    BY <1>6 DEF on_header, resume_read, Answer, callerVars, opVars, dataVars, ioVars,
                SendInv
  <1>7. CASE write_completes
    <2>1. posted \in Seq(DoneOp) /\ Len(posted) \in Nat /\ Done("write", 0) \in DoneOp
      BY DEF TypeInv, PostedOK, Done, DoneOp
    <2>2. posted' = Append(posted, Done("write", 0))
      BY <1>7 DEF write_completes
    <2>3. Len(posted') = Len(posted) + 1 /\ posted'[Len(posted) + 1].op = "write"
      BY <2>1, <2>2, AppendProperties DEF Done
    <2>4. \E i \in 1 .. Len(posted') : posted'[i].op = "write"
      BY <2>1, <2>3
    <2> QED
      BY <2>4 DEF SendInv
  <1>8. CASE \E n \in DOMAIN reads : read_byte(n)
    <2> PICK n \in DOMAIN reads : read_byte(n)
      BY <1>8
    <2>1. PICK done : posted' = posted \/ posted' = Append(posted, done)
      BY DEF read_byte
    <2>2. /\ Len(posted) \in Nat /\ Len(posted') \in Nat /\ Len(posted) <= Len(posted')
          /\ \A i \in 1 .. Len(posted) : posted'[i] = posted[i]
      BY <2>1 DEF TypeInv, PostedOK
    <2> QED
      BY <2>2 DEF read_byte, callerVars, dataVars, SendInv
  <1>9. CASE UNCHANGED vars
    BY <1>9 DEF vars, callerVars, opVars, dataVars, ioVars, SendInv
  <1> QED
    BY <1>1, <1>2, <1>3, <1>4, <1>5, <1>6, <1>7, <1>8, <1>9, NextCases

-----------------------------------------------------------------------------
(* Every step keeps ExchangeInv.  First the bytes.                         *)

LEMMA TakenType ==
    ASSUME TypeInv
    PROVE  /\ collected \in Seq(Byte) /\ read_data \in Seq(Byte) /\ Taken \in Seq(Byte)
           /\ answer \in Seq(Byte) /\ Len(answer) \in Nat /\ line \in Seq(Byte)
  BY ConcatProperties DEF TypeInv, DataOK, Taken

LEMMA TakenKept ==
    ASSUME TypeInv, TakesBytes \/ receive_bytes_wait
    PROVE  Taken' = Taken
  <1>1. CASE receive_byte
    <2>1. /\ read_data # << >> /\ read_data' = Tail(read_data)
          /\ collected' = Append(collected, Head(read_data))
      BY <1>1 DEF receive_byte
    <2>2. /\ collected \in Seq(Byte) /\ read_data \in Seq(Byte)
          /\ Head(read_data) \in Byte /\ Tail(read_data) \in Seq(Byte)
      BY <2>1, TakenType, HeadTailProperties
    <2>3. /\ collected' = collected \o << Head(read_data) >>
          /\ read_data = << Head(read_data) >> \o Tail(read_data)
      BY <2>1, <2>2, AppendIsConcat
    <2>4. << Head(read_data) >> \in Seq(Byte)
      BY <2>2
    <2> QED
      BY <2>1, <2>2, <2>3, <2>4, ConcatAssociative DEF Taken
  <1>2. CASE receive_bytes_at_once \/ receive_bytes_notified \/ receive_bytes_timed_out
    <2>1. collected' = collected \o read_data /\ read_data' = << >>
      BY <1>2 DEF receive_bytes_at_once, receive_bytes_notified,
                  receive_bytes_timed_out, TakeAll
    <2> QED
      BY <2>1, TakenType, ConcatEmptySeq DEF Taken
  <1>3. CASE receive_bytes_wait
    BY <1>3 DEF receive_bytes_wait, dataVars, Taken
  <1> QED
    BY <1>1, <1>2, <1>3 DEF TakesBytes

\* The first two bytes of an answer say how long it is.
LEMMA AnswerShape ==
    ASSUME TypeInv, AnswerOfCurrent, answer # << >>
    PROVE  /\ motor = << >> /\ Len(answer) \in Nat /\ Len(answer) >= 1
           /\ answer[1].kind \in FrameKind
           /\ Len(answer) <= FrameLength(answer[1].kind)
           /\ \A p \in 1 .. Len(answer) :
                  answer[p] = [of |-> current, kind |-> answer[1].kind, pos |-> p]
  <1>1. Len(answer) \in Nat /\ Len(answer) >= 1
    BY TakenType, EmptySeq
  <1>2. PICK kind \in FrameKind :
            /\ Len(answer) <= FrameLength(kind)
            /\ \A p \in 1 .. Len(answer) :
                   answer[p] = [of |-> current, kind |-> kind, pos |-> p]
    BY DEF AnswerOfCurrent
  <1>3. answer[1].kind = kind
    <2>1. 1 \in 1 .. Len(answer)
      BY <1>1
    <2>2. answer[1] = [of |-> current, kind |-> kind, pos |-> 1]
      BY <1>2, <2>1
    <2> QED
      BY <2>2
  <1> QED
    BY <1>1, <1>2, <1>3 DEF AnswerOfCurrent

\* The next byte of the line goes where the answer has it.
LEMMA BufferedNext ==
    ASSUME TypeInv, NEW n \in Nat, Buffered(n), line # << >>, line' = Tail(line),
           answer' = answer,
           n + 1 \in 1 .. AnswerLength,
           read_buffer' = [read_buffer EXCEPT ![n + 1] = Head(line)]
    PROVE  Buffered(n + 1)'
  <1>1. answer \in Seq(Byte) /\ Len(answer) \in Nat
    BY TakenType
  <1>2. n + 1 \in 1 .. Len(answer)
    <2>1. n # Len(answer)
      BY <1>1, SubSeqEmpty DEF Buffered
    <2> QED
      BY <1>1, <2>1 DEF Buffered
  <1>3. Len(answer) \in n + 1 .. Len(answer)
    BY <1>1, <1>2
  <1>4. Head(line) = answer[n + 1] /\ Tail(line) = SubSeq(answer, n + 1 + 1, Len(answer))
    BY <1>1, <1>2, <1>3, HeadTailOfSubSeq DEF Buffered
  <1>5. read_buffer'[n + 1] = answer[n + 1]
    BY <1>4 DEF TypeInv, DataOK
  <1>6. \A p \in 1 .. n : read_buffer'[p] = read_buffer[p]
    BY LengthsPositive DEF TypeInv, DataOK
  <1> QED
    BY <1>2, <1>4, <1>5, <1>6 DEF Buffered

\* What is in the first n places of read_buffer, of an answer that long.
LEMMA BufferedPart ==
    ASSUME TypeInv, NEW m \in Nat, NEW n \in Nat, m <= n, n <= AnswerLength, Buffered(n)
    PROVE  SubSeq(read_buffer, m + 1, n) = SubSeq(answer, m + 1, n)
  <1> DEFINE s == SubSeq(read_buffer, m + 1, n)
             t == SubSeq(answer, m + 1, n)
  <1>1. m + 1 \in 1 .. AnswerLength + 1 /\ n \in 0 .. AnswerLength
    BY LengthsPositive
  <1>2. /\ s \in Seq(Byte) /\ Len(s) = n - m
        /\ \A i \in 1 .. n - m : s[i] = read_buffer[m + i]
    BY <1>1, BufferPart DEF TypeInv
  <1>3. /\ t \in Seq(Byte) /\ Len(t) = n - m
        /\ \A i \in 1 .. n - m : t[i] = answer[m + i]
    <2>1. answer \in Seq(Byte) /\ Len(answer) \in Nat /\ n <= Len(answer)
      BY TakenType DEF Buffered
    <2>2. \A i \in m + 1 .. n : answer[i] \in Byte
      BY <2>1
    <2>3. /\ t \in Seq(Byte) /\ Len(t) = IF m + 1 <= n THEN n - (m + 1) + 1 ELSE 0
          /\ \A i \in 1 .. n - (m + 1) + 1 : t[i] = answer[m + 1 + i - 1]
      BY <2>2, SubSeqProperties
    <2> QED
      BY <2>3
  <1>4. \A i \in 1 .. n - m : m + i \in 1 .. n
    OBVIOUS
  <1>5. \A i \in 1 .. n - m : s[i] = t[i]
    BY <1>2, <1>3, <1>4 DEF Buffered
  <1> HIDE DEF s, t
  <1>6. s = t
    BY <1>2, <1>3, <1>5, SeqEqual
  <1> QED
    BY <1>6 DEF s, t

-----------------------------------------------------------------------------
(* Then the steps of the calling thread.                                   *)

LEMMA AppendPair ==
    ASSUME NEW n \in Nat
    PROVE  Append(<< n >>, n) = << n, n >>
  <1> DEFINE s == << n >>
             r == << n, n >>
  <1>1. s \in Seq(Nat) /\ Len(s) = 1 /\ s[1] = n
    OBVIOUS
  <1>2. r \in Seq(Nat) /\ Len(r) = 2 /\ r[1] = n /\ r[2] = n
    OBVIOUS
  <1> HIDE DEF s, r
  <1>3. Append(s, n) \in Seq(Nat)
    BY <1>1
  <1>4. Len(Append(s, n)) = 2
    <2>1. Len(Append(s, n)) = Len(s) + 1
      BY <1>1, AppendProperties
    <2> QED
      BY <1>1, <2>1
  <1>5. \A i \in 1 .. Len(s) : Append(s, n)[i] = s[i]
    BY <1>1, AppendProperties
  <1>6. Append(s, n)[Len(s) + 1] = n
    BY <1>1, AppendProperties
  <1>7. ASSUME NEW i \in 1 .. 2 PROVE Append(s, n)[i] = r[i]
    <2>1. CASE i = 1
      BY <1>1, <1>2, <1>5, <2>1
    <2>2. CASE i = 2
      BY <1>1, <1>2, <1>6, <2>2
    <2>3. i = 1 \/ i = 2
      OBVIOUS
    <2> QED
      BY <2>1, <2>2, <2>3
  <1>8. Append(s, n) = r
    BY <1>2, <1>3, <1>4, <1>7, SeqEqual
  <1> QED
    BY <1>8 DEF s, r

LEMMA StartsQuiet ==
    ASSUME TypeInv, SendInv, send_first_byte, quiet'
    PROVE  Preparing'
  <1>1. /\ Quiet /\ pc = "idle" /\ pc' = "send" /\ current' = current + 1
        /\ send_data' = Append(send_data, current')
        /\ \/ write' = write
           \/ write # {}
        /\ UNCHANGED << reads, line, motor, posted, io >>
    BY DEF send_first_byte, QueueByte, portVars, ioVars
  <1>2. AtRest'
    BY <1>1 DEF Quiet, AtRest
  <1>3. send_data = << >>
    <2>1. Len(posted) = 0
      BY <1>1 DEF Quiet
    <2> QED
      BY <1>1, <2>1 DEF Quiet, SendInv
  <1>4. send_data' = << current' >>
    BY <1>1, <1>3
  <1> QED
    BY <1>1, <1>2, <1>4 DEF Preparing

\* tx_enable finds nothing under way but the read it cancels.
LEMMA PreparesQuiet ==
    ASSUME TypeInv, ExchangeInv, quiet,
           send_last_byte \/ tx_enable_expect \/ tx_enable_cancel \/ tx_enable_clear
    PROVE  Preparing'
  <1>1. Preparing
    BY DEF ExchangeInv, Exchanging, send_last_byte, tx_enable_expect, tx_enable_cancel,
           tx_enable_clear
  <1>2. AtRest
    BY <1>1 DEF Preparing
  <1>3. CASE send_last_byte
    <2>1. /\ pc' = "expect" /\ send_data = << current >>
          /\ send_data' = Append(send_data, current) /\ current' = current
          /\ write' = write
          /\ UNCHANGED << reads, line, motor, posted, io >>
      BY <1>1, <1>2, <1>3
         DEF send_last_byte, QueueByte, Preparing, AtRest, portVars, ioVars, requestVars
    <2>2. send_data' = Request(current')
      <3>1. current \in Nat
        BY LengthsPositive DEF TypeInv, DataOK
      <3> QED
        BY <2>1, <3>1, AppendPair DEF Request
    <2>3. AtRest'
      BY <1>2, <2>1 DEF AtRest
    <2> QED
      BY <2>1, <2>2, <2>3 DEF Preparing
  <1>4. CASE tx_enable_expect
    <2>1. AtRest'
      BY <1>2, <1>4 DEF tx_enable_expect, AtRest, opVars, portVars, ioVars
    <2> QED
      BY <1>1, <1>4, <2>1 DEF tx_enable_expect, Preparing, Request, requestVars
  <1>5. CASE tx_enable_cancel
    <2>1. /\ reads' = Restrict(reads, {n \in DOMAIN reads : reads[n].resuming})
          /\ {n \in DOMAIN reads : reads[n].resuming} = {}
      BY <1>2, <1>5 DEF tx_enable_cancel, AtRest
    <2>2. DOMAIN reads' = {}
      BY <2>1 DEF Restrict
    <2>3. posted' = << >>
      <3>1. << >> \in Seq(DoneOp) /\ posted' = << >> \o << >>
        BY <1>2, <1>5, EmptySeq DEF tx_enable_cancel, AtRest
      <3> QED
        BY <3>1, ConcatEmptySeq
    <2>4. AtRest'
      BY <1>2, <1>5, <2>2, <2>3 DEF tx_enable_cancel, AtRest, portVars
    <2> QED
      BY <1>1, <1>5, <2>2, <2>4
         DEF tx_enable_cancel, Preparing, NoRead, Request, requestVars, dataVars
  <1>6. CASE tx_enable_clear
    <2>1. AtRest'
      BY <1>2, <1>6 DEF tx_enable_clear, AtRest, opVars, ioVars
    <2> QED
      BY <1>1, <1>6, <2>1
         DEF tx_enable_clear, Preparing, NoRead, Request, requestVars, opVars
  <1> QED
    BY <1>3, <1>4, <1>5, <1>6

LEMMA WritesQuiet ==
    ASSUME TypeInv, ExchangeInv, quiet, tx_enable_write
    PROVE  Exchanging'
  <1>1. Preparing /\ pc = "write"
    BY DEF ExchangeInv, Exchanging, tx_enable_write
  <1>2. /\ pc' = "idle" /\ write' = {Request(current)} /\ current' = current
        /\ posted' = << >> /\ io' = "idle" /\ DOMAIN reads' = {}
        /\ line' = << >> /\ motor' = << >> /\ answer' = << >>
        /\ collected' = << >> /\ read_data' = << >> /\ bytes_to_read' = AnswerLength
    BY <1>1 DEF tx_enable_write, Preparing, AtRest, NoRead, requestVars, portVars,
                dataVars, ioVars
  <1>3. Taken' = << >>
    <2>1. << >> \in Seq(Byte) /\ Taken' = << >> \o << >>
      BY <1>2, EmptySeq DEF Taken
    <2> QED
      BY <2>1, ConcatEmptySeq
  <1>4. AnswerOfCurrent'
    <2>1. "data" \in FrameKind /\ Len(answer') = 0 /\ FrameLength("data") >= 0
      BY <1>2, LengthsPositive DEF FrameKind, FrameLength
    <2> QED
      BY <1>2, <2>1 DEF AnswerOfCurrent
  <1>5. Writing'
    BY <1>2, <1>3 DEF Writing, Others, NoRead, Request
  <1> QED
    BY <1>2, <1>4, <1>5 DEF Exchanging, Underway

\* Nothing else of an exchange moves as the caller takes its bytes.
LEMMA TakesQuiet ==
    ASSUME TypeInv, ExchangeInv, quiet, TakesBytes \/ receive_bytes_wait
    PROVE  Exchanging'
  <1>1. /\ pc \in {"idle", "wait"} /\ pc' \in {"idle", "wait"}
        /\ pc' = "wait" => ~notified'
        /\ UNCHANGED << write, reads, posted, io, line, motor, answer, read_buffer,
                        bytes_to_read, current >>
    BY DEF TakesBytes, receive_byte, receive_bytes_at_once, receive_bytes_notified,
           receive_bytes_timed_out, receive_bytes_wait, TakeAll, requestVars, portVars,
           opVars, ioVars, dataVars
  <1>2. Exchanging
    BY <1>1 DEF ExchangeInv, Preparing
  <1>3. Taken' = Taken
    BY TakenKept
  <1>4. AnswerOfCurrent'
    BY <1>1, <1>2 DEF Exchanging, AnswerOfCurrent
  <1>5. Finished => Finished'
    BY <1>1, <1>3 DEF Finished, Others, NoRead
  <1>6. Underway => Underway'
    BY <1>1, <1>3 DEF Underway, Writing, Written, ReadingHeader, HeaderRead, HeaderSeen,
           ReadingBody, BodyRead, Others, NoRead, Reading, Buffered, Request
  <1> QED
    BY <1>1, <1>2, <1>4, <1>5, <1>6 DEF Exchanging

-----------------------------------------------------------------------------
(* The handlers: which phase each belongs to, and the phase it leads to.   *)

LEMMA ToReadHeader ==
    ASSUME TypeInv, ExchangeInv, quiet, on_written
    PROVE  Exchanging'
  <1>1. /\ io = "idle" /\ posted # << >> /\ posted' = Tail(posted) /\ io' = io
        /\ Head(posted).op \in {"write", "aborted_write"}
        /\ UNCHANGED << write, line, motor, answer, read_buffer, bytes_to_read, current,
                        collected, read_data, pc, notified >>
    BY DEF on_written, NextHandler, callerVars, requestVars, portVars
  <1>2. Exchanging
    BY <1>1 DEF ExchangeInv, Preparing, AtRest
  <1>3. Written
    BY <1>1, <1>2 DEF Exchanging, Finished, Underway, Writing, ReadingHeader, HeaderRead,
           HeaderSeen, ReadingBody, BodyRead, Others, Done
  <1>4. posted = << Done("write", 0) >> /\ DOMAIN reads = {}
    BY <1>3 DEF Written, Others, NoRead
  <1>5. posted' = << >> /\ reads' = With(Read(1, HeaderLength))
    BY <1>1, <1>4 DEF on_written, Done
  <1>6. /\ DOMAIN reads' = {Free} /\ reads'[Free].first = 1 /\ reads'[Free].got = 0
        /\ reads'[Free].want = HeaderLength
    BY <1>4, <1>5 DEF With, Read
  <1>7. Buffered(0)' /\ Taken' = Taken
    BY <1>1, <1>3 DEF Written, Buffered, Taken
  <1>8. ReadingHeader'
    <2>1. 0 + reads'[Free].got = 0
      BY <1>6
    <2>2. Reading(0, HeaderLength)'
      BY <1>6, <1>7, <2>1 DEF Reading, Buffered
    <2> QED
      BY <1>1, <1>3, <1>5, <1>7, <2>2 DEF Written, ReadingHeader, Others
  <1>9. AnswerOfCurrent'
    BY <1>1, <1>2 DEF Exchanging, AnswerOfCurrent
  <1>10. pc' = "wait" => ~notified'
    BY <1>1, <1>2, <1>4 DEF Exchanging, Finished, Others
  <1> QED
    BY <1>1, <1>2, <1>8, <1>9, <1>10 DEF Exchanging, Underway

\* The expected length becomes that of the frame the motor has sent.
LEMMA ToHeaderSeen ==
    ASSUME TypeInv, ExchangeInv, quiet, on_header_length
    PROVE  Exchanging'
  <1>1. /\ io = "idle" /\ posted # << >> /\ posted' = Tail(posted) /\ io' = "header"
        /\ Head(posted).op = "header"
        /\ UNCHANGED << write, reads, line, motor, answer, read_buffer, current,
                        collected, read_data, pc, notified >>
    BY DEF on_header_length, NextHandler, callerVars, requestVars, portVars, opVars
  <1>2. Exchanging
    BY <1>1 DEF ExchangeInv, Preparing, AtRest
  <1>3. HeaderRead
    BY <1>1, <1>2 DEF Exchanging, Finished, Underway, Writing, Written, ReadingHeader,
           HeaderSeen, ReadingBody, BodyRead, Others, Done
  <1>4. /\ posted = << Done("header", HeaderLength) >> /\ Buffered(HeaderLength)
        /\ bytes_to_read = AnswerLength
    BY <1>3 DEF HeaderRead, Others
  <1>5. posted' = << >>
    BY <1>1, <1>4
  <1>6. /\ Len(answer) >= 2 /\ answer # << >> /\ read_buffer[2] = answer[2]
    BY <1>4, LengthsPositive, TakenType DEF Buffered
  <1>7. /\ answer[2].pos = 2 /\ answer[2].kind = answer[1].kind
        /\ answer[1].kind \in FrameKind
    <2>1. 2 \in 1 .. Len(answer)
      BY <1>6, TakenType
    <2>2. /\ answer[1].kind \in FrameKind
          /\ \A p \in 1 .. Len(answer) :
                 answer[p] = [of |-> current, kind |-> answer[1].kind, pos |-> p]
      BY <1>2, <1>6, AnswerShape DEF Exchanging
    <2>3. answer[2] = [of |-> current, kind |-> answer[1].kind, pos |-> 2]
      BY <2>1, <2>2
    <2> QED
      BY <2>2, <2>3
  <1>8. bytes_to_read' = FrameLength(answer[1].kind)
    <2>1. HighBit(read_buffer[2]) = {answer[1].kind = "exception"}
      BY <1>6, <1>7 DEF HighBit
    <2>2. bytes_to_read' = IF answer[1].kind = "exception"
                           THEN ExceptionLength ELSE AnswerLength
      BY <1>4, <2>1 DEF on_header_length
    <2> QED
      BY <1>7, <2>2 DEF FrameLength, FrameKind
  <1>9. HeaderSeen'
    BY <1>1, <1>3, <1>5, <1>8 DEF HeaderRead, HeaderSeen, Others, NoRead, Taken, Buffered
  <1>10. AnswerOfCurrent'
    BY <1>1, <1>2 DEF Exchanging, AnswerOfCurrent
  <1>11. pc' = "wait" => ~notified'
    BY <1>1, <1>2, <1>4 DEF Exchanging, Finished, Others
  <1> QED
    BY <1>1, <1>2, <1>9, <1>10, <1>11 DEF Exchanging, Underway

LEMMA ToReadBody ==
    ASSUME TypeInv, ExchangeInv, quiet, on_header
    PROVE  Exchanging'
  <1>1. /\ io = "header" /\ io' = "idle" /\ posted' = posted
        /\ reads' = With(Read(HeaderLength + 1, bytes_to_read - HeaderLength))
        /\ read_data' = read_data \o SubSeq(read_buffer, 1, HeaderLength)
        /\ UNCHANGED << write, line, motor, answer, read_buffer, bytes_to_read, current,
                        collected, pc, notified >>
    BY DEF on_header, callerVars, requestVars, portVars
  <1>2. Exchanging
    BY <1>1 DEF ExchangeInv, Preparing, AtRest
  <1>3. HeaderSeen
    BY <1>1, <1>2 DEF Exchanging, Finished, Underway, Writing, Written, ReadingHeader,
           HeaderRead, ReadingBody, BodyRead, Others
  <1>4. /\ DOMAIN reads = {} /\ Buffered(HeaderLength) /\ Taken = << >>
        /\ bytes_to_read = FrameLength(answer[1].kind)
    BY <1>3 DEF HeaderSeen, NoRead
  <1>5. /\ DOMAIN reads' = {Free} /\ reads'[Free].first = HeaderLength + 1
        /\ reads'[Free].got = 0 /\ reads'[Free].want = bytes_to_read - HeaderLength
    BY <1>1, <1>4 DEF With, Read
  <1>6. Taken' = SubSeq(answer, 1, HeaderLength)
    <2> DEFINE s == SubSeq(read_buffer, 1, HeaderLength)
    <2>1. s \in Seq(Byte) /\ s = SubSeq(answer, 1, HeaderLength)
      <3>1. SubSeq(read_buffer, 0 + 1, HeaderLength) = SubSeq(answer, 0 + 1, HeaderLength)
        BY <1>4, LengthsPositive, BufferedPart
      <3>2. 1 \in 1 .. AnswerLength + 1 /\ HeaderLength \in 0 .. AnswerLength
        BY LengthsPositive
      <3>3. s \in Seq(Byte)
        BY <3>2, BufferPart DEF TypeInv
      <3> QED
        BY <3>1, <3>3
    <2> HIDE DEF s
    <2>2. Taken' = collected \o (read_data \o s)
      BY <1>1 DEF Taken, s
    <2>3. Taken' = Taken \o s
      <3>1. collected \in Seq(Byte) /\ read_data \in Seq(Byte) /\ s \in Seq(Byte)
        BY <2>1, TakenType
      <3>2. (collected \o read_data) \o s = collected \o (read_data \o s)
        BY <3>1, ConcatAssociative
      <3> QED
        BY <2>2, <3>2 DEF Taken
    <2>4. Taken' = s
      BY <1>4, <2>1, <2>3, ConcatEmptySeq
    <2> QED
      BY <2>1, <2>4
  <1>7. Reading(HeaderLength, bytes_to_read - HeaderLength)'
    <2>1. HeaderLength + reads'[Free].got = HeaderLength
      BY <1>5, LengthsPositive
    <2>2. Buffered(HeaderLength)'
      BY <1>1, <1>4 DEF Buffered
    <2> QED
      BY <1>1, <1>5, <2>1, <2>2 DEF Reading, Buffered
  <1>8. ReadingBody'
    BY <1>1, <1>3, <1>4, <1>6, <1>7 DEF HeaderSeen, ReadingBody, Others
  <1>9. AnswerOfCurrent'
    BY <1>1, <1>2 DEF Exchanging, AnswerOfCurrent
  <1>10. pc' = "wait" => ~notified'
    BY <1>1, <1>2 DEF Exchanging, Finished, Others
  <1> QED
    BY <1>1, <1>2, <1>8, <1>9, <1>10 DEF Exchanging, Underway

\* With the last byte the whole answer has been handed over.
LEMMA ToFinished ==
    ASSUME TypeInv, ExchangeInv, quiet, on_body
    PROVE  Exchanging'
  <1>1. /\ io = "idle" /\ posted # << >> /\ posted' = Tail(posted) /\ io' = io
        /\ Head(posted).op = "body"
        /\ read_data' = read_data \o
               SubSeq(read_buffer, HeaderLength + 1, HeaderLength + Head(posted).want)
        /\ UNCHANGED << write, reads, line, motor, answer, read_buffer, bytes_to_read,
                        current, collected, pc >>
    BY DEF on_body, NextHandler, requestVars, portVars, opVars
  <1>2. Exchanging
    BY <1>1 DEF ExchangeInv, Preparing, AtRest
  <1>3. BodyRead
    BY <1>1, <1>2 DEF Exchanging, Finished, Underway, Writing, Written, ReadingHeader,
           HeaderRead, HeaderSeen, ReadingBody, Others, Done
  <1> DEFINE n == bytes_to_read
  <1>4. /\ posted = << Done("body", n - HeaderLength) >> /\ Buffered(n)
        /\ Taken = SubSeq(answer, 1, HeaderLength) /\ n = FrameLength(answer[1].kind)
        /\ AnswerOfCurrent
    BY <1>2, <1>3 DEF BodyRead, Others, Exchanging
  <1>5. posted' = << >> /\ Head(posted).want = n - HeaderLength
    BY <1>1, <1>4 DEF Done
  <1>6. n \in Nat /\ n >= 3 /\ n <= AnswerLength /\ Len(answer) = n /\ motor = << >>
    <2>1. n \in Nat /\ (n = 0 \/ n >= 3) /\ n <= AnswerLength
      BY LengthsPositive DEF TypeInv, LengthOK
    <2>2. n # 0
      BY <1>1 DEF TypeInv, LengthOK
    <2>3. Len(answer) >= n /\ Len(answer) \in Nat
      BY <1>4, TakenType DEF Buffered
    <2>4. answer # << >>
      BY <2>1, <2>2, <2>3
    <2> QED
      BY <1>4, <2>1, <2>2, <2>3, <2>4, AnswerShape
  <1> HIDE DEF n
  <1>7. line = << >>
    BY <1>4, <1>6, SubSeqEmpty DEF Buffered
  <1>8. Taken' = answer
    <2> DEFINE s == SubSeq(read_buffer, HeaderLength + 1, n)
    <2>1. s \in Seq(Byte) /\ s = SubSeq(answer, HeaderLength + 1, n)
      <3>1. s = SubSeq(answer, HeaderLength + 1, n)
        <4>1. /\ HeaderLength \in Nat /\ n \in Nat
              /\ HeaderLength <= n /\ n <= AnswerLength
          BY <1>6, LengthsPositive
        <4> QED
          BY <1>4, <4>1, BufferedPart
      <3>2. HeaderLength + 1 \in 1 .. AnswerLength + 1 /\ n \in 0 .. AnswerLength
        BY <1>6, LengthsPositive
      <3>3. s \in Seq(Byte)
        BY <3>2, BufferPart DEF TypeInv
      <3> QED
        BY <3>1, <3>3
    <2>2. read_data' = read_data \o s
      <3>1. HeaderLength + Head(posted).want = n
        BY <1>5, <1>6, LengthsPositive
      <3> QED
        BY <1>1, <3>1
    <2> HIDE DEF s
    <2>3. Taken' = Taken \o s
      <3>1. collected \in Seq(Byte) /\ read_data \in Seq(Byte) /\ s \in Seq(Byte)
        BY <2>1, TakenType
      <3>2. (collected \o read_data) \o s = collected \o (read_data \o s)
        BY <3>1, ConcatAssociative
      <3> QED
        BY <1>1, <2>2, <3>2 DEF Taken
    <2>4. SubSeq(answer, 1, HeaderLength) \o SubSeq(answer, HeaderLength + 1, n)
              = SubSeq(answer, 1, n)
      <3>1. /\ 1 \in 1 .. Len(answer) + 1 /\ HeaderLength \in 1 - 1 .. Len(answer)
            /\ n \in HeaderLength .. Len(answer)
        BY <1>6, LengthsPositive
      <3> QED
        BY <3>1, TakenType, ConcatAdjacentSubSeq
    <2>5. SubSeq(answer, 1, n) = answer
      BY <1>6, TakenType, SubSeqFull
    <2> QED
      BY <1>4, <2>1, <2>3, <2>4, <2>5
  <1>9. Finished'
    BY <1>1, <1>3, <1>5, <1>6, <1>7, <1>8
       DEF BodyRead, Finished, Others, NoRead, n
  <1>10. AnswerOfCurrent'
    BY <1>1, <1>4 DEF AnswerOfCurrent
  <1> QED
    BY <1>1, <1>2, <1>9, <1>10 DEF Exchanging

LEMMA ResumesQuiet ==
    ASSUME TypeInv, ExchangeInv, quiet, NEW n \in DOMAIN reads, resume_read(n)
    PROVE  Exchanging'
  <1>1. /\ reads' = [reads EXCEPT ![n].resuming = FALSE] /\ reads[n].resuming
        /\ reads[n] \in ReadOp
        /\ UNCHANGED << write, posted, io, line, motor, answer, read_buffer,
                        bytes_to_read, current, collected, read_data, pc, notified >>
    BY DEF resume_read, callerVars, requestVars, portVars, dataVars, ioVars, TypeInv,
           ReadsOK
  <1>2. Exchanging
    BY <1>1 DEF ExchangeInv, Preparing, AtRest
  <1>3. ReadingHeader \/ ReadingBody
    BY <1>2 DEF Exchanging, Finished, Underway, Writing, Written, HeaderRead, HeaderSeen,
           BodyRead, NoRead
  <1>4. /\ DOMAIN reads' = DOMAIN reads /\ reads'[n].first = reads[n].first
        /\ reads'[n].want = reads[n].want /\ reads'[n].got = reads[n].got
    BY <1>1 DEF ReadOp
  <1>5. ASSUME NEW before, NEW want, Reading(before, want)
        PROVE  Reading(before, want)'
    <2>1. /\ DOMAIN reads = {n} /\ reads[n].first = before + 1 /\ reads[n].want = want
          /\ Buffered(before + reads[n].got)
      BY <1>5 DEF Reading
    <2>2. PICK k : k = before + reads[n].got
      OBVIOUS
    <2>3. Buffered(k)'
      BY <1>1, <2>1, <2>2 DEF Buffered
    <2>4. Buffered(before + reads[n].got)'
      BY <1>4, <2>2, <2>3
    <2> QED
      BY <1>4, <2>1, <2>4 DEF Reading
  <1>6. Taken' = Taken
    BY <1>1 DEF Taken
  <1>7. ReadingHeader => ReadingHeader'
    BY <1>1, <1>5, <1>6 DEF ReadingHeader, Others
  <1>8. ReadingBody => ReadingBody'
    BY <1>1, <1>5, <1>6 DEF ReadingBody, Others
  <1>9. AnswerOfCurrent'
    BY <1>1, <1>2 DEF Exchanging, AnswerOfCurrent
  <1>10. pc' = "wait" => ~notified'
    BY <1>1, <1>2, <1>3 DEF Exchanging, Finished, NoRead
  <1> QED
    BY <1>1, <1>2, <1>3, <1>7, <1>8, <1>9, <1>10 DEF Exchanging, Underway

-----------------------------------------------------------------------------
(* The port and the motor.                                                 *)

LEMMA ToWritten ==
    ASSUME TypeInv, ExchangeInv, quiet, write_completes
    PROVE  Exchanging'
  <1>1. PICK bytes \in write :
            /\ write' = {} /\ posted' = Append(posted, Done("write", 0))
            /\ motor' = IF bytes # << >> /\ bytes = Request(bytes[1])
                        THEN Append(motor, bytes[1]) ELSE motor
            /\ UNCHANGED << reads, read_buffer, io, line, answer, pc, notified,
                            collected, current, read_data, bytes_to_read >>
    BY DEF write_completes, callerVars, requestVars, dataVars
  <1>2. Exchanging
    BY <1>1 DEF ExchangeInv, Preparing, AtRest
  <1>3. Writing
    BY <1>1, <1>2 DEF Exchanging, Finished, Underway, Written, ReadingHeader,
           HeaderRead, HeaderSeen, ReadingBody, BodyRead, Others
  <1>4. /\ bytes = Request(current) /\ posted = << >> /\ motor = << >>
        /\ answer = << >> /\ line = << >>
    BY <1>1, <1>3 DEF Writing, Others
  <1>5. posted' = << Done("write", 0) >>
    BY <1>1, <1>4
  <1>6. motor' = << current >>
    <2>1. bytes[1] = current /\ bytes # << >>
      BY <1>4 DEF Request
    <2> QED
      BY <1>1, <1>4, <2>1
  <1>7. Buffered(0)'
    BY <1>1, <1>4, SubSeqEmpty DEF Buffered
  <1>8. Written'
    BY <1>1, <1>3, <1>5, <1>7 DEF Writing, Written, Others, NoRead, Taken
  <1>9. AnswerOfCurrent'
    BY <1>1, <1>2, <1>4, <1>6 DEF Exchanging, AnswerOfCurrent
  <1>10. pc' = "wait" => ~notified'
    BY <1>1, <1>2, <1>3, <1>4 DEF Exchanging, Finished, Others
  <1> QED
    BY <1>1, <1>2, <1>8, <1>9, <1>10 DEF Exchanging, Underway

\* A byte goes to the one read there is.
LEMMA ReadingNext ==
    ASSUME TypeInv, NEW n \in DOMAIN reads, read_byte(n),
           NEW before \in Nat, NEW want \in Nat, Reading(before, want)
    PROVE  IF reads[n].got + 1 = want
           THEN /\ DOMAIN reads' = {} /\ Buffered(before + want)'
                /\ posted' = Append(posted, Done(IF before = 0 THEN "header" ELSE "body",
                                                 want))
           ELSE Reading(before, want)' /\ posted' = posted
  <1>1. /\ DOMAIN reads = {n} /\ reads[n] \in ReadOp
        /\ reads[n].first = before + 1 /\ reads[n].want = want
        /\ Buffered(before + reads[n].got)
        /\ reads[n].got < reads[n].want
        /\ reads[n].first + reads[n].want <= AnswerLength + 1
    BY DEF Reading, TypeInv, ReadsOK
  <1> DEFINE got == reads[n].got
             at == before + got
  <1>2. got \in Nat /\ at \in Nat /\ at + 1 \in 1 .. AnswerLength /\ at + 1 = before + (got + 1)
    BY <1>1, LengthsPositive DEF ReadOp
  <1>3. /\ line # << >> /\ line' = Tail(line) /\ answer' = answer
        /\ read_buffer' = [read_buffer EXCEPT ![at + 1] = Head(line)]
    <2>1. reads[n].first + got = at + 1
      BY <1>1, <1>2
    <2> QED
      BY <2>1 DEF read_byte
  <1> HIDE DEF at, got
  <1>4. PICK k \in Nat : k = at
    BY <1>2
  <1>5. PICK m \in Nat : m = k + 1
    BY <1>4
  <1>6. Buffered(k)
    BY <1>1, <1>4 DEF at, got
  <1>7. Buffered(k + 1)'
    BY <1>2, <1>3, <1>4, <1>6, BufferedNext
  <1>8. Buffered(m)'
    BY <1>5, <1>7
  <1>9. CASE got + 1 = want
    <2>1. reads' = Without(n)
      BY <1>1, <1>9 DEF read_byte, got
    <2>2. DOMAIN reads' = {}
      BY <1>1, <2>1 DEF Without, Restrict
    <2>3. posted' = Append(posted, Done(IF before = 0 THEN "header" ELSE "body", want))
      BY <1>1, <1>9 DEF read_byte, got
    <2>4. m = before + want
      BY <1>2, <1>4, <1>5, <1>9
    <2>5. Buffered(before + want)'
      BY <1>8, <2>4
    <2> QED
      BY <1>9, <2>2, <2>3, <2>5 DEF got
  <1>10. CASE got + 1 # want
    <2>1. /\ reads' = [reads EXCEPT ![n].got = @ + 1, ![n].resuming = TRUE]
          /\ posted' = posted
      BY <1>1, <1>10 DEF read_byte, got
    <2>2. /\ DOMAIN reads' = {n} /\ reads'[n].first = before + 1
          /\ reads'[n].want = want /\ reads'[n].got = got + 1
      BY <1>1, <2>1 DEF ReadOp, got
    <2>3. Buffered(before + reads[n].got)'
      <3>1. m = before + reads'[n].got
        BY <1>2, <1>4, <1>5, <2>2
      <3> QED
        BY <1>8, <3>1
    <2>4. Reading(before, want)'
      BY <2>2, <2>3 DEF Reading
    <2> QED
      BY <1>10, <2>1, <2>4 DEF got
  <1> QED
    BY <1>9, <1>10 DEF got

LEMMA ReadsQuiet ==
    ASSUME TypeInv, ExchangeInv, quiet, NEW n \in DOMAIN reads, read_byte(n)
    PROVE  Exchanging'
  <1>1. /\ line # << >>
        /\ UNCHANGED << write, io, motor, answer, bytes_to_read, current, collected,
                        read_data, pc, notified >>
    BY DEF read_byte, callerVars, requestVars, dataVars
  <1>2. Exchanging
    BY <1>1 DEF ExchangeInv, Preparing, AtRest
  <1>3. ReadingHeader \/ ReadingBody
    BY <1>1, <1>2 DEF Exchanging, Finished, Underway, Writing, Written, HeaderRead,
           HeaderSeen, BodyRead, NoRead
  <1>4. Taken' = Taken /\ posted = << >>
    BY <1>1, <1>3 DEF Taken, ReadingHeader, ReadingBody, Others
  <1>5. AnswerOfCurrent'
    BY <1>1, <1>2 DEF Exchanging, AnswerOfCurrent
  <1>6. pc' = "wait" => ~notified'
    BY <1>1, <1>2 DEF Exchanging, Finished
  <1>7. CASE ReadingHeader
    <2>1. Reading(0, HeaderLength) /\ 0 \in Nat /\ HeaderLength \in Nat
      BY <1>7, LengthsPositive DEF ReadingHeader
    <2>2. IF reads[n].got + 1 = HeaderLength
          THEN /\ DOMAIN reads' = {} /\ Buffered(0 + HeaderLength)'
               /\ posted' = Append(posted, Done("header", HeaderLength))
          ELSE Reading(0, HeaderLength)' /\ posted' = posted
      BY <2>1, ReadingNext
    <2>3. CASE reads[n].got + 1 = HeaderLength
      <3>1. posted' = << Done("header", HeaderLength) >>
        BY <1>4, <2>2, <2>3
      <3>2. 0 + HeaderLength = HeaderLength
        BY LengthsPositive
      <3>3. Buffered(HeaderLength)'
        BY <2>2, <2>3, <3>2
      <3>4. HeaderRead'
        BY <1>1, <1>4, <1>7, <2>2, <2>3, <3>1, <3>3
           DEF ReadingHeader, HeaderRead, Others, NoRead
      <3> QED
        BY <1>1, <1>2, <1>5, <1>6, <3>4 DEF Exchanging, Underway
    <2>4. CASE reads[n].got + 1 # HeaderLength
      <3>1. ReadingHeader'
        BY <1>1, <1>4, <1>7, <2>2, <2>4 DEF ReadingHeader, Others
      <3> QED
        BY <1>1, <1>2, <1>5, <1>6, <3>1 DEF Exchanging, Underway
    <2> QED
      BY <2>3, <2>4
  <1>8. CASE ReadingBody
    <2> PICK want \in Nat : want = bytes_to_read - HeaderLength
      <3>1. bytes_to_read \in {0, AnswerLength, ExceptionLength} /\ bytes_to_read # 0
        BY DEF TypeInv, LengthOK
      <3> QED
        BY <3>1, LengthsPositive
    <2>1. Reading(HeaderLength, want) /\ HeaderLength \in Nat
      BY <1>8, LengthsPositive DEF ReadingBody
    <2>2. IF reads[n].got + 1 = want
          THEN /\ DOMAIN reads' = {} /\ Buffered(HeaderLength + want)'
               /\ posted' = Append(posted, Done("body", want))
          ELSE Reading(HeaderLength, want)' /\ posted' = posted
      BY <2>1, ReadingNext, LengthsPositive
    <2>3. want = bytes_to_read' - HeaderLength /\ bytes_to_read' = HeaderLength + want
      <3>1. bytes_to_read \in Nat
        BY LengthsPositive DEF TypeInv, LengthOK
      <3> QED
        BY <1>1, <3>1, LengthsPositive
    <2>4. CASE reads[n].got + 1 = want
      <3>1. posted' = << Done("body", want) >>
        BY <1>4, <2>2, <2>4
      <3>2. Buffered(bytes_to_read)'
        BY <2>2, <2>3, <2>4
      <3>3. BodyRead'
        BY <1>1, <1>4, <1>8, <2>2, <2>3, <2>4, <3>1, <3>2
           DEF ReadingBody, BodyRead, Others, NoRead
      <3> QED
        BY <1>1, <1>2, <1>5, <1>6, <3>3 DEF Exchanging, Underway
    <2>5. CASE reads[n].got + 1 # want
      <3>1. Reading(HeaderLength, bytes_to_read - HeaderLength)'
        BY <2>2, <2>3, <2>5
      <3>2. ReadingBody'
        BY <1>1, <1>4, <1>8, <2>2, <2>5, <3>1 DEF ReadingBody, Others
      <3> QED
        BY <1>1, <1>2, <1>5, <1>6, <3>2 DEF Exchanging, Underway
    <2> QED
      BY <2>4, <2>5
  <1> QED
    BY <1>3, <1>7, <1>8

\* The motor's answer is the first thing on the line since the request.
LEMMA AnswersQuiet ==
    ASSUME TypeInv, ExchangeInv, quiet, Answer
    PROVE  Exchanging'
  <1>1. /\ motor # << >> /\ motor' = Tail(motor)
        /\ UNCHANGED << write, reads, read_buffer, posted, io, bytes_to_read, current,
                        collected, read_data, pc, notified >>
    BY DEF Answer, callerVars, requestVars, opVars, dataVars, ioVars
  <1>2. Exchanging
    BY <1>1 DEF ExchangeInv, Preparing, AtRest
  <1>3. /\ motor = << current >> /\ answer = << >> /\ Len(answer) = 0
        /\ Head(motor) = current /\ motor' = << >> /\ pc \in {"idle", "wait"}
    BY <1>1, <1>2 DEF Exchanging, AnswerOfCurrent
  <1>4. current \in 0..MaxRequests
    BY DEF TypeInv, DataOK
  <1>5. PICK kind \in FrameKind : \E length \in 0..FrameLength(kind) :
            /\ line' = line \o SubSeq(Frame(current, kind), 1, length)
            /\ answer' = SubSeq(Frame(current, kind), 1, length)
    BY <1>3 DEF Answer
  <1>6. PICK length \in 0..FrameLength(kind) :
            /\ line' = line \o SubSeq(Frame(current, kind), 1, length)
            /\ answer' = SubSeq(Frame(current, kind), 1, length)
    BY <1>5
  <1>7. /\ answer' \in Seq(Byte) /\ Len(answer') = length
        /\ \A p \in 1 .. length :
               answer'[p] = [of |-> current, kind |-> kind, pos |-> p]
    BY <1>4, <1>6, FrameBytes
  <1>8. length \in Nat /\ length <= FrameLength(kind)
    BY LengthsPositive
  <1>9. AnswerOfCurrent'
    BY <1>1, <1>3, <1>7, <1>8 DEF AnswerOfCurrent
  <1>10. HeaderLength = 2
    BY LengthsPositive
  <1>11. Written \/ ReadingHeader
    <2>1. ~Writing /\ ~Finished
      BY <1>1 DEF Writing, Finished
    <2>2. ~HeaderRead /\ ~HeaderSeen
      BY <1>3, <1>10 DEF HeaderRead, HeaderSeen, Buffered
    <2>3. ~BodyRead
      <3>1. bytes_to_read \in {0, AnswerLength, ExceptionLength}
        BY DEF TypeInv, LengthOK
      <3>2. ASSUME BodyRead PROVE FALSE
        <4>1. bytes_to_read # 0 /\ Buffered(bytes_to_read)
          <5>1. posted # << >>
            BY <3>2 DEF BodyRead, Others
          <5> QED
            BY <3>2, <5>1 DEF BodyRead, TypeInv, LengthOK
        <4> QED
          BY <1>3, <3>1, <4>1, LengthsPositive DEF Buffered
      <3> QED
        BY <3>2
    <2>4. ASSUME ReadingBody PROVE FALSE
      <3>1. PICK n \in DOMAIN reads : Buffered(HeaderLength + reads[n].got)
        BY <2>4 DEF ReadingBody, Reading
      <3>2. reads[n].got \in Nat
        BY DEF TypeInv, ReadsOK, ReadOp
      <3> QED
        BY <1>3, <1>10, <3>1, <3>2 DEF Buffered
    <2> QED
      BY <1>2, <2>1, <2>2, <2>3, <2>4 DEF Exchanging, Underway
  <1>12. Taken' = Taken
    BY <1>1 DEF Taken
  <1>13. ASSUME line = << >> PROVE Buffered(0)'
    <2>1. line' = answer'
      BY <1>6, <1>7, <1>13, ConcatEmptySeq
    <2>2. SubSeq(answer', 1, Len(answer')) = answer'
      BY <1>7, SubSeqFull
    <2> QED
      BY <1>7, <1>8, <2>1, <2>2 DEF Buffered
  <1>14. CASE Written
    <2>1. line = << >>
      BY <1>3, <1>14, SubSeqEmpty DEF Written, Buffered
    <2>2. Written'
      BY <1>1, <1>12, <1>13, <1>14, <2>1 DEF Written, Others, NoRead
    <2> QED
      BY <1>1, <1>2, <1>9, <1>14, <2>2 DEF Exchanging, Underway, Finished, Written, Others
  <1>15. CASE ReadingHeader
    <2>1. PICK n \in DOMAIN reads :
              /\ DOMAIN reads = {n}
              /\ reads[n].first = 0 + 1 /\ reads[n].want = HeaderLength
              /\ Buffered(0 + reads[n].got)
      BY <1>15 DEF ReadingHeader, Reading
    <2>2. reads[n].got = 0 /\ 0 + reads[n].got = 0
      <3>1. reads[n].got \in Nat
        BY DEF TypeInv, ReadsOK, ReadOp
      <3> QED
        BY <1>3, <2>1, <3>1 DEF Buffered
    <2>3. line = << >>
      BY <1>3, <2>1, <2>2, SubSeqEmpty DEF Buffered
    <2>4. Buffered(0)'
      BY <1>13, <2>3
    <2>5. Buffered(0 + reads[n].got)'
      BY <1>1, <2>2, <2>4
    <2>6. Reading(0, HeaderLength)'
      BY <1>1, <2>1, <2>5 DEF Reading
    <2>7. ReadingHeader'
      BY <1>1, <1>12, <1>15, <2>6 DEF ReadingHeader, Others
    <2> QED
      BY <1>1, <1>2, <1>3, <1>9, <2>1, <2>7
         DEF Exchanging, Underway, Finished, NoRead
  <1> QED
    BY <1>11, <1>14, <1>15

LEMMA ExchangeNext ==
    ASSUME TypeInv, SendInv, ExchangeInv, [Next]_vars
    PROVE  ExchangeInv'
  <1> SUFFICES ASSUME quiet' PROVE Preparing' \/ Exchanging'
    BY DEF ExchangeInv
  <1>1. CASE send_first_byte
    BY <1>1, StartsQuiet
  <1>2. CASE UNCHANGED vars
    <2>1. UNCHANGED << pc, notified, collected, current, quiet, line, motor, answer,
                       write, reads, read_buffer, send_data, read_data, bytes_to_read,
                       posted, io >>
      BY <1>2 DEF vars, callerVars, requestVars, portVars, opVars, dataVars, ioVars
    <2>2. Preparing => Preparing'
      BY <2>1 DEF Preparing, AtRest, NoRead, Request
    <2>3. (AnswerOfCurrent => AnswerOfCurrent') /\ (Finished => Finished')
      BY <2>1 DEF AnswerOfCurrent, Finished, Others, NoRead, Taken
    <2>4. Underway => Underway'
      BY <2>1 DEF Underway, Writing, Written, ReadingHeader, HeaderRead, HeaderSeen,
             ReadingBody, BodyRead, Others, NoRead, Reading, Buffered, Request, Taken
    <2> QED
      BY <2>1, <2>2, <2>3, <2>4 DEF ExchangeInv, Exchanging
  <1>3. CASE ~send_first_byte /\ ~UNCHANGED vars
    <2>1. quiet
      BY <1>3, NextCases
         DEF send_last_byte, tx_enable_expect, tx_enable_cancel, tx_enable_clear,
             tx_enable_write, TakesBytes, receive_byte, receive_bytes_at_once,
             receive_bytes_notified, receive_bytes_timed_out, receive_bytes_wait,
             TakeAll, on_written, on_header_length, on_header, on_body, resume_read,
             write_completes, read_byte, Answer, requestVars
    <2> QED
      BY <1>3, <2>1, NextCases, PreparesQuiet, WritesQuiet, TakesQuiet, ToReadHeader,
         ToHeaderSeen, ToReadBody, ToFinished, ResumesQuiet, ToWritten, ReadsQuiet,
         AnswersQuiet
  <1> QED
    BY <1>1, <1>2, <1>3


-----------------------------------------------------------------------------
(* The theorems.                                                           *)

LEMMA SerialInit == Init => SerialInv
  <1> SUFFICES ASSUME Init PROVE SerialInv
    OBVIOUS
  <1>1. TypeInv
    BY TypeInit
  <1>2. SendInv
    BY DEF Init, SendInv
  <1>3. AnswerOfCurrent
    <2>1. Len(answer) = 0 /\ "data" \in FrameKind /\ motor = << >>
      BY DEF Init, FrameKind
    <2>2. FrameLength("data") \in Nat
      BY <2>1, LengthsPositive
    <2> QED
      BY <2>1, <2>2 DEF AnswerOfCurrent
  <1>4. Finished
    <2>1. Taken = << >>
      BY DEF Init, Taken
    <2> QED
      BY <2>1 DEF Init, Finished, Others, NoRead
  <1>5. Exchanging
    BY <1>3, <1>4 DEF Init, Exchanging
  <1> QED
    BY <1>1, <1>2, <1>5 DEF SerialInv, ExchangeInv

\* The inductive invariant holds in every state of the two threads, the port
\* and the motor, however their steps are interleaved.
THEOREM SerialInvariant == Spec => []SerialInv
  <1>1. Init => SerialInv
    BY SerialInit
  <1>2. SerialInv /\ [Next]_vars => SerialInv'
    BY TypeNext, SendNext, ExchangeNext DEF SerialInv
  <1> QED
    BY <1>1, <1>2, PTL DEF Spec

\* Every variable keeps its type, and no outstanding read of SerialASIO ever
\* reaches past the end of read_buffer.
THEOREM SerialTypeCorrect == Spec => []SerialTypeOK
  <1>1. SerialInv => SerialTypeOK
    BY TypeInvImplies DEF SerialInv
  <1> QED
    BY <1>1, SerialInvariant, PTL

\* What was taken of the answer, in each phase of a quiet exchange.
LEMMA TakenOfAnswer ==
    ASSUME SerialInv, quiet, Cleared
    PROVE  \E n \in Nat : n <= Len(answer) /\ Taken = SubSeq(answer, 1, n)
  <1> USE DEF SerialInv
  <1>1. /\ answer \in Seq(Byte) /\ Len(answer) \in Nat
        /\ answer = SubSeq(answer, 1, Len(answer)) /\ SubSeq(answer, 1, 0) = << >>
    BY TakenType, SubSeqFull, SubSeqEmpty
  <1>2. CASE Preparing
    <2>1. Taken = << >>
      BY <1>2 DEF Cleared, Preparing, Taken
    <2> QED
      BY <1>1, <2>1
  <1>3. CASE Exchanging /\ Taken = << >>
    BY <1>1, <1>3
  <1>4. CASE Exchanging /\ (ReadingBody \/ BodyRead)
    <2>1. Taken = SubSeq(answer, 1, HeaderLength)
      BY <1>4 DEF ReadingBody, BodyRead
    <2>2. HeaderLength \in Nat /\ HeaderLength <= Len(answer)
      <3>1. CASE ReadingBody
        <4>1. PICK n \in DOMAIN reads :
                  reads[n].first = HeaderLength + 1 /\ Buffered(HeaderLength + reads[n].got)
          BY <3>1 DEF ReadingBody, Reading
        <4>2. reads[n].got \in Nat
          BY <4>1 DEF TypeInv, ReadsOK, ReadOp
        <4> QED
          BY <1>1, <4>1, <4>2, LengthsPositive DEF Buffered
      <3>2. CASE BodyRead
        <4>1. bytes_to_read <= Len(answer) /\ bytes_to_read # 0
          BY <3>2 DEF BodyRead, Buffered, Others, TypeInv, LengthOK
        <4>2. bytes_to_read \in Nat /\ bytes_to_read > 2
          BY <4>1, LengthsPositive DEF TypeInv, LengthOK
        <4> QED
          BY <1>1, <4>1, <4>2, LengthsPositive
      <3> QED
        BY <1>4, <3>1, <3>2
    <2> QED
      BY <2>1, <2>2
  <1>5. CASE Exchanging /\ Finished
    <2>1. Taken = SubSeq(answer, 1, Len(answer))
      BY <1>1, <1>5 DEF Finished
    <2>2. Len(answer) \in Nat /\ Len(answer) <= Len(answer)
      BY <1>1
    <2> QED
      BY <2>1, <2>2, Zenon
  <1> QED
    BY <1>2, <1>3, <1>4, <1>5
       DEF ExchangeInv, Exchanging, Underway, Writing, Written, ReadingHeader,
           HeaderRead, HeaderSeen

\* In a quiet exchange the caller of SerialASIO gets bytes of the answer to
\* its own request, in order, none twice and none left out.
THEOREM OwnBytesTheorem == Spec => []OwnBytes
  <1>1. SerialInv => OwnBytes
    <2> SUFFICES ASSUME SerialInv, quiet, Cleared
                 PROVE  /\ Len(Taken) <= Len(answer)
                        /\ Taken = SubSeq(answer, 1, Len(Taken))
      BY DEF OwnBytes, Taken
    <2>1. PICK n \in Nat : n <= Len(answer) /\ Taken = SubSeq(answer, 1, n)
      BY TakenOfAnswer
    <2>2. answer \in Seq(Byte) /\ Len(answer) \in Nat
      BY TakenType DEF SerialInv
    <2>3. Len(Taken) = n
      <3>1. PICK m \in Int : m = 1
        OBVIOUS
      <3>2. m \in 1 .. Len(answer) + 1 /\ n \in m - 1 .. Len(answer)
        BY <2>1, <2>2, <3>1
      <3>3. Len(SubSeq(answer, m, n)) = n - m + 1
        BY <2>2, <3>2, SubSeqProperties
      <3> QED
        BY <2>1, <3>1, <3>3
    <2> QED
      BY <2>1, <2>3
  <1> QED
    BY <1>1, SerialInvariant, PTL

\* What a quiet exchange gives to the port is its own request, and all of it.
THEOREM WritesOwnRequestTheorem == Spec => []WritesOwnRequest
  <1>1. SerialInv => WritesOwnRequest
    BY DEF SerialInv, WritesOwnRequest, ExchangeInv, Preparing, AtRest, Exchanging,
           Finished, Underway, Writing, Written, ReadingHeader, HeaderRead,
           HeaderSeen, ReadingBody, BodyRead, Others
  <1> QED
    BY <1>1, SerialInvariant, PTL

\* In a quiet exchange read_buffer is used by one read, or by the handler of
\* one, and never by both or by two.
THEOREM BufferHasOneUserTheorem == Spec => []BufferHasOneUser
  <1>1. SerialInv => BufferHasOneUser
    <2> SUFFICES ASSUME SerialInv, quiet, Cleared,
                        NEW user \in BufferUsers, NEW other \in BufferUsers
                 PROVE  user = other
      BY DEF BufferHasOneUser
    <2>1. CASE NoRead /\ posted = << >>
      BY <2>1 DEF BufferUsers, NoRead
    <2>2. CASE NoRead /\ io = "idle" /\ Len(posted) = 1
      BY <2>2 DEF BufferUsers, NoRead
    <2>3. CASE io = "idle" /\ posted = << >> /\ \E n \in DOMAIN reads : DOMAIN reads = {n}
      BY <2>3 DEF BufferUsers
    <2> QED
      BY <2>1, <2>2, <2>3
         DEF SerialInv, Cleared, ExchangeInv, Preparing, AtRest, Exchanging, Finished,
             Underway, Writing, Written, ReadingHeader, HeaderRead, HeaderSeen,
             ReadingBody, BodyRead, Others, Reading
  <1> QED
    BY <1>1, SerialInvariant, PTL

\* A wait of receive_bytes_blocking that a handler ended, in a quiet exchange,
\* returns with as many bytes as it waited for, and they are the whole answer.
THEOREM NotifiedMeansWholeTheorem == Spec => NotifiedMeansWhole
  <1>1. ASSUME SerialInv, receive_bytes_notified, quiet
        PROVE  Len(collected') >= bytes_to_read /\ collected' = answer
    <2>1. Finished
      BY <1>1 DEF SerialInv, ExchangeInv, Preparing, Exchanging, receive_bytes_notified
    <2>2. collected' = Taken
      BY <1>1 DEF receive_bytes_notified, TakeAll, Taken
    <2>3. Len(answer) \in Nat
      BY <1>1, TakenType DEF SerialInv
    <2> QED
      BY <2>1, <2>2, <2>3 DEF Finished
  <1>2. SerialInv /\ [Next]_vars =>
            [receive_bytes_notified /\ quiet =>
                 Len(collected') >= bytes_to_read /\ collected' = answer]_vars
    BY <1>1
  <1> QED
    BY <1>2, SerialInvariant, PTL DEF Spec, NotifiedMeansWhole
=============================================================================
