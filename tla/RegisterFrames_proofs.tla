----------------------- MODULE RegisterFrames_proofs ------------------------
(***************************************************************************)
(* Proofs about RegisterFrames, for any numbers of registers that fit, any *)
(* addresses, values, 32-bit values and damage: every request is understood, *)
(* every answer read as it was meant, and damage seen, the damage that makes *)
(* an exception of an answer included.                                     *)
(***************************************************************************)
EXTENDS RegisterFrames, ModbusCRC_proofs

-----------------------------------------------------------------------------
(* Words, 32-bit values and registers in bytes, and back.                  *)

\* A word in two bytes, and back.
LEMMA WordBytes ==
    /\ \A x \in Int : uint8_t(x) \in Byte /\ uint16_t(x) \in Word
    /\ \A x \in Word :
           /\ HighAndLow(x) = << x \div 256, x % 256 >>
           /\ HighAndLow(x)[1] \in Byte /\ HighAndLow(x)[2] \in Byte
           /\ Pair(HighAndLow(x)[1], HighAndLow(x)[2]) = x
  <1>1. \A x \in Int : x % 256 \in Byte /\ x % 65536 \in Word
    BY DEF Byte, Word
  <1>2. \A x \in Word : /\ x \div 256 \in Byte /\ x % 256 \in Byte
                        /\ (x \div 256) * 256 + (x % 256) = x
                        /\ (x \div 256) % 256 = x \div 256
    BY DEF Byte, Word
  <1> QED
    BY <1>1, <1>2 DEF uint8_t, uint16_t, HighAndLow, Pair

\* Sequences of bytes with the same elements are the same.
LEMMA SameElements ==
    ASSUME NEW one \in Seq(Byte), NEW other \in Seq(Byte), Len(one) = Len(other),
           \A i \in 1 .. Len(one) : one[i] = other[i]
    PROVE  one = other
  OBVIOUS

\* What there is in two sequences one after the other.
LEMMA Concatenation ==
    ASSUME NEW left \in Seq(Byte), NEW right \in Seq(Byte)
    PROVE  /\ left \o right \in Seq(Byte) /\ Len(left \o right) = Len(left) + Len(right)
           /\ \A i \in 1 .. Len(left) : (left \o right)[i] = left[i]
           /\ \A i \in 1 .. Len(right) : (left \o right)[Len(left) + i] = right[i]
  OBVIOUS

\* Two bytes and two bytes.
LEMMA Tuples ==
    ASSUME NEW p \in Byte, NEW q \in Byte, NEW r \in Byte, NEW s \in Byte
    PROVE  /\ << p, q >> \in Seq(Byte) /\ << p, q, r, s >> \in Seq(Byte)
           /\ << p, q >> \o << r, s >> = << p, q, r, s >>
  <1> DEFINE a == << p, q >>  b == << r, s >>  c == << p, q, r, s >>
  <1>1. a \in Seq(Byte) /\ b \in Seq(Byte) /\ c \in Seq(Byte)
    OBVIOUS
  <1>2. /\ Len(a) = 2 /\ Len(b) = 2 /\ Len(c) = 4
        /\ a[1] = p /\ a[2] = q /\ b[1] = r /\ b[2] = s
        /\ c[1] = p /\ c[2] = q /\ c[3] = r /\ c[4] = s
    OBVIOUS
  <1>3. a \o b \in Seq(Byte) /\ Len(a \o b) = 4
    OBVIOUS
  <1>4. (a \o b)[1] = p /\ (a \o b)[2] = q /\ (a \o b)[3] = r /\ (a \o b)[4] = s
    OBVIOUS
  <1> HIDE DEF a, b, c
  <1>5. \A i \in 1 .. 4 : i = 1 \/ i = 2 \/ i = 3 \/ i = 4
    OBVIOUS
  <1>6. a \o b = c
    BY <1>1, <1>2, <1>3, <1>4, <1>5, SameElements
  <1> QED
    BY <1>1, <1>6 DEF a, b, c

\* 32 bits in four bytes, and back.
High(w) == uint16_t(w \div 65536)
Low(w) == uint16_t(w)

\* The four bytes of a 32-bit value.
LEMMA WideInBytes ==
    ASSUME NEW w \in Int
    PROVE  /\ High(w) \in Word /\ Low(w) \in Word
           /\ WideBytes(w) = << High(w) \div 256, High(w) % 256, Low(w) \div 256, Low(w) % 256 >>
           /\ WideBytes(w) \in Seq(Byte) /\ Len(WideBytes(w)) = 4
  <1>1. High(w) \in Word /\ Low(w) \in Word
    BY WordBytes DEF High, Low
  <1>2. /\ HighAndLow(High(w)) = << High(w) \div 256, High(w) % 256 >>
        /\ HighAndLow(Low(w)) = << Low(w) \div 256, Low(w) % 256 >>
    BY <1>1, WordBytes
  <1>3. WideBytes(w) = HighAndLow(High(w)) \o HighAndLow(Low(w))
    BY DEF WideBytes, High, Low
  <1>5. /\ High(w) \div 256 \in Byte /\ High(w) % 256 \in Byte
        /\ Low(w) \div 256 \in Byte /\ Low(w) % 256 \in Byte
    BY <1>1 DEF Byte, Word
  <1>4. WideBytes(w) = << High(w) \div 256, High(w) % 256, Low(w) \div 256, Low(w) % 256 >>
    BY <1>2, <1>3, <1>5, Tuples
  <1> QED
    BY <1>1, <1>4, <1>5, Tuples

\* The motor, or the parser, takes the value out that was put in.
LEMMA WideRoundTrip ==
    ASSUME NEW w \in Wide, NEW frame, NEW at \in Nat,
           \A i \in 1 .. 4 : frame[at - 1 + i] = WideBytes(w)[i]
    PROVE  WideAt(frame, at) = w
  <1> DEFINE high == High(w)  low == Low(w)
  <1>1. w \in Int /\ high \in Word /\ low \in Word
    BY WideInBytes DEF Wide
  <1>2. w = (IF high < 32768 THEN high ELSE high - 65536) * 65536 + low
    BY DEF Wide, High, Low, uint16_t
  <1>3. WideBytes(w) = << high \div 256, high % 256, low \div 256, low % 256 >>
    BY <1>1, WideInBytes
  <1>4. Pair(high \div 256, high % 256) = high /\ Pair(low \div 256, low % 256) = low
    <2>1. \A x \in Word : Pair(x \div 256, x % 256) = x
      BY DEF Pair, Word
    <2> HIDE DEF high, low
    <2> QED
      BY <1>1, <2>1
  <1> HIDE DEF high, low
  <1>5. /\ frame[at - 1 + 1] = high \div 256 /\ frame[at - 1 + 2] = high % 256
        /\ frame[at - 1 + 3] = low \div 256 /\ frame[at - 1 + 4] = low % 256
    BY <1>3
  <1>6. at - 1 + 1 = at /\ at - 1 + 2 = at + 1 /\ at - 1 + 3 = at + 2 /\ at - 1 + 4 = at + 3
    OBVIOUS
  <1>7. Pair(frame[at], frame[at + 1]) = high /\ Pair(frame[at + 2], frame[at + 3]) = low
    BY <1>4, <1>5, <1>6
  <1>8. high \in Int /\ low \in Int
    BY <1>1 DEF Word
  <1>9. WideAt(frame, at) = (IF high < 32768 THEN high ELSE high - 65536) * 65536 + low
    BY <1>7 DEF WideAt
  <1> QED
    BY <1>2, <1>9

\* Registers in bytes, and back.
LEMMA BytesOfRegisters ==
    ASSUME NEW r \in Seq(Word)
    PROVE  /\ BytesOf(r) \in Seq(Byte) /\ Len(BytesOf(r)) = 2 * Len(r)
           /\ \A i \in 1 .. Len(r) : /\ BytesOf(r)[2 * i - 1] = HighAndLow(r[i])[1]
                                     /\ BytesOf(r)[2 * i] = HighAndLow(r[i])[2]
  <1> DEFINE n == Len(r)  byte(i) == HighAndLow(r[(i + 1) \div 2])[2 - (i % 2)]
  <1>1. n \in Nat /\ \A i \in 1 .. n : r[i] \in Word
    OBVIOUS
  <1>2. \A i \in 1 .. 2 * n : /\ (i + 1) \div 2 \in 1 .. n
                              /\ 2 - (i % 2) \in {1, 2}
    BY <1>1
  <1>3. \A i \in 1 .. 2 * n : byte(i) \in Byte
    BY <1>1, <1>2, WordBytes
  <1>4. BytesOf(r) = [i \in 1 .. 2 * n |-> byte(i)]
    BY DEF BytesOf
  <1>5. \A i \in 1 .. n : /\ 2 * i - 1 \in 1 .. 2 * n /\ (2 * i - 1 + 1) \div 2 = i /\ 2 - ((2 * i - 1) % 2) = 1
                          /\ 2 * i \in 1 .. 2 * n /\ (2 * i + 1) \div 2 = i /\ 2 - ((2 * i) % 2) = 2
    BY <1>1
  <1>6. \A i \in 1 .. n : byte(2 * i - 1) = HighAndLow(r[i])[1] /\ byte(2 * i) = HighAndLow(r[i])[2]
    BY <1>5
  <1> HIDE DEF byte
  <1>7. 2 * n \in Nat
    BY <1>1
  <1> HIDE DEF n
  <1>8. BytesOf(r) \in Seq(Byte) /\ Len(BytesOf(r)) = 2 * n
    BY <1>3, <1>4, <1>7
  <1>9. \A i \in 1 .. n : BytesOf(r)[2 * i - 1] = byte(2 * i - 1) /\ BytesOf(r)[2 * i] = byte(2 * i)
    BY <1>4, <1>5
  <1> QED
    BY <1>6, <1>8, <1>9 DEF n

\* The registers taken out of a frame are those put in.
LEMMA RegistersRoundTrip ==
    ASSUME NEW r \in Seq(Word), NEW frame, NEW first \in Nat,
           \A j \in 1 .. 2 * Len(r) : frame[first - 1 + j] = BytesOf(r)[j]
    PROVE  RegistersAt(frame, first, Len(r)) = r
  <1> DEFINE n == Len(r)
  <1>1. n \in Nat /\ (\A i \in 1 .. n : r[i] \in Word) /\ r = [i \in 1 .. n |-> r[i]]
    OBVIOUS
  <1>2. ASSUME NEW i \in 1 .. n
        PROVE  Pair(frame[first + 2 * (i - 1)], frame[first + 2 * i - 1]) = r[i]
    <2>1. /\ 2 * i - 1 \in 1 .. 2 * n /\ first - 1 + (2 * i - 1) = first + 2 * (i - 1)
          /\ 2 * i \in 1 .. 2 * n /\ first - 1 + 2 * i = first + 2 * i - 1
      BY <1>1
    <2>2. /\ frame[first + 2 * (i - 1)] = BytesOf(r)[2 * i - 1]
          /\ frame[first + 2 * i - 1] = BytesOf(r)[2 * i]
      <3>1. \A j \in 1 .. 2 * n : frame[first - 1 + j] = BytesOf(r)[j]
        OBVIOUS
      <3> HIDE DEF n
      <3>2. frame[first - 1 + (2 * i - 1)] = BytesOf(r)[2 * i - 1]
        BY <2>1, <3>1
      <3>3. frame[first - 1 + 2 * i] = BytesOf(r)[2 * i]
        BY <2>1, <3>1
      <3> QED
        BY <2>1, <3>2, <3>3
    <2>3. /\ BytesOf(r)[2 * i - 1] = HighAndLow(r[i])[1]
          /\ BytesOf(r)[2 * i] = HighAndLow(r[i])[2]
      BY BytesOfRegisters
    <2>4. Pair(HighAndLow(r[i])[1], HighAndLow(r[i])[2]) = r[i]
      BY <1>1, WordBytes
    <2> QED
      BY <2>2, <2>3, <2>4
  <1> HIDE DEF n
  <1>3. RegistersAt(frame, first, n) = [i \in 1 .. n |-> r[i]]
    BY <1>2 DEF RegistersAt
  <1> QED
    BY <1>1, <1>3 DEF n

\* The values of calls and of the motor fit into registers.
LEMMA ValuesAreWords ==
    \A seed, start, count \in Nat :
        Values(seed, start, count) \in Seq(Word) /\ Len(Values(seed, start, count)) = count
  <1> SUFFICES ASSUME NEW seed \in Nat, NEW start \in Nat, NEW count \in Nat
               PROVE  Values(seed, start, count) \in Seq(Word) /\ Len(Values(seed, start, count)) = count
    OBVIOUS
  <1>1. \A i \in 1 .. count : seed + 4099 * i + (start % 256) \in Int
    OBVIOUS
  <1>2. \A i \in 1 .. count : uint16_t(seed + 4099 * i + (start % 256)) \in Word
    BY <1>1, WordBytes
  <1> QED
    BY <1>2 DEF Values

-----------------------------------------------------------------------------
(* Parts that lie in a frame.                                              *)

\* A part that lies in a frame from a place on.
Holds(frame, at, part) == \A i \in 1 .. Len(part) : frame[at - 1 + i] = part[i]

\* A frame that holds two parts one after the other holds each at its place.
LEMMA HoldsParts ==
    ASSUME NEW left \in Seq(Byte), NEW right \in Seq(Byte), NEW frame, NEW at \in Nat,
           Holds(frame, at, left \o right)
    PROVE  Holds(frame, at, left) /\ Holds(frame, at + Len(left), right)
  <1> DEFINE c == left \o right  m == Len(left)  n == Len(right)
  <1>1. /\ m \in Nat /\ n \in Nat /\ Len(c) = m + n
        /\ \A i \in 1 .. m : c[i] = left[i]
        /\ \A i \in 1 .. n : c[m + i] = right[i]
    BY Concatenation
  <1>2. \A i \in 1 .. Len(c) : frame[at - 1 + i] = c[i]
    BY DEF Holds
  <1> HIDE DEF c, m, n
  <1>3. \A i \in 1 .. m : frame[at - 1 + i] = left[i]
    BY <1>1, <1>2
  <1>4. \A i \in 1 .. n : frame[(at + m) - 1 + i] = right[i]
    <2> TAKE i \in 1 .. n
    <2>1. m + i \in 1 .. Len(c) /\ at - 1 + (m + i) = (at + m) - 1 + i
      BY <1>1
    <2> QED
      BY <1>1, <1>2, <2>1
  <1> QED
    BY <1>3, <1>4 DEF m, n, Holds

\* What is read at the place of a byte,
LEMMA HoldsByte ==
    \A frame : \A at \in Nat : \A b \in Byte : Holds(frame, at, << b >>) => frame[at] = b
  <1> SUFFICES ASSUME NEW frame, NEW at \in Nat, NEW b \in Byte, Holds(frame, at, << b >>)
               PROVE  frame[at] = b
    OBVIOUS
  <1>1. frame[at - 1 + 1] = << b >>[1] /\ at - 1 + 1 = at
    BY DEF Holds
  <1> QED
    BY <1>1

\* of a word,
LEMMA HoldsWord ==
    ASSUME NEW frame, NEW at \in Nat, NEW x \in Word, Holds(frame, at, HighAndLow(x))
    PROVE  Pair(frame[at], frame[at + 1]) = x
  <1> DEFINE h == HighAndLow(x)
  <1>1. Len(h) = 2
    BY DEF HighAndLow
  <1>2. Pair(h[1], h[2]) = x
    BY WordBytes
  <1>3. \A i \in 1 .. Len(h) : frame[at - 1 + i] = h[i]
    BY DEF Holds
  <1> HIDE DEF h
  <1>4. frame[at - 1 + 1] = h[1] /\ frame[at - 1 + 2] = h[2]
    BY <1>1, <1>3
  <1>5. at - 1 + 1 = at /\ at - 1 + 2 = at + 1
    OBVIOUS
  <1> QED
    BY <1>2, <1>4, <1>5

\* A word takes two bytes.
LEMMA HighAndLowIsBytes ==
    \A x \in Word : HighAndLow(x) \in Seq(Byte) /\ Len(HighAndLow(x)) = 2
  <1> TAKE x \in Word
  <1>1. x \div 256 \in Byte /\ x % 256 \in Byte
    BY DEF Byte, Word
  <1>2. << x \div 256, x % 256 >> \in Seq(Byte) /\ Len(<< x \div 256, x % 256 >>) = 2
    BY <1>1
  <1> QED
    BY <1>2, WordBytes

\* and of two words.
LEMMA HoldsSpan ==
    ASSUME NEW frame, NEW at \in Nat, NEW x \in Word, NEW y \in Word,
           Holds(frame, at, HighAndLow(x)), Holds(frame, at + 2, HighAndLow(y))
    PROVE  Span(frame, at) = << x, y >>
  <1>1. Pair(frame[at], frame[at + 1]) = x /\ Pair(frame[at + 2], frame[at + 2 + 1]) = y
    BY HoldsWord
  <1> DEFINE r(i) == Pair(frame[at + 2 * (i - 1)], frame[at + 2 * i - 1])
  <1>2. r(1) = x /\ r(2) = y
    <2>1. /\ at + 2 * (1 - 1) = at /\ at + 2 * 1 - 1 = at + 1
          /\ at + 2 * (2 - 1) = at + 2 /\ at + 2 * 2 - 1 = at + 2 + 1
      OBVIOUS
    <2> QED
      BY <1>1, <2>1
  <1>3. Span(frame, at) = [i \in 1 .. 2 |-> r(i)]
    BY DEF Span, RegistersAt
  <1> HIDE DEF r
  <1>4. [i \in 1 .. 2 |-> r(i)] = << r(1), r(2) >>
    OBVIOUS
  <1> QED
    BY <1>2, <1>3, <1>4

-----------------------------------------------------------------------------
\* A frame is a body of bytes and its checksum.
LEMMA WithCrcParts ==
    ASSUME NEW body \in Seq(Byte)
    PROVE  /\ WithCrc(body) \in Seq(Byte) /\ Len(WithCrc(body)) = Len(body) + 2
           /\ Holds(WithCrc(body), 1, body)
           /\ WithCrc(body)[Len(body) + 1] = generate(body).hi
           /\ WithCrc(body)[Len(body) + 2] = generate(body).lo
           /\ SubSeq(WithCrc(body), 1, Len(WithCrc(body)) - 2) = body
           /\ CrcIsRight(WithCrc(body))
  <1> DEFINE crc == generate(body)  tail == << crc.hi, crc.lo >>  frame == WithCrc(body)  n == Len(body)
  <1>1. crc.hi \in Byte /\ crc.lo \in Byte /\ crc = ReferenceCrc(body) /\ crc = [hi |-> crc.hi, lo |-> crc.lo]
    BY ChecksumIsRemainder DEF Sum
  <1> HIDE DEF crc
  <1>2. tail \in Seq(Byte) /\ Len(tail) = 2 /\ tail[1] = crc.hi /\ tail[2] = crc.lo /\ n \in Nat
    BY <1>1
  <1>3. frame = body \o tail
    BY DEF WithCrc, crc
  <1> HIDE DEF tail, frame
  <1>0. /\ frame \in Seq(Byte) /\ Len(frame) = n + Len(tail)
        /\ \A i \in 1 .. n : frame[i] = body[i]
        /\ \A i \in 1 .. Len(tail) : frame[n + i] = tail[i]
    BY <1>2, <1>3, Concatenation
  <1>4. frame \in Seq(Byte) /\ Len(frame) = n + 2
    BY <1>0, <1>2
  <1>5. \A i \in 1 .. n : frame[i] = body[i]
    BY <1>0
  <1>6. frame[n + 1] = crc.hi /\ frame[n + 2] = crc.lo
    BY <1>0, <1>2
  <1>7. SubSeq(frame, 1, Len(frame) - 2) = body
    <2>1. Len(frame) - 2 = n
      BY <1>2, <1>4
    <2> DEFINE b == SubSeq(frame, 1, n)
    <2>2. b \in Seq(Byte) /\ Len(b) = n /\ \A i \in 1 .. n : b[i] = frame[i]
      BY <1>2, <1>4
    <2> HIDE DEF b
    <2>3. b = body
      BY <1>5, <2>2, SameElements
    <2> QED
      BY <2>1, <2>3 DEF b
  <1>8. Holds(frame, 1, body)
    <2>1. \A i \in 1 .. n : 1 - 1 + i = i
      OBVIOUS
    <2> QED
      BY <1>5, <2>1 DEF Holds
  <1>9. CrcIsRight(frame)
    <2>1. Len(frame) - 1 = n + 1 /\ Len(frame) = n + 2
      BY <1>2, <1>4
    <2> QED
      BY <1>1, <1>6, <1>7, <2>1 DEF CrcIsRight
  <1> QED
    BY <1>4, <1>6, <1>7, <1>8, <1>9 DEF frame, crc

-----------------------------------------------------------------------------
(* The requests.                                                           *)

\* Where address, function code and data lie in a frame.
Frame(f, d, e) == WithCrc(<< ServerAddress, f >> \o d \o e)

\* Where function code, data and values lie in a frame; its checksum is right.
LEMMA FrameParts ==
    ASSUME NEW f \in Byte, NEW d \in Seq(Byte), NEW e \in Seq(Byte)
    PROVE  /\ Frame(f, d, e) \in Seq(Byte) /\ Len(Frame(f, d, e)) = 4 + Len(d) + Len(e)
           /\ Frame(f, d, e)[2] = f /\ CrcIsRight(Frame(f, d, e))
           /\ Holds(Frame(f, d, e), 3, d) /\ Holds(Frame(f, d, e), 3 + Len(d), e)
  <1> DEFINE frame == Frame(f, d, e)
  <1> DEFINE h == << ServerAddress, f >>  b == h \o d
  <1>1. h \in Seq(Byte) /\ Len(h) = 2 /\ h[2] = f
    BY DEF ServerAddress, Byte
  <1> HIDE DEF h, frame
  <1>2. b \in Seq(Byte) /\ Len(b) = 2 + Len(d)
    <2>1. b \in Seq(Byte)
      BY <1>1, Concatenation
    <2>2. Len(b) = Len(h) + Len(d)
      BY <1>1, Concatenation
    <2> QED
      BY <1>1, <2>1, <2>2
  <1>3. b \o e \in Seq(Byte) /\ Len(b \o e) = 2 + Len(d) + Len(e)
    <2> HIDE DEF b
    <2>1. b \o e \in Seq(Byte)
      BY <1>2, Concatenation
    <2>2. Len(b \o e) = Len(b) + Len(e)
      BY <1>2, Concatenation
    <2> QED
      BY <1>2, <2>1, <2>2
  <1>4. /\ frame \in Seq(Byte) /\ Len(frame) = Len(b \o e) + 2 /\ CrcIsRight(frame)
        /\ Holds(frame, 1, b \o e)
    <2> HIDE DEF b
    <2>1. frame = WithCrc(b \o e)
      BY DEF b, h, frame, Frame
    <2> QED
      BY <1>3, <2>1, WithCrcParts
  <1>5. Holds(frame, 1, h \o d) /\ Holds(frame, 1 + Len(b), e)
    <2> HIDE DEF b
    <2>1. Holds(frame, 1, b) /\ Holds(frame, 1 + Len(b), e)
      BY <1>2, <1>4, HoldsParts
    <2> QED
      BY <2>1 DEF b
  <1>6. Holds(frame, 1, h) /\ Holds(frame, 1 + Len(h), d)
    BY <1>1, <1>5, HoldsParts
  <1>7. frame[1 - 1 + 2] = h[2]
    BY <1>1, <1>6 DEF Holds
  <1>8. Len(d) \in Nat /\ Len(e) \in Nat
    OBVIOUS
  <1> HIDE DEF b
  <1>9. 1 + Len(h) = 3 /\ 1 + Len(b) = 3 + Len(d)
    BY <1>1, <1>2, <1>8
  <1> QED
    BY <1>1, <1>2, <1>3, <1>4, <1>5, <1>6, <1>7, <1>8, <1>9 DEF frame

\* Two words in a row.
LEMMA TwoWords ==
    ASSUME NEW x \in Word, NEW y \in Word
    PROVE  /\ HighAndLow(x) \o HighAndLow(y) \in Seq(Byte)
           /\ Len(HighAndLow(x) \o HighAndLow(y)) = 4
           /\ \A frame : \A at \in Nat :
                  Holds(frame, at, HighAndLow(x) \o HighAndLow(y)) => Span(frame, at) = << x, y >>
  <1> DEFINE a == HighAndLow(x)  b == HighAndLow(y)
  <1>1. a \in Seq(Byte) /\ Len(a) = 2 /\ b \in Seq(Byte) /\ Len(b) = 2
    BY HighAndLowIsBytes
  <1>2. ASSUME NEW frame, NEW at \in Nat, Holds(frame, at, a \o b)
        PROVE  Span(frame, at) = << x, y >>
    <2>1. Holds(frame, at, a) /\ Holds(frame, at + 2, b)
      <3> HIDE DEF a, b
      <3> QED
        BY <1>1, <1>2, HoldsParts
    <2> QED
      BY <2>1, HoldsSpan
  <1>3. a \o b \in Seq(Byte) /\ Len(a \o b) = 4
    <2> HIDE DEF a, b
    <2>1. a \o b \in Seq(Byte)
      BY <1>1, Concatenation
    <2>2. Len(a \o b) = Len(a) + Len(b)
      BY <1>1, Concatenation
    <2> QED
      BY <1>1, <2>1, <2>2
  <1> QED
    BY <1>2, <1>3

\* The function codes are bytes.
LEMMA FunctionCodes ==
    /\ read_holding_registers \in Byte /\ write_single_register \in Byte
    /\ write_multiple_registers \in Byte /\ read_write_multiple_registers \in Byte
    /\ motor_command \in Byte
  BY DEF read_holding_registers, write_single_register, write_multiple_registers,
         read_write_multiple_registers, motor_command, Byte

\* A frame may have no values.
LEMMA EmptyIsBytes == << >> \in Seq(Byte) /\ Len(<< >>) = 0
  OBVIOUS

\* The frame of a call, by its function code.
LEMMA FrameOfCall ==
    ASSUME NEW c
    PROVE  /\ c.function = read_holding_registers =>
                  load_transmission_data(c) =
                      Frame(c.function, HighAndLow(c.start) \o HighAndLow(c.read), << >>)
           /\ c.function = write_single_register =>
                  load_transmission_data(c) =
                      Frame(c.function, HighAndLow(c.start) \o HighAndLow(c.data[1]), << >>)
           /\ c.function = write_multiple_registers =>
                  load_transmission_data(c) =
                      Frame(c.function,
                            HighAndLow(c.start) \o HighAndLow(Len(c.data))
                                \o << num_bytes(Len(c.data)) >>, BytesOf(c.data))
           /\ c.function = read_write_multiple_registers =>
                  load_transmission_data(c) =
                      Frame(c.function,
                            HighAndLow(c.start) \o HighAndLow(c.read)
                                \o HighAndLow(c.start) \o HighAndLow(Len(c.data))
                                \o << num_bytes(Len(c.data)) >>, BytesOf(c.data))
           /\ c.function = motor_command =>
                  load_transmission_data(c) = Frame(c.function, motor_command_fn(c.stream), << >>)
  <1>1. load_transmission_data(c) = Frame(c.function, FramingData(c), WriteData(c))
    BY DEF load_transmission_data, Frame
  <1>2. ASSUME c.function = read_holding_registers
        PROVE  FramingData(c) = HighAndLow(c.start) \o HighAndLow(c.read) /\ WriteData(c) = << >>
    BY <1>2 DEF FramingData, WriteData, read_holding_registers, write_single_register,
                write_multiple_registers, read_write_multiple_registers, motor_command
  <1>3. ASSUME c.function = write_single_register
        PROVE  FramingData(c) = HighAndLow(c.start) \o HighAndLow(c.data[1]) /\ WriteData(c) = << >>
    BY <1>3 DEF FramingData, WriteData, read_holding_registers, write_single_register,
                write_multiple_registers, read_write_multiple_registers, motor_command
  <1>4. ASSUME c.function = write_multiple_registers
        PROVE  /\ FramingData(c) = HighAndLow(c.start) \o HighAndLow(Len(c.data))
                                       \o << num_bytes(Len(c.data)) >>
               /\ WriteData(c) = BytesOf(c.data)
    BY <1>4 DEF FramingData, WriteData, read_holding_registers, write_single_register,
                write_multiple_registers, read_write_multiple_registers, motor_command
  <1>5. ASSUME c.function = read_write_multiple_registers
        PROVE  /\ FramingData(c) = HighAndLow(c.start) \o HighAndLow(c.read)
                                       \o HighAndLow(c.start) \o HighAndLow(Len(c.data))
                                       \o << num_bytes(Len(c.data)) >>
               /\ WriteData(c) = BytesOf(c.data)
    BY <1>5 DEF FramingData, WriteData, read_holding_registers, write_single_register,
                write_multiple_registers, read_write_multiple_registers, motor_command
  <1>6. ASSUME c.function = motor_command
        PROVE  FramingData(c) = motor_command_fn(c.stream) /\ WriteData(c) = << >>
    BY <1>6 DEF FramingData, WriteData, read_holding_registers, write_single_register,
                write_multiple_registers, read_write_multiple_registers, motor_command
  <1> QED
    BY <1>1, <1>2, <1>3, <1>4, <1>5, <1>6

\* What a frame means, by its function code.
LEMMA MeaningByCode ==
    ASSUME NEW frame, Len(frame) \in Nat, Len(frame) >= 8, CrcIsRight(frame)
    PROVE  /\ frame[2] = read_holding_registers =>
                  Meaning(frame) = [read |-> Span(frame, 3), write |-> << >>, command |-> << >>]
           /\ frame[2] = write_single_register =>
                  Meaning(frame) =
                      [read |-> << >>, write |-> << Span(frame, 3)[1], << Span(frame, 3)[2] >> >>,
                       command |-> << >>]
           /\ frame[2] = write_multiple_registers =>
                  Meaning(frame) = [read |-> << >>, write |-> WriteAt(frame, 3), command |-> << >>]
           /\ frame[2] = read_write_multiple_registers =>
                  Meaning(frame) =
                      [read |-> Span(frame, 3), write |-> WriteAt(frame, 7), command |-> << >>]
           /\ frame[2] = motor_command =>
                  Meaning(frame) =
                      [read |-> << >>, write |-> << >>, command |-> CommandAt(frame, 3)]
  <1>0. ~ (Len(frame) < 8 \/ ~ CrcIsRight(frame))
    OBVIOUS
  <1>a. \A r, w : /\ [Nothing EXCEPT !.read = r] = [read |-> r, write |-> << >>, command |-> << >>]
                  /\ [Nothing EXCEPT !.write = w] = [read |-> << >>, write |-> w, command |-> << >>]
                  /\ [Nothing EXCEPT !.command = w] = [read |-> << >>, write |-> << >>, command |-> w]
    BY DEF Nothing
  <1>b. \A r, w : [Nothing EXCEPT !.read = r, !.write = w] = [read |-> r, write |-> w, command |-> << >>]
    <2> TAKE r, w
    <2> DEFINE q == [read |-> r, write |-> << >>, command |-> << >>]
    <2>1. [Nothing EXCEPT !.read = r] = q
      BY <1>a
    <2>2. [Nothing EXCEPT !.read = r, !.write = w] = [q EXCEPT !.write = w]
      BY <2>1
    <2> QED
      BY <2>2
  <1>1. ASSUME frame[2] = read_holding_registers
        PROVE  Meaning(frame) = [Nothing EXCEPT !.read = Span(frame, 3)]
    BY <1>0, <1>1 DEF Meaning, read_holding_registers, write_single_register,
                write_multiple_registers, read_write_multiple_registers, motor_command
  <1>2. ASSUME frame[2] = write_single_register
        PROVE  Meaning(frame) = [Nothing EXCEPT !.write = << Span(frame, 3)[1], << Span(frame, 3)[2] >> >>]
    BY <1>0, <1>2 DEF Meaning, read_holding_registers, write_single_register,
                write_multiple_registers, read_write_multiple_registers, motor_command
  <1>3. ASSUME frame[2] = write_multiple_registers
        PROVE  Meaning(frame) = [Nothing EXCEPT !.write = WriteAt(frame, 3)]
    BY <1>0, <1>3 DEF Meaning, read_holding_registers, write_single_register,
                write_multiple_registers, read_write_multiple_registers, motor_command
  <1>4. ASSUME frame[2] = read_write_multiple_registers
        PROVE  Meaning(frame) = [Nothing EXCEPT !.read = Span(frame, 3), !.write = WriteAt(frame, 7)]
    BY <1>0, <1>4 DEF Meaning, read_holding_registers, write_single_register,
                write_multiple_registers, read_write_multiple_registers, motor_command
  <1>5. ASSUME frame[2] = motor_command
        PROVE  Meaning(frame) = [Nothing EXCEPT !.command = CommandAt(frame, 3)]
    BY <1>0, <1>5 DEF Meaning, read_holding_registers, write_single_register,
                write_multiple_registers, read_write_multiple_registers, motor_command
  <1> QED
    BY <1>a, <1>b, <1>1, <1>2, <1>3, <1>4, <1>5

Understood(c, read, write, command) ==
    Meaning(load_transmission_data(c)) = [read |-> read, write |-> write, command |-> command]

\* A read request is understood, with its first register and their number.
LEMMA ReadIsUnderstood ==
    ASSUME NEW s \in Word, NEW n \in Word, NEW c,
           c.function = read_holding_registers, c.start = s, c.read = n
    PROVE  Understood(c, << s, n >>, << >>, << >>)
  <1> DEFINE frame == load_transmission_data(c)  d == HighAndLow(s) \o HighAndLow(n)  e == << >>
  <1>1. frame = Frame(read_holding_registers, d, e)
    BY FrameOfCall
  <1>2. d \in Seq(Byte) /\ Len(d) = 4 /\ \A at \in Nat : Holds(frame, at, d) => Span(frame, at) = << s, n >>
    BY TwoWords
  <1>3. e \in Seq(Byte) /\ Len(e) = 0
    OBVIOUS
  <1> HIDE DEF frame, d, e
  <1>4. /\ Len(frame) = 4 + Len(d) + Len(e) /\ frame[2] = read_holding_registers
        /\ CrcIsRight(frame) /\ Holds(frame, 3, d)
    <2>1. read_holding_registers \in Byte
      BY FunctionCodes
    <2> QED
      BY <1>1, <1>2, <1>3, <2>1, FrameParts
  <1>5. Len(frame) = 8 /\ Span(frame, 3) = << s, n >>
    BY <1>2, <1>3, <1>4
  <1>6. Len(frame) \in Nat /\ Len(frame) >= 8
    BY <1>5
  <1> QED
    BY <1>4, <1>5, <1>6, MeaningByCode DEF frame, Understood

\* A write of one register is understood.
LEMMA SingleIsUnderstood ==
    ASSUME NEW s \in Word, NEW v \in Word, NEW c,
           c.function = write_single_register, c.start = s, c.data = << v >>
    PROVE  Understood(c, << >>, << s, c.data >>, << >>)
  <1> DEFINE frame == load_transmission_data(c)  d == HighAndLow(s) \o HighAndLow(v)  e == << >>
  <1>1. frame = Frame(write_single_register, d, e)
    <2>1. c.data[1] = v
      OBVIOUS
    <2> QED
      BY <2>1, FrameOfCall
  <1>2. d \in Seq(Byte) /\ Len(d) = 4 /\ \A at \in Nat : Holds(frame, at, d) => Span(frame, at) = << s, v >>
    BY TwoWords
  <1>3. e \in Seq(Byte) /\ Len(e) = 0
    OBVIOUS
  <1> HIDE DEF frame, d, e
  <1>4. /\ Len(frame) = 4 + Len(d) + Len(e) /\ frame[2] = write_single_register
        /\ CrcIsRight(frame) /\ Holds(frame, 3, d)
    <2>1. write_single_register \in Byte
      BY FunctionCodes
    <2> QED
      BY <1>1, <1>2, <1>3, <2>1, FrameParts
  <1>5. Len(frame) = 8 /\ Span(frame, 3) = << s, v >>
    BY <1>2, <1>3, <1>4
  <1>7. << Span(frame, 3)[1], << Span(frame, 3)[2] >> >> = << s, c.data >>
    BY <1>5
  <1>8. Len(frame) \in Nat /\ Len(frame) >= 8
    BY <1>5
  <1>9. Meaning(frame) = [read |-> << >>, write |-> << s, c.data >>, command |-> << >>]
    BY <1>4, <1>7, <1>8, MeaningByCode
  <1> QED
    BY <1>9 DEF frame, Understood

-----------------------------------------------------------------------------
\* A number of registers that fits the wrappers' data has a byte count.
LEMMA NumBytes == \A n \in 1 .. MaxWrite : num_bytes(n) = 2 * n /\ 2 * n \in Byte /\ n \in Word
  BY DEF MaxWrite, num_bytes, uint8_t, Byte, Word

\* The registers a frame holds are read back.
LEMMA HoldsRegisters ==
    ASSUME NEW r \in Seq(Word), NEW frame, NEW at \in Nat, Holds(frame, at, BytesOf(r))
    PROVE  RegistersAt(frame, at, Len(r)) = r
  <1>1. Len(BytesOf(r)) = 2 * Len(r)
    BY BytesOfRegisters
  <1>2. \A j \in 1 .. 2 * Len(r) : frame[at - 1 + j] = BytesOf(r)[j]
    BY <1>1 DEF Holds
  <1> QED
    BY <1>2, RegistersRoundTrip

\* A write a frame holds is taken as it was meant.
LEMMA HoldsWrite ==
    ASSUME NEW s \in Word, NEW data \in Seq(Word), NEW frame, NEW at \in Nat,
           Span(frame, at) = << s, Len(data) >>, frame[at + 4] = 2 * Len(data),
           Holds(frame, at + 5, BytesOf(data)), Len(frame) = at + 6 + 2 * Len(data)
    PROVE  WriteAt(frame, at) = << s, data >>
  <1>1. RegistersAt(frame, at + 5, Len(data)) = data
    <2>1. at + 5 \in Nat
      OBVIOUS
    <2> QED
      BY <2>1, HoldsRegisters
  <1>2. Span(frame, at)[1] = s /\ Span(frame, at)[2] = Len(data)
    OBVIOUS
  <1> QED
    BY <1>1, <1>2 DEF WriteAt

\* A write of several registers is understood, up to what the wrappers' data
\* holds: then the byte count is twice the number of registers in 8 bits.
LEMMA WriteIsUnderstood ==
    ASSUME NEW s \in Word, NEW data \in Seq(Word), Len(data) \in 1 .. MaxWrite, NEW c,
           c.function = write_multiple_registers, c.start = s, c.data = data
    PROVE  Understood(c, << >>, << s, data >>, << >>)
  <1> DEFINE frame == load_transmission_data(c)  n == Len(data)
             w == HighAndLow(s) \o HighAndLow(n)  count == << num_bytes(n) >>
             d == w \o count  e == BytesOf(data)
  <1>1. frame = Frame(write_multiple_registers, d, e)
    BY FrameOfCall
  <1>2. num_bytes(n) = 2 * n /\ num_bytes(n) \in Byte /\ n \in Word /\ n \in Nat /\ n >= 1
    BY NumBytes
  <1>3. w \in Seq(Byte) /\ Len(w) = 4 /\ \A at \in Nat : Holds(frame, at, w) => Span(frame, at) = << s, n >>
    <2> HIDE DEF n, frame
    <2> QED
      BY <1>2, TwoWords
  <1>4. count \in Seq(Byte) /\ Len(count) = 1
    BY <1>2
  <1>5. \A at \in Nat : Holds(frame, at, count) => frame[at] = 2 * n
    BY <1>2, HoldsByte
  <1>6. e \in Seq(Byte) /\ Len(e) = 2 * n
    BY BytesOfRegisters
  <1> HIDE DEF w, count, e, frame
  <1>7. d \in Seq(Byte)
    BY <1>3, <1>4, Concatenation
  <1>8. Len(d) = Len(w) + Len(count)
    BY <1>3, <1>4, Concatenation
  <1> HIDE DEF d
  <1>9. /\ Len(frame) = 4 + Len(d) + Len(e) /\ frame[2] = write_multiple_registers
        /\ CrcIsRight(frame) /\ Holds(frame, 3, d) /\ Holds(frame, 3 + Len(d), e)
    <2>1. write_multiple_registers \in Byte
      BY FunctionCodes
    <2> QED
      BY <1>1, <1>6, <1>7, <2>1, FrameParts
  <1>10. Holds(frame, 3, w) /\ Holds(frame, 3 + Len(w), count)
    BY <1>3, <1>4, <1>9, HoldsParts DEF d
  <1> HIDE DEF n
  <1>11. Len(frame) = 9 + 2 * n /\ 3 + Len(d) = 3 + 5 /\ 3 + Len(w) = 3 + 4
    BY <1>2, <1>3, <1>4, <1>6, <1>8, <1>9
  <1>12. Span(frame, 3) = << s, n >> /\ frame[3 + 4] = 2 * n
    BY <1>3, <1>5, <1>10, <1>11
  <1>13. WriteAt(frame, 3) = << s, data >>
    <2>1. Len(frame) = 3 + 6 + 2 * n
      BY <1>2, <1>11
    <2>2. /\ Span(frame, 3) = << s, Len(data) >> /\ frame[3 + 4] = 2 * Len(data)
          /\ Holds(frame, 3 + 5, BytesOf(data)) /\ Len(frame) = 3 + 6 + 2 * Len(data)
      BY <1>9, <1>11, <1>12, <2>1 DEF n, e
    <2> QED
      BY <2>2, HoldsWrite
  <1>14. Len(frame) \in Nat /\ Len(frame) >= 8
    BY <1>2, <1>11
  <1> QED
    BY <1>2, <1>9, <1>11, <1>13, <1>14, MeaningByCode DEF frame, Understood

\* A request to write and read is understood.
LEMMA ReadWriteIsUnderstood ==
    ASSUME NEW s \in Word, NEW m \in Word, NEW data \in Seq(Word), Len(data) \in 1 .. MaxWrite, NEW c,
           c.function = read_write_multiple_registers, c.start = s, c.read = m, c.data = data
    PROVE  Understood(c, << s, m >>, << s, data >>, << >>)
  <1> DEFINE frame == load_transmission_data(c)  n == Len(data)
             r == HighAndLow(s) \o HighAndLow(m)  i == HighAndLow(s)  j == HighAndLow(n)
             count == << num_bytes(n) >>
             ri == r \o i  rij == ri \o j  d == rij \o count  e == BytesOf(data)
  <1>1. frame = Frame(read_write_multiple_registers, d, e)
    BY FrameOfCall
  <1>2. num_bytes(n) = 2 * n /\ num_bytes(n) \in Byte /\ n \in Word /\ n \in Nat /\ n >= 1
    BY NumBytes
  <1>3. r \in Seq(Byte) /\ Len(r) = 4 /\ \A at \in Nat : Holds(frame, at, r) => Span(frame, at) = << s, m >>
    BY TwoWords
  <1>4. /\ count \in Seq(Byte) /\ Len(count) = 1
        /\ i \in Seq(Byte) /\ Len(i) = 2 /\ j \in Seq(Byte) /\ Len(j) = 2
    BY <1>2, HighAndLowIsBytes
  <1>5. \A at \in Nat : Holds(frame, at, count) => frame[at] = 2 * n
    BY <1>2, HoldsByte
  <1>6. e \in Seq(Byte) /\ Len(e) = 2 * n
    BY BytesOfRegisters
  <1>7. \A at \in Nat : Holds(frame, at, i) /\ Holds(frame, at + 2, j) => Span(frame, at) = << s, n >>
    BY <1>2, HoldsSpan
  <1> HIDE DEF r, i, j, count, e, frame, n
  <1>8. ri \in Seq(Byte) /\ Len(ri) = 6
    <2>1. ri \in Seq(Byte)
      BY <1>3, <1>4, Concatenation
    <2>2. Len(ri) = Len(r) + Len(i)
      BY <1>3, <1>4, Concatenation
    <2> QED
      BY <1>3, <1>4, <2>1, <2>2
  <1> HIDE DEF ri
  <1>9. rij \in Seq(Byte) /\ Len(rij) = 8
    <2>1. rij \in Seq(Byte)
      BY <1>4, <1>8, Concatenation
    <2>2. Len(rij) = Len(ri) + Len(j)
      BY <1>4, <1>8, Concatenation
    <2> QED
      BY <1>4, <1>8, <2>1, <2>2
  <1> HIDE DEF rij
  <1>10. d \in Seq(Byte) /\ Len(d) = 9
    <2>1. d \in Seq(Byte)
      BY <1>4, <1>9, Concatenation
    <2>2. Len(d) = Len(rij) + Len(count)
      BY <1>4, <1>9, Concatenation
    <2> QED
      BY <1>4, <1>9, <2>1, <2>2
  <1> HIDE DEF d
  <1>11. /\ Len(frame) = 4 + Len(d) + Len(e) /\ frame[2] = read_write_multiple_registers
         /\ CrcIsRight(frame) /\ Holds(frame, 3, d) /\ Holds(frame, 3 + Len(d), e)
    <2>1. read_write_multiple_registers \in Byte
      BY FunctionCodes
    <2> QED
      BY <1>1, <1>6, <1>10, <2>1, FrameParts
  <1>12. Holds(frame, 3, rij) /\ Holds(frame, 3 + Len(rij), count)
    BY <1>4, <1>9, <1>11, HoldsParts DEF d
  <1>13. Holds(frame, 3, ri) /\ Holds(frame, 3 + Len(ri), j)
    BY <1>4, <1>8, <1>12, HoldsParts DEF rij
  <1>14. Holds(frame, 3, r) /\ Holds(frame, 3 + Len(r), i)
    BY <1>3, <1>4, <1>13, HoldsParts DEF ri
  <1>15. /\ Holds(frame, 7, i) /\ Holds(frame, 7 + 2, j) /\ Holds(frame, 7 + 4, count)
         /\ Holds(frame, 7 + 5, e) /\ Len(frame) = 13 + 2 * n
    <2>1. /\ 3 + Len(r) = 7 /\ 3 + Len(ri) = 7 + 2 /\ 3 + Len(rij) = 7 + 4 /\ 3 + Len(d) = 7 + 5
          /\ 4 + Len(d) = 13
      BY <1>3, <1>8, <1>9, <1>10
    <2> QED
      BY <1>2, <1>6, <1>11, <1>12, <1>13, <1>14, <2>1
  <1>16. Span(frame, 3) = << s, m >> /\ Span(frame, 7) = << s, n >> /\ frame[7 + 4] = 2 * n
    BY <1>3, <1>5, <1>7, <1>14, <1>15
  <1>17. WriteAt(frame, 7) = << s, data >>
    <2>1. Len(frame) = 7 + 6 + 2 * n
      BY <1>2, <1>15
    <2>2. /\ Span(frame, 7) = << s, Len(data) >> /\ frame[7 + 4] = 2 * Len(data)
          /\ Holds(frame, 7 + 5, BytesOf(data)) /\ Len(frame) = 7 + 6 + 2 * Len(data)
      BY <1>15, <1>16, <2>1 DEF n, e
    <2> QED
      BY <2>2, HoldsWrite
  <1>18. Len(frame) \in Nat /\ Len(frame) >= 8
    BY <1>2, <1>15
  <1> QED
    BY <1>2, <1>11, <1>15, <1>16, <1>17, <1>18, MeaningByCode DEF frame, Understood

\* Words and zero are 32-bit values; a value's complement is one.
LEMMA SmallAreWide == /\ 0 \in Wide /\ (\A x \in Word : x \in Wide)
                      /\ \A w \in Wide : w \in Int /\ -1 - w \in Wide
  BY DEF Wide, Word

\* The command codes are bytes.
LEMMA CommandCodes ==
    FORCE_CMD \in Byte /\ POS_CMD \in Byte /\ kinematic_command_code \in Byte
        /\ haptic_command_code \in Byte /\ 0 \in Byte
  BY DEF FORCE_CMD, POS_CMD, kinematic_command_code, haptic_command_code, Byte

\* A stream command is understood as the mode and value that were set.
LEMMA StreamIsUnderstood ==
    ASSUME NEW c, c.function = motor_command,
           c.stream.comms_mode \in MotorMode, c.stream.force_command \in Wide,
           c.stream.position_command \in Wide, c.stream.haptic_command_effects \in Word
    PROVE  Understood(c, << >>, << >>, Commanded(c.stream))
  <1> DEFINE s == c.stream  frame == load_transmission_data(c)
             code == motor_stream_command(s)[1]  value == motor_stream_command(s)[2]
             k == << code >>  v == WideBytes(value)  d == k \o v  e == << >>
  <1>1. /\ s.comms_mode = "ForceMode" => code = FORCE_CMD /\ value = s.force_command
        /\ s.comms_mode = "PositionMode" => code = POS_CMD /\ value = s.position_command
        /\ s.comms_mode = "KinematicMode" => code = kinematic_command_code /\ value = 0
        /\ s.comms_mode = "HapticMode" =>
               code = haptic_command_code /\ value = s.haptic_command_effects
        /\ s.comms_mode \in {"SleepMode", "AutoZeroMode"} => code = 0 /\ value = 0
    BY DEF motor_stream_command
  <1>2. s.comms_mode \in {"SleepMode", "ForceMode", "PositionMode", "HapticMode", "KinematicMode", "AutoZeroMode"}
    BY DEF MotorMode
  <1>3. d = motor_command_fn(s)
    BY DEF motor_command_fn
  <1>4. frame = Frame(motor_command, motor_command_fn(s), e)
    BY FrameOfCall
  <1> HIDE DEF code, value, frame
  <1>5. code \in Byte /\ value \in Wide /\ value \in Int
    BY <1>1, <1>2, CommandCodes, SmallAreWide
  <1>6. k \in Seq(Byte) /\ Len(k) = 1 /\ \A at \in Nat : Holds(frame, at, k) => frame[at] = code
    BY <1>5, HoldsByte
  <1>7. v \in Seq(Byte) /\ Len(v) = 4
    BY <1>5, WideInBytes
  <1>8. e \in Seq(Byte) /\ Len(e) = 0
    OBVIOUS
  <1> HIDE DEF k, v, e
  <1>9. d \in Seq(Byte) /\ Len(d) = 5
    <2>1. d \in Seq(Byte)
      BY <1>6, <1>7, Concatenation
    <2>2. Len(d) = Len(k) + Len(v)
      BY <1>6, <1>7, Concatenation
    <2> QED
      BY <1>6, <1>7, <2>1, <2>2
  <1>10. frame = Frame(motor_command, d, e)
    BY <1>3, <1>4
  <1> HIDE DEF d
  <1>11. /\ Len(frame) = 4 + Len(d) + Len(e) /\ frame[2] = motor_command
         /\ CrcIsRight(frame) /\ Holds(frame, 3, d)
    <2>1. motor_command \in Byte
      BY FunctionCodes
    <2> QED
      BY <1>8, <1>9, <1>10, <2>1, FrameParts
  <1>12. Holds(frame, 3, k) /\ Holds(frame, 3 + Len(k), v)
    BY <1>6, <1>7, <1>11, HoldsParts DEF d
  <1>13. Len(frame) \in Nat /\ Len(frame) >= 8
    BY <1>8, <1>9, <1>11
  <1>14. frame[3] = code
    BY <1>6, <1>12
  <1>15. WideAt(frame, 3 + 1) = value
    <2>1. \A i \in 1 .. 4 : frame[4 - 1 + i] = WideBytes(value)[i]
      <3>1. Holds(frame, 4, v)
        BY <1>6, <1>12
      <3> QED
        BY <1>7, <3>1 DEF Holds, v
    <2>2. WideAt(frame, 4) = value
      BY <1>5, <2>1, WideRoundTrip
    <2> QED
      BY <2>2
  <1>16. CommandAt(frame, 3) = Commanded(s)
    <2> DEFINE x == WideAt(frame, 3 + 1)
    <2> HIDE DEF s
    <2>1. CASE s.comms_mode = "ForceMode"
      BY <1>1, <1>14, <1>15, <2>1 DEF CommandAt, Commanded, FORCE_CMD, POS_CMD,
             kinematic_command_code, haptic_command_code
    <2>2. CASE s.comms_mode = "PositionMode"
      BY <1>1, <1>14, <1>15, <2>2 DEF CommandAt, Commanded, FORCE_CMD, POS_CMD,
             kinematic_command_code, haptic_command_code
    <2>3. CASE s.comms_mode = "KinematicMode"
      BY <1>1, <1>14, <1>15, <2>3 DEF CommandAt, Commanded, FORCE_CMD, POS_CMD,
             kinematic_command_code, haptic_command_code
    <2>4. CASE s.comms_mode = "HapticMode"
      BY <1>1, <1>14, <1>15, <2>4 DEF CommandAt, Commanded, FORCE_CMD, POS_CMD,
             kinematic_command_code, haptic_command_code
    <2>5. CASE s.comms_mode = "SleepMode"
      BY <1>1, <1>14, <1>15, <2>5 DEF CommandAt, Commanded, FORCE_CMD, POS_CMD,
             kinematic_command_code, haptic_command_code
    <2>6. CASE s.comms_mode = "AutoZeroMode"
      BY <1>1, <1>14, <1>15, <2>6 DEF CommandAt, Commanded, FORCE_CMD, POS_CMD,
             kinematic_command_code, haptic_command_code
    <2> QED
      BY <1>2, <2>1, <2>2, <2>3, <2>4, <2>5, <2>6
  <1>17. Meaning(frame) = [read |-> << >>, write |-> << >>, command |-> Commanded(s)]
    BY <1>11, <1>13, <1>16, MeaningByCode
  <1> QED
    BY <1>17 DEF frame, Understood

-----------------------------------------------------------------------------
\* The calls there are.
ReadShape(c) ==
    /\ c.function = read_holding_registers /\ c.start \in Word
    /\ c.read \in 1 .. MaxRead /\ c.data = << >>

SingleShape(c) ==
    /\ c.function = write_single_register /\ c.start \in Word
    /\ c.read = 0 /\ \E v \in Word : c.data = << v >>

WriteShape(c) ==
    /\ c.function = write_multiple_registers /\ c.start \in Word
    /\ c.read = 0 /\ c.data \in Seq(Word) /\ Len(c.data) \in 1 .. MaxWrite

ReadWriteShape(c) ==
    /\ c.function = read_write_multiple_registers /\ c.start \in Word
    /\ c.read \in 1 .. MaxRead /\ c.data \in Seq(Word) /\ Len(c.data) \in 1 .. MaxWrite

StreamShape(c) ==
    /\ c.function = motor_command /\ c.start = 0 /\ c.read = 0 /\ c.data = << >>
    /\ c.stream.comms_mode \in MotorMode /\ c.stream.force_command \in Wide
    /\ c.stream.position_command \in Wide /\ c.stream.haptic_command_effects \in Word

\* There are no others.
LEMMA CallShapes ==
    ASSUME NEW c \in BlockingCalls \cup StreamCalls
    PROVE  ReadShape(c) \/ SingleShape(c) \/ WriteShape(c) \/ ReadWriteShape(c) \/ StreamShape(c)
  <1>1. \A s \in Starts : s \in Word /\ s \in Nat
    BY FramesAssumption DEF FramesAssumption, Word
  <1>2. \A n \in Reads : n \in 1 .. MaxRead
    BY FramesAssumption DEF FramesAssumption
  <1>3. \A s \in Starts, v \in Seeds, n \in Writes :
            /\ Values(v, s, n) \in Seq(Word) /\ Len(Values(v, s, n)) = n /\ n \in 1 .. MaxWrite
    <2> TAKE s \in Starts, v \in Seeds, n \in Writes
    <2>1. s \in Nat /\ v \in Nat /\ n \in Nat /\ n \in 1 .. MaxWrite
      BY FramesAssumption DEF FramesAssumption, Word
    <2> QED
      BY <2>1, ValuesAreWords
  <1>4. \A s \in Starts, v \in Seeds : \E x \in Word : Values(v, s, 1) = << x >>
    <2> TAKE s \in Starts, v \in Seeds
    <2>1. s \in Nat /\ v \in Nat
      BY FramesAssumption DEF FramesAssumption, Word
    <2>2. Values(v, s, 1) \in Seq(Word) /\ Len(Values(v, s, 1)) = 1
      BY <2>1, ValuesAreWords
    <2> DEFINE x == Values(v, s, 1)
    <2> HIDE DEF x
    <2>3. x[1] \in Word /\ x = << x[1] >>
      BY <2>2 DEF x
    <2> QED
      BY <2>3 DEF x
  <1>5. CASE \E s \in Starts, n \in Reads : c = Call(read_holding_registers, s, n, << >>, NoStream)
    BY <1>1, <1>2, <1>5 DEF Call, ReadShape
  <1>6. CASE \E s \in Starts, v \in Seeds :
                 c = Call(write_single_register, s, 0, Values(v, s, 1), NoStream)
    BY <1>1, <1>4, <1>6 DEF Call, SingleShape
  <1>7. CASE \E s \in Starts, v \in Seeds, n \in Writes :
                 c = Call(write_multiple_registers, s, 0, Values(v, s, n), NoStream)
    BY <1>1, <1>3, <1>7 DEF Call, WriteShape
  <1>8. CASE \E s \in Starts, v \in Seeds, n \in Reads, m \in Writes :
                 c = Call(read_write_multiple_registers, s, n, Values(v, s, m), NoStream)
    BY <1>1, <1>2, <1>3, <1>8 DEF Call, ReadWriteShape
  <1>9. CASE c \in StreamCalls
    <2>1. PICK mode \in MotorMode, w \in Wides :
              c = Call(motor_command, 0, 0, << >>, OrcaStream(mode, w, -1 - w, uint16_t(w)))
      BY <1>9 DEF StreamCalls
    <2>2. w \in Wide /\ w \in Int /\ -1 - w \in Wide
      BY FramesAssumption, SmallAreWide DEF FramesAssumption
    <2>3. uint16_t(w) \in Word
      BY <2>2, WordBytes
    <2> QED
      BY <2>1, <2>2, <2>3 DEF Call, OrcaStream, StreamShape
  <1> QED
    BY <1>5, <1>6, <1>7, <1>8, <1>9 DEF BlockingCalls

\* What the motor is to understand of a call.
Meant(c) ==
    [read |-> IF c.read > 0 THEN << c.start, c.read >> ELSE << >>,
     write |-> IF c.data # << >> THEN << c.start, c.data >> ELSE << >>,
     command |-> IF c.function = motor_command THEN Commanded(c.stream) ELSE << >>]

\* Every call is understood as it is meant.
LEMMA CallIsUnderstood ==
    ASSUME NEW c \in BlockingCalls \cup StreamCalls
    PROVE  Meaning(load_transmission_data(c)) = Meant(c)
  <1>1. /\ read_holding_registers # motor_command /\ write_single_register # motor_command
        /\ write_multiple_registers # motor_command /\ read_write_multiple_registers # motor_command
    BY DEF read_holding_registers, write_single_register, write_multiple_registers,
           read_write_multiple_registers, motor_command
  <1>2. \A n \in 1 .. MaxRead : n \in Word /\ n > 0
    BY DEF MaxRead, Word
  <1>3. \A d \in Seq(Word) : Len(d) \in 1 .. MaxWrite => d # << >>
    OBVIOUS
  <1>4. CASE ReadShape(c)
    <2>1. Understood(c, << c.start, c.read >>, << >>, << >>)
      BY <1>2, <1>4, ReadIsUnderstood DEF ReadShape
    <2> QED
      BY <1>1, <1>2, <1>4, <2>1 DEF Understood, Meant, ReadShape
  <1>5. CASE SingleShape(c)
    <2>1. Understood(c, << >>, << c.start, c.data >>, << >>)
      BY <1>5, SingleIsUnderstood DEF SingleShape
    <2>2. c.data # << >>
      BY <1>5 DEF SingleShape
    <2> QED
      BY <1>1, <1>5, <2>1, <2>2 DEF Understood, Meant, SingleShape
  <1>6. CASE WriteShape(c)
    <2>1. Understood(c, << >>, << c.start, c.data >>, << >>)
      BY <1>6, WriteIsUnderstood DEF WriteShape
    <2> QED
      BY <1>1, <1>3, <1>6, <2>1 DEF Understood, Meant, WriteShape
  <1>7. CASE ReadWriteShape(c)
    <2>1. Understood(c, << c.start, c.read >>, << c.start, c.data >>, << >>)
      BY <1>2, <1>7, ReadWriteIsUnderstood DEF ReadWriteShape
    <2> QED
      BY <1>1, <1>2, <1>3, <1>7, <2>1 DEF Understood, Meant, ReadWriteShape
  <1>8. CASE StreamShape(c)
    <2>1. Understood(c, << >>, << >>, Commanded(c.stream))
      BY <1>8, StreamIsUnderstood DEF StreamShape
    <2> QED
      BY <1>8, <2>1 DEF Understood, Meant, StreamShape
  <1> QED
    BY <1>4, <1>5, <1>6, <1>7, <1>8, CallShapes

-----------------------------------------------------------------------------
(* The answers.                                                            *)

\* The body of the motor's answer, after address and function code.
AnswerBody(c) ==
    LET second == IF c.function = write_single_register THEN c.data[1] ELSE Len(c.data)
    IN  CASE c.function = motor_command -> StreamBody(Sensed(c))
          [] c.read > 0 -> << 2 * c.read >> \o BytesOf(Contents(c.start, c.read))
          [] OTHER -> HighAndLow(c.start) \o HighAndLow(second)

\* The motor's answer is a frame of the same form as the requests.
LEMMA AnswerIsFrame ==
    ASSUME NEW c, c.function \in Byte, AnswerBody(c) \in Seq(Byte)
    PROVE  Answer(c) = Frame(c.function, AnswerBody(c), << >>)
  <1> DEFINE h == << ServerAddress, c.function >>  b == AnswerBody(c)  crc == ReferenceCrc(h \o b)
  <1>1. h \in Seq(Byte)
    BY DEF ServerAddress, Byte
  <1>2. Answer(c) = h \o b \o << crc.hi, crc.lo >>
    BY DEF Answer, AnswerBody
  <1> HIDE DEF h, b
  <1>3. h \o b \in Seq(Byte)
    BY <1>1, Concatenation DEF b
  <1>4. crc = generate(h \o b)
    BY <1>3, ChecksumIsRemainder
  <1>5. (h \o b) \o << >> = h \o b
    BY <1>3
  <1> HIDE DEF crc
  <1>6. WithCrc(h \o b) = h \o b \o << crc.hi, crc.lo >>
    BY <1>4 DEF WithCrc
  <1> QED
    BY <1>2, <1>5, <1>6 DEF Frame, h, b

\* What is checked and read of an answer.
AnswerFits(c) ==
    /\ Answer(c) \in Seq(Byte) /\ Len(Answer(c)) = expected_length(c)
    /\ Answer(c)[2] = c.function
    /\ \E body \in Seq(Byte) : Answer(c) = WithCrc(body)
    /\ parse_registers(c, Answer(c)) = Contents(c.start, c.read)
    /\ c.function = motor_command => parse_stream_data(Answer(c)) = Sensed(c)

\* Its checksum is the one the code computes.
LEMMA FrameIsWithCrc ==
    ASSUME NEW f \in Byte, NEW d \in Seq(Byte)
    PROVE  \E body \in Seq(Byte) : Frame(f, d, << >>) = WithCrc(body)
  <1> DEFINE h == << ServerAddress, f >>
  <1>1. h \in Seq(Byte)
    BY DEF ServerAddress, Byte
  <1>2. Frame(f, d, << >>) = WithCrc((h \o d) \o << >>)
    BY DEF Frame
  <1> HIDE DEF h
  <1>3. h \o d \in Seq(Byte)
    BY <1>1, Concatenation
  <1>4. (h \o d) \o << >> = h \o d
    BY <1>3
  <1> QED
    BY <1>2, <1>3, <1>4

\* No registers are read of an answer to a write.
LEMMA NoContents == \A start : Contents(start, 0) = << >>
  BY DEF Contents, Values

\* The answer to a read fits,
LEMMA ReadAnswer ==
    ASSUME NEW c, c.function \in {read_holding_registers, read_write_multiple_registers},
           c.start \in Word, c.read \in 1 .. MaxRead
    PROVE  AnswerFits(c)
  <1> DEFINE n == c.read  r == Contents(c.start, n)  e == BytesOf(r)  k == << 2 * n >>
             d == k \o e  frame == Answer(c)  f == c.function  o == << >>
  <1>1. n \in Nat /\ n > 0 /\ 2 * n \in Byte /\ c.start \in Nat /\ 7 * c.start \in Nat
    BY DEF MaxRead, Byte, Word
  <1>2. r \in Seq(Word) /\ Len(r) = n
    BY <1>1, ValuesAreWords DEF Contents
  <1>3. AnswerBody(c) = d
    BY <1>1 DEF AnswerBody, read_holding_registers, read_write_multiple_registers, motor_command
  <1>4. e \in Seq(Byte) /\ Len(e) = 2 * n
    BY <1>2, BytesOfRegisters
  <1>5. k \in Seq(Byte) /\ Len(k) = 1
    BY <1>1
  <1>6. f \in Byte
    BY FunctionCodes
  <1>6a. o \in Seq(Byte) /\ Len(o) = 0
    BY EmptyIsBytes
  <1> HIDE DEF e, k
  <1>7. d \in Seq(Byte) /\ Len(d) = 1 + 2 * n
    <2>1. d \in Seq(Byte)
      BY <1>4, <1>5, Concatenation
    <2>2. Len(d) = Len(k) + Len(e)
      BY <1>4, <1>5, Concatenation
    <2> QED
      BY <1>4, <1>5, <2>1, <2>2
  <1>8. frame = Frame(f, d, o)
    BY <1>3, <1>6, <1>7, AnswerIsFrame
  <1> HIDE DEF d, frame, o
  <1>9. /\ frame \in Seq(Byte) /\ Len(frame) = 4 + Len(d) + Len(o) /\ frame[2] = f /\ Holds(frame, 3, d)
    BY <1>6, <1>6a, <1>7, <1>8, FrameParts
  <1>10. Holds(frame, 3 + Len(k), e)
    BY <1>4, <1>5, <1>9, HoldsParts DEF d
  <1>11. RegistersAt(frame, 4, n) = r
    <2>1. Holds(frame, 4, e)
      BY <1>5, <1>10
    <2> HIDE DEF r
    <2> QED
      BY <1>2, <2>1, HoldsRegisters DEF e
  <1>12. parse_registers(c, frame) = r
    BY <1>9, <1>11 DEF parse_registers
  <1> HIDE DEF n
  <1>13. Len(frame) = expected_length(c)
    <2>1. expected_length(c) = 5 + 2 * n
      BY DEF expected_length, read_holding_registers, read_write_multiple_registers,
         motor_command, write_single_register, write_multiple_registers, n
    <2> QED
      BY <1>1, <1>6a, <1>7, <1>9, <2>1
  <1>14. \E body \in Seq(Byte) : frame = WithCrc(body)
    BY <1>6, <1>7, <1>8, FrameIsWithCrc DEF o
  <1>15. c.function # motor_command
    BY DEF read_holding_registers, read_write_multiple_registers, motor_command
  <1>16. frame[2] = c.function
    BY <1>9
  <1> QED
    BY <1>9, <1>12, <1>13, <1>14, <1>15, <1>16 DEF AnswerFits, frame, n

\* so does that to a write,
LEMMA WriteAnswer ==
    ASSUME NEW c, c.function \in {write_single_register, write_multiple_registers},
           c.start \in Word, c.read = 0,
           c.function = write_single_register => c.data[1] \in Word,
           c.function = write_multiple_registers => Len(c.data) \in Word
    PROVE  AnswerFits(c)
  <1> DEFINE second == IF c.function = write_single_register THEN c.data[1] ELSE Len(c.data)
             d == HighAndLow(c.start) \o HighAndLow(second)  frame == Answer(c)  f == c.function  o == << >>
  <1>1. second \in Word
    OBVIOUS
  <1>2. AnswerBody(c) = d
    BY DEF AnswerBody, write_single_register, write_multiple_registers, motor_command
  <1> HIDE DEF second
  <1>3. d \in Seq(Byte) /\ Len(d) = 4
    BY <1>1, TwoWords
  <1>4. f \in Byte
    BY FunctionCodes
  <1>5. o \in Seq(Byte) /\ Len(o) = 0
    BY EmptyIsBytes
  <1>6. frame = Frame(f, d, o)
    BY <1>2, <1>3, <1>4, AnswerIsFrame
  <1> HIDE DEF d, frame, o
  <1>7. frame \in Seq(Byte) /\ Len(frame) = 4 + Len(d) + Len(o) /\ frame[2] = f
    BY <1>3, <1>4, <1>5, <1>6, FrameParts
  <1>8. Len(frame) = expected_length(c)
    <2>1. expected_length(c) = 8
      BY DEF expected_length, write_single_register, write_multiple_registers, motor_command
    <2> QED
      BY <1>3, <1>5, <1>7, <2>1
  <1>9. \E body \in Seq(Byte) : frame = WithCrc(body)
    BY <1>3, <1>4, <1>6, FrameIsWithCrc DEF o
  <1>10. parse_registers(c, frame) = << >>
    BY <1>7 DEF parse_registers, read_holding_registers, read_write_multiple_registers,
       write_single_register, write_multiple_registers
  <1>11. c.function # motor_command
    BY DEF write_single_register, write_multiple_registers, motor_command
  <1> QED
    BY <1>7, <1>8, <1>9, <1>10, <1>11, NoContents DEF AnswerFits, frame

\* Two pieces one after the other, in a frame that holds both.
LEMMA Joined ==
    ASSUME NEW left \in Seq(Byte), NEW right \in Seq(Byte)
    PROVE  /\ left \o right \in Seq(Byte)
           /\ Len(left \o right) = Len(left) + Len(right)
           /\ \A frame : Holds(frame, 3, left \o right) =>
                             Holds(frame, 3, left) /\ Holds(frame, 3 + Len(left), right)
  BY Concatenation, HoldsParts

\* The 32-bit value at a place of a frame is read back.
LEMMA HoldsWide ==
    ASSUME NEW frame, NEW at \in Nat, NEW w \in Wide, Holds(frame, at, WideBytes(w))
    PROVE  WideAt(frame, at) = w
  <1>1. w \in Int
    BY SmallAreWide
  <1>2. Len(WideBytes(w)) = 4
    BY <1>1, WideInBytes
  <1>3. \A i \in 1 .. 4 : frame[at - 1 + i] = WideBytes(w)[i]
    BY <1>2 DEF Holds
  <1> QED
    BY <1>3, WideRoundTrip

\* The pieces of the answer to a stream command, and what is read of them.
LEMMA StreamBodyIsRead ==
    ASSUME NEW s,
           s.position \in Wide, s.force \in Wide, s.power \in Word, s.temperature \in Byte,
           s.voltage \in Word, s.errors \in Word
    PROVE  /\ StreamBody(s) \in Seq(Byte) /\ Len(StreamBody(s)) = 15
           /\ \A frame : Holds(frame, 3, StreamBody(s)) =>
                  /\ WideAt(frame, 3) = s.position /\ WideAt(frame, 7) = s.force
                  /\ Pair(frame[11], frame[12]) = s.power /\ frame[13] = s.temperature
                  /\ Pair(frame[14], frame[15]) = s.voltage
                  /\ Pair(frame[16], frame[17]) = s.errors
  <1> DEFINE p == WideBytes(s.position)  f == WideBytes(s.force)  w == HighAndLow(s.power)
             t == << s.temperature >>  v == HighAndLow(s.voltage)  e == HighAndLow(s.errors)
             d1 == p \o f  d2 == d1 \o w  d3 == d2 \o t  d4 == d3 \o v  d5 == d4 \o e
  <1>1. StreamBody(s) = d5
    BY DEF StreamBody
  <1>2. s.position \in Int /\ s.force \in Int
    BY SmallAreWide
  <1>3. p \in Seq(Byte) /\ Len(p) = 4 /\ f \in Seq(Byte) /\ Len(f) = 4
    BY <1>2, WideInBytes
  <1>4. w \in Seq(Byte) /\ Len(w) = 2 /\ v \in Seq(Byte) /\ Len(v) = 2 /\ e \in Seq(Byte) /\ Len(e) = 2
    BY HighAndLowIsBytes
  <1>5. t \in Seq(Byte) /\ Len(t) = 1
    OBVIOUS
  <1>6. \A frame :
            /\ Holds(frame, 3, p) => WideAt(frame, 3) = s.position
            /\ Holds(frame, 7, f) => WideAt(frame, 7) = s.force
    BY HoldsWide
  <1>7. \A frame :
            /\ Holds(frame, 11, w) => Pair(frame[11], frame[12]) = s.power
            /\ Holds(frame, 13, t) => frame[13] = s.temperature
            /\ Holds(frame, 14, v) => Pair(frame[14], frame[15]) = s.voltage
            /\ Holds(frame, 16, e) => Pair(frame[16], frame[17]) = s.errors
    <2>1. ASSUME NEW frame, Holds(frame, 11, w) PROVE Pair(frame[11], frame[11 + 1]) = s.power
      BY <2>1, HoldsWord
    <2>2. ASSUME NEW frame, Holds(frame, 14, v) PROVE Pair(frame[14], frame[14 + 1]) = s.voltage
      BY <2>2, HoldsWord
    <2>3. ASSUME NEW frame, Holds(frame, 16, e) PROVE Pair(frame[16], frame[16 + 1]) = s.errors
      BY <2>3, HoldsWord
    <2>4. ASSUME NEW frame, Holds(frame, 13, t) PROVE frame[13] = s.temperature
      BY <2>4, HoldsByte
    <2> HIDE DEF w, t, v, e
    <2> QED
      BY <2>1, <2>2, <2>3, <2>4
  <1> HIDE DEF p, f, w, t, v, e
  <1>8. /\ d1 \in Seq(Byte) /\ Len(d1) = 8
        /\ \A frame : Holds(frame, 3, d1) => Holds(frame, 3, p) /\ Holds(frame, 7, f)
    <2>1. p \in Seq(Byte) /\ Len(p) = 4 /\ f \in Seq(Byte) /\ Len(f) = 4
      BY <1>3
    <2>2. /\ d1 \in Seq(Byte) /\ Len(d1) = Len(p) + Len(f)
          /\ \A frame : Holds(frame, 3, d1) => Holds(frame, 3, p) /\ Holds(frame, 3 + Len(p), f)
      BY <2>1, Joined
    <2> QED
      BY <2>1, <2>2
  <1> HIDE DEF d1
  <1>9. /\ d2 \in Seq(Byte) /\ Len(d2) = 10
        /\ \A frame : Holds(frame, 3, d2) => Holds(frame, 3, d1) /\ Holds(frame, 11, w)
    <2>1. d1 \in Seq(Byte) /\ Len(d1) = 8 /\ w \in Seq(Byte) /\ Len(w) = 2
      BY <1>4, <1>8
    <2>2. /\ d2 \in Seq(Byte) /\ Len(d2) = Len(d1) + Len(w)
          /\ \A frame : Holds(frame, 3, d2) => Holds(frame, 3, d1) /\ Holds(frame, 3 + Len(d1), w)
      BY <2>1, Joined
    <2> QED
      BY <2>1, <2>2
  <1> HIDE DEF d2
  <1>10. /\ d3 \in Seq(Byte) /\ Len(d3) = 11
        /\ \A frame : Holds(frame, 3, d3) => Holds(frame, 3, d2) /\ Holds(frame, 13, t)
    <2>1. d2 \in Seq(Byte) /\ Len(d2) = 10 /\ t \in Seq(Byte) /\ Len(t) = 1
      BY <1>5, <1>9
    <2>2. /\ d3 \in Seq(Byte) /\ Len(d3) = Len(d2) + Len(t)
          /\ \A frame : Holds(frame, 3, d3) => Holds(frame, 3, d2) /\ Holds(frame, 3 + Len(d2), t)
      BY <2>1, Joined
    <2> QED
      BY <2>1, <2>2
  <1> HIDE DEF d3
  <1>11. /\ d4 \in Seq(Byte) /\ Len(d4) = 13
        /\ \A frame : Holds(frame, 3, d4) => Holds(frame, 3, d3) /\ Holds(frame, 14, v)
    <2>1. d3 \in Seq(Byte) /\ Len(d3) = 11 /\ v \in Seq(Byte) /\ Len(v) = 2
      BY <1>4, <1>10
    <2>2. /\ d4 \in Seq(Byte) /\ Len(d4) = Len(d3) + Len(v)
          /\ \A frame : Holds(frame, 3, d4) => Holds(frame, 3, d3) /\ Holds(frame, 3 + Len(d3), v)
      BY <2>1, Joined
    <2> QED
      BY <2>1, <2>2
  <1> HIDE DEF d4
  <1>12. /\ d5 \in Seq(Byte) /\ Len(d5) = 15
        /\ \A frame : Holds(frame, 3, d5) => Holds(frame, 3, d4) /\ Holds(frame, 16, e)
    <2>1. d4 \in Seq(Byte) /\ Len(d4) = 13 /\ e \in Seq(Byte) /\ Len(e) = 2
      BY <1>4, <1>11
    <2>2. /\ d5 \in Seq(Byte) /\ Len(d5) = Len(d4) + Len(e)
          /\ \A frame : Holds(frame, 3, d5) => Holds(frame, 3, d4) /\ Holds(frame, 3 + Len(d4), e)
      BY <2>1, Joined
    <2> QED
      BY <2>1, <2>2
  <1> HIDE DEF d5
  <1>13. ASSUME NEW frame, Holds(frame, 3, d5)
         PROVE  /\ Holds(frame, 3, p) /\ Holds(frame, 7, f) /\ Holds(frame, 11, w)
                /\ Holds(frame, 13, t) /\ Holds(frame, 14, v) /\ Holds(frame, 16, e)
    <2>1. /\ Holds(frame, 3, d4) /\ Holds(frame, 16, e)
          /\ Holds(frame, 3, d3) /\ Holds(frame, 14, v)
          /\ Holds(frame, 3, d2) /\ Holds(frame, 13, t)
      BY <1>10, <1>11, <1>12, <1>13
    <2>2. /\ Holds(frame, 3, d1) /\ Holds(frame, 11, w)
          /\ Holds(frame, 3, p) /\ Holds(frame, 7, f)
      BY <1>8, <1>9, <2>1
    <2> QED
      BY <2>1, <2>2
  <1> QED
    BY <1>1, <1>6, <1>7, <1>12, <1>13

\* and that to a stream command.
LEMMA StreamAnswer ==
    ASSUME NEW c, StreamShape(c)
    PROVE  AnswerFits(c)
  <1> DEFINE s == Sensed(c)  d == StreamBody(s)  frame == Answer(c)  f == c.function  o == << >>
             x == c.stream.force_command
  <1>1. x \in Wide /\ x \in Int /\ -1 - x \in Wide
    BY SmallAreWide DEF StreamShape
  <1>2. /\ s.position \in Wide /\ s.force \in Wide /\ s.power \in Word /\ s.temperature \in Byte
        /\ s.voltage \in Word /\ s.errors \in Word
        /\ s = [position |-> s.position, force |-> s.force, power |-> s.power,
                temperature |-> s.temperature, voltage |-> s.voltage, errors |-> s.errors]
    <2>1. x \div 65536 \in Int /\ 4099 - (x \div 2) \in Int
      BY <1>1
    <2>2. /\ uint16_t(x) \in Word /\ uint8_t(x) \in Byte /\ uint16_t(x \div 65536) \in Word
          /\ uint16_t(4099 - (x \div 2)) \in Word
      BY <1>1, <2>1, WordBytes
    <2>3. s = [position |-> x, force |-> -1 - x, power |-> uint16_t(x),
               temperature |-> uint8_t(x), voltage |-> uint16_t(x \div 65536),
               errors |-> uint16_t(4099 - (x \div 2))]
      BY DEF Sensed
    <2> HIDE DEF s, x
    <2> QED
      BY <1>1, <2>2, <2>3
  <1>3. AnswerBody(c) = d /\ f = motor_command
    BY DEF AnswerBody, StreamShape
  <1> HIDE DEF s
  <1>4. /\ d \in Seq(Byte) /\ Len(d) = 15
        /\ \A g : Holds(g, 3, d) =>
               /\ WideAt(g, 3) = s.position /\ WideAt(g, 7) = s.force
               /\ Pair(g[11], g[12]) = s.power /\ g[13] = s.temperature
               /\ Pair(g[14], g[15]) = s.voltage /\ Pair(g[16], g[17]) = s.errors
    BY <1>2, StreamBodyIsRead
  <1>5. f \in Byte
    BY <1>3, FunctionCodes
  <1>6. o \in Seq(Byte) /\ Len(o) = 0
    BY EmptyIsBytes
  <1>7. frame = Frame(f, d, o)
    BY <1>3, <1>4, <1>5, AnswerIsFrame
  <1> HIDE DEF d, frame, o
  <1>8. /\ frame \in Seq(Byte) /\ Len(frame) = 4 + Len(d) + Len(o) /\ frame[2] = f /\ Holds(frame, 3, d)
    BY <1>4, <1>5, <1>6, <1>7, FrameParts
  <1>9. Len(frame) = expected_length(c)
    <2>1. expected_length(c) = 19
      BY <1>3 DEF expected_length, motor_command, write_single_register, write_multiple_registers
    <2> QED
      BY <1>4, <1>6, <1>8, <2>1
  <1>10. \E body \in Seq(Byte) : frame = WithCrc(body)
    BY <1>4, <1>5, <1>7, FrameIsWithCrc DEF o
  <1>11. parse_registers(c, frame) = << >>
    BY <1>3, <1>8 DEF parse_registers, motor_command, read_holding_registers, read_write_multiple_registers
  <1>12. parse_stream_data(frame) = s
    <2>1. /\ WideAt(frame, 3) = s.position /\ WideAt(frame, 7) = s.force
          /\ Pair(frame[11], frame[12]) = s.power /\ frame[13] = s.temperature
          /\ Pair(frame[14], frame[15]) = s.voltage /\ Pair(frame[16], frame[17]) = s.errors
      BY <1>4, <1>8
    <2>2. parse_stream_data(frame) =
              [position |-> s.position, force |-> s.force, power |-> s.power,
               temperature |-> s.temperature, voltage |-> s.voltage, errors |-> s.errors]
      BY <1>3, <1>8, <2>1 DEF parse_stream_data
    <2> QED
      BY <1>2, <2>2
  <1> QED
    BY <1>8, <1>9, <1>10, <1>11, <1>12, NoContents DEF AnswerFits, frame, s, StreamShape

\* Every call's answer fits.
LEMMA CallIsAnswered ==
    ASSUME NEW c \in BlockingCalls \cup StreamCalls
    PROVE  AnswerFits(c)
  <1>1. CASE ReadShape(c)
    BY <1>1, ReadAnswer DEF ReadShape
  <1>2. CASE SingleShape(c)
    <2>1. c.data[1] \in Word /\ c.function # write_multiple_registers
      BY <1>2 DEF SingleShape, write_single_register, write_multiple_registers
    <2> QED
      BY <1>2, <2>1, WriteAnswer DEF SingleShape
  <1>3. CASE WriteShape(c)
    <2>1. \A n \in 1 .. MaxWrite : n \in Word
      BY DEF MaxWrite, Word
    <2>2. Len(c.data) \in Word
      BY <1>3, <2>1 DEF WriteShape
    <2>3. c.function # write_single_register
      BY <1>3 DEF WriteShape, write_single_register, write_multiple_registers
    <2> QED
      BY <1>3, <2>2, <2>3, WriteAnswer DEF WriteShape
  <1>4. CASE ReadWriteShape(c)
    BY <1>4, ReadAnswer DEF ReadWriteShape
  <1>5. CASE StreamShape(c)
    BY <1>5, StreamAnswer
  <1> QED
    BY <1>1, <1>2, <1>3, <1>4, <1>5, CallShapes

\* An answer is no exception, and is longer than one.
LEMMA AnswerIsNormal ==
    ASSUME NEW c \in BlockingCalls \cup StreamCalls
    PROVE  ~is_error_response(Answer(c)) /\ Len(Answer(c)) >= 5
  <1>1. Answer(c)[2] = c.function /\ Len(Answer(c)) = expected_length(c)
    BY CallIsAnswered DEF AnswerFits
  <1>2. /\ c.function \in {read_holding_registers, write_single_register,
                           write_multiple_registers, read_write_multiple_registers,
                           motor_command}
        /\ c.read \in 0 .. MaxRead
    BY CallShapes DEF ReadShape, SingleShape, WriteShape, ReadWriteShape, StreamShape, MaxRead
  <1>3. c.function \in Int /\ c.function < 128 /\ c.read \in Nat
    BY <1>2 DEF MaxRead, read_holding_registers, write_single_register,
       write_multiple_registers, read_write_multiple_registers, motor_command
  <1>4. expected_length(c) \in {8, 19, 5 + 2 * c.read}
    BY Zenon DEF expected_length
  <1>5. expected_length(c) >= 5
    BY <1>3, <1>4
  <1> QED
    BY <1>1, <1>3, <1>5 DEF is_error_response

-----------------------------------------------------------------------------
(* Damage, and the invariant.                                              *)

\* A byte with some bits turned over is another byte.
LEMMA FlippedByte ==
    ASSUME NEW x \in Byte, NEW bits \in Byte \ {0}
    PROVE  x ^^ bits \in Byte /\ x ^^ bits # x
  <1>1. x \in Word /\ bits \in Word
    BY DEF Byte, Word
  <1>2. (bits ^^ x) ^^ x = bits /\ bits ^^ x = x ^^ bits /\ x ^^ x = 0
    BY <1>1, XorCancels, XorCommutes, XorZero
  <1> QED
    BY <1>2, XorRange

\* The check accepts a frame as it was sent.
LEMMA UndamagedIsAccepted ==
    ASSUME NEW body \in Seq(Byte)
    PROVE  check_rx_buffer_crc(WithCrc(body))
  <1> DEFINE frame == WithCrc(body)
  <1>1. Len(body) \in Nat /\ Len(frame) = Len(body) + 2
    BY WithCrcParts
  <1>2. SubSeq(frame, 1, Len(frame) - 2) = body
    BY WithCrcParts
  <1>3. WithCrc(SubSeq(frame, 1, Len(frame) - 2)) = frame
    BY <1>2
  <1> HIDE DEF frame
  <1>4. check_rx_buffer_crc(frame)
    BY <1>1, <1>3 DEF check_rx_buffer_crc
  <1> QED
    BY <1>4 DEF frame

\* Some bits of one byte turned over.
Flipped(s, i, bits) == [s EXCEPT ![i] = s[i] ^^ bits]

\* The frame is as long, and differs in that byte only.
LEMMA FlippedIsOther ==
    ASSUME NEW s \in Seq(Byte), NEW i \in 1 .. Len(s), NEW bits \in Byte \ {0}
    PROVE  /\ Flipped(s, i, bits) \in Seq(Byte) /\ Len(Flipped(s, i, bits)) = Len(s)
           /\ Flipped(s, i, bits)[i] # s[i]
           /\ \A k \in 1 .. Len(s) : k # i => Flipped(s, i, bits)[k] = s[k]
  <1> DEFINE n == Len(s)  t == Flipped(s, i, bits)  y == s[i] ^^ bits
  <1>1. n \in Nat /\ DOMAIN s = 1 .. n /\ s \in [1 .. n -> Byte] /\ s[i] \in Byte
    OBVIOUS
  <1>2. y \in Byte /\ y # s[i]
    BY <1>1, FlippedByte
  <1>3. t = [s EXCEPT ![i] = y]
    BY DEF Flipped
  <1> HIDE DEF y, t
  <1>4. /\ t \in [1 .. n -> Byte] /\ t[i] = y
        /\ \A k \in 1 .. n : k # i => t[k] = s[k]
    BY <1>1, <1>2, <1>3, Zenon
  <1> HIDE <1>3
  <1>5. t \in Seq(Byte) /\ Len(t) = n
    BY <1>1, <1>4
  <1> QED
    BY <1>2, <1>4, <1>5 DEF t

\* A byte other than the one that was sent, of the body or of the checksum,
\* is found.
LEMMA DamageIsFound ==
    ASSUME NEW body \in Seq(Byte), NEW i \in 1 .. Len(WithCrc(body)),
           NEW d \in Seq(Byte), Len(d) = Len(WithCrc(body)), d[i] # WithCrc(body)[i],
           \A k \in 1 .. Len(WithCrc(body)) : k # i => d[k] = WithCrc(body)[k]
    PROVE  ~check_rx_buffer_crc(d)
  <1> DEFINE n == Len(body)  frame == WithCrc(body)  m == SubSeq(d, 1, Len(d) - 2)
  <1>1. /\ frame \in Seq(Byte) /\ n \in Nat /\ Len(frame) = n + 2
        /\ frame[n + 1] = generate(body).hi /\ frame[n + 2] = generate(body).lo
        /\ Holds(frame, 1, body)
    <2>1. frame \in Seq(Byte) /\ Len(frame) = n + 2
      BY WithCrcParts
    <2>2. frame[n + 1] = generate(body).hi /\ frame[n + 2] = generate(body).lo
      BY WithCrcParts
    <2>3. Holds(frame, 1, body)
      BY WithCrcParts
    <2>4. n \in Nat
      OBVIOUS
    <2> QED
      BY <2>1, <2>2, <2>3, <2>4
  <1>2. \A k \in 1 .. n : frame[k] = body[k]
    <2> HIDE DEF frame
    <2>1. \A k \in 1 .. n : frame[1 - 1 + k] = body[k] /\ 1 - 1 + k = k
      BY <1>1 DEF Holds
    <2> QED
      BY <2>1
  <1> HIDE DEF frame
  <1>3. /\ i \in 1 .. n + 2 /\ Len(d) = n + 2 /\ d[i] # frame[i]
        /\ \A k \in 1 .. n + 2 : k # i => d[k] = frame[k]
    BY <1>1 DEF frame
  <1>4. m \in Seq(Byte) /\ Len(m) = n /\ \A k \in 1 .. n : m[k] = d[k]
    BY <1>1, <1>3
  <1> HIDE DEF m
  <1>5. WithCrc(m) # d
    <2> SUFFICES ASSUME WithCrc(m) = d PROVE FALSE
      OBVIOUS
    <2>1. d[n + 1] = generate(m).hi /\ d[n + 2] = generate(m).lo
      <3>1. /\ WithCrc(m)[Len(m) + 1] = generate(m).hi
            /\ WithCrc(m)[Len(m) + 2] = generate(m).lo
        BY <1>4, WithCrcParts
      <3> QED
        BY <1>4, <3>1
    <2>2. CASE i \in 1 .. n
      <3>1. /\ i \in 1 .. Len(m) /\ m[i] # body[i] /\ Len(m) = Len(body)
            /\ \A k \in 1 .. Len(m) : k # i => m[k] = body[k]
        BY <1>1, <1>2, <1>3, <1>4, <2>2
      <3>2. generate(m) # generate(body)
        BY <1>4, <3>1, DamageChangesChecksum
      <3>3. generate(m).hi = generate(body).hi /\ generate(m).lo = generate(body).lo
        BY <1>1, <1>3, <2>1, <2>2
      <3>4. generate(m) \in Sum /\ generate(body) \in Sum
        BY <1>4, ChecksumIsRemainder
      <3> QED
        BY <3>2, <3>3, <3>4 DEF Sum
    <2>3. CASE i \notin 1 .. n
      <3>1. \A k \in 1 .. n : m[k] = body[k]
        BY <1>1, <1>2, <1>3, <1>4, <2>3
      <3>2. m = body
        BY <1>4, <3>1, SameElements
      <3> QED
        BY <1>3, <3>2 DEF frame
    <2> QED
      BY <2>2, <2>3
  <1> QED
    BY <1>1, <1>3, <1>5 DEF check_rx_buffer_crc, m

-----------------------------------------------------------------------------
\* What is taken of a frame is the frame, unless that is an exception.
LEMMA ReceptionKinds ==
    ASSUME NEW frame \in Seq(Byte), Len(frame) >= 5
    PROVE  /\ is_error_response(Reception(frame)) <=> is_error_response(frame)
           /\ ~is_error_response(frame) => Reception(frame) = frame
  <1>1. SubSeq(frame, 1, 5)[2] = frame[2]
    OBVIOUS
  <1> QED
    BY <1>1 DEF Reception, is_error_response

\* The frames at every stage of a call: the request is the call's, the answer
\* is the motor's, or, when it was damaged, what is taken of it with one byte
\* changed, and the results are what is read from it.
Received ==
    \/ ~damaged /\ rx_buffer = Answer(call)
    \/ damaged /\ \E i \in DOMAIN Answer(call), bits \in Flips :
                      rx_buffer = Reception(Flipped(Answer(call), i, bits))

FramesInv ==
    /\ stage \in {"idle", "sent", "answered", "received", "handled"}
    /\ stage # "idle" => call \in BlockingCalls \cup StreamCalls
    /\ stage = "sent" => tx_buffer = load_transmission_data(call)
    /\ stage \in {"sent", "answered"} => ~damaged
    /\ stage = "answered" => rx_buffer = Answer(call)
    /\ stage \in {"received", "handled"} => Received
    /\ stage = "handled" =>
           /\ message_data = parse_registers(call, rx_buffer)
           /\ stream_data = parse_stream_data(rx_buffer)

\* FramesInv holds: at every stage the frames are those of the call that is on.
THEOREM FramesInvariant == Spec => []FramesInv
  <1>1. Init => FramesInv
    BY DEF Init, FramesInv
  <1>2. FramesInv /\ [Next]_vars => FramesInv'
    <2> SUFFICES ASSUME FramesInv, [Next]_vars
                 PROVE  FramesInv'
      OBVIOUS
    <2> USE DEF FramesInv
    <2>1. ASSUME NEW c \in BlockingCalls \cup StreamCalls, blocking_call(c)
          PROVE  FramesInv'
      BY <2>1 DEF blocking_call
    <2>2. CASE MotorAnswers
      BY <2>2 DEF MotorAnswers
    <2>3. CASE AnswerArrives
      <3>1. Reception(Answer(call)) = Answer(call)
        BY <2>3, AnswerIsNormal DEF AnswerArrives, Reception
      <3> QED
        BY <2>3, <3>1 DEF AnswerArrives, Received
    <2>4. CASE DamagedAnswerArrives
      <3>1. /\ stage = "answered" /\ stage' = "received" /\ damaged' /\ call' = call
            /\ rx_buffer = Answer(call)
        BY <2>4 DEF DamagedAnswerArrives
      <3>2. \E i \in DOMAIN Answer(call), bits \in Flips :
                rx_buffer' = Reception(Flipped(Answer(call), i, bits))
        BY <2>4, <3>1 DEF DamagedAnswerArrives, Flipped
      <3> QED
        BY <3>1, <3>2 DEF Received
    <2>5. CASE handle_transaction_response
      BY <2>5 DEF handle_transaction_response, Received
    <2>6. CASE Return
      BY <2>6 DEF Return
    <2>7. CASE UNCHANGED vars
      BY <2>7 DEF vars, results, Received
    <2> QED
      BY <2>1, <2>2, <2>3, <2>4, <2>5, <2>6, <2>7 DEF Next
  <1> QED
    BY <1>1, <1>2, PTL DEF Spec

\* What is known of the answer to the call that is on.
LEMMA ReceivedFrame ==
    ASSUME call \in BlockingCalls \cup StreamCalls, Received
    PROVE  /\ ~is_error_response(rx_buffer) => Len(rx_buffer) = expected_length(call)
           /\ check_rx_buffer_crc(rx_buffer) /\ ~is_error_response(rx_buffer) <=> ~damaged
  <1>1. PICK body \in Seq(Byte) : Answer(call) = WithCrc(body)
    BY CallIsAnswered DEF AnswerFits
  <1>2. Answer(call) \in Seq(Byte) /\ Len(Answer(call)) = expected_length(call)
    BY CallIsAnswered DEF AnswerFits
  <1>3. CASE ~damaged
    <2>1. rx_buffer = Answer(call)
      BY <1>3 DEF Received
    <2>2. ~is_error_response(rx_buffer)
      BY <2>1, AnswerIsNormal
    <2>3. check_rx_buffer_crc(rx_buffer)
      BY <1>1, <2>1, UndamagedIsAccepted
    <2> QED
      BY <1>2, <1>3, <2>1, <2>2, <2>3
  <1>4. CASE damaged
    <2>1. PICK i \in DOMAIN Answer(call), bits \in Flips :
              rx_buffer = Reception(Flipped(Answer(call), i, bits))
      BY <1>4 DEF Received
    <2>2. i \in 1 .. Len(Answer(call)) /\ bits \in Byte \ {0}
      BY <1>2, <2>1, FramesAssumption DEF FramesAssumption
    <2> DEFINE frame == Flipped(Answer(call), i, bits)
    <2>3. /\ frame \in Seq(Byte) /\ Len(frame) = Len(Answer(call))
          /\ frame[i] # Answer(call)[i]
          /\ \A k \in 1 .. Len(Answer(call)) : k # i => frame[k] = Answer(call)[k]
      BY <1>2, <2>2, FlippedIsOther
    <2> HIDE DEF frame
    <2>4. ~check_rx_buffer_crc(frame)
      BY <1>1, <2>2, <2>3, DamageIsFound
    <2>5. Len(frame) >= 5
      BY <2>3, AnswerIsNormal
    <2>6. /\ is_error_response(rx_buffer) <=> is_error_response(frame)
          /\ ~is_error_response(frame) => rx_buffer = frame
      BY <2>1, <2>3, <2>5, ReceptionKinds DEF frame
    <2> QED
      BY <1>2, <1>4, <2>3, <2>4, <2>6
  <1> QED
    BY <1>3, <1>4

\* The motor understands every request as the caller meant it: whatever numbers
\* of registers fit, at any address, with any values, and any stream command.
THEOREM RequestIsUnderstood == Spec => []MotorUnderstands
  <1>1. FramesInv => MotorUnderstands
    <2> SUFFICES ASSUME FramesInv, stage = "sent"
                 PROVE  Meaning(tx_buffer) = Meant(call)
      BY DEF MotorUnderstands, Meant
    <2>1. call \in BlockingCalls \cup StreamCalls /\ tx_buffer = load_transmission_data(call)
      BY DEF FramesInv
    <2> QED
      BY <2>1, CallIsUnderstood
  <1> QED
    BY <1>1, FramesInvariant, PTL

\* The length waited for is that of the answer, unless an exception is read,
\* and an undamaged answer gives back what the motor has, every register and
\* every 32-bit value.
THEOREM AnswerIsReadBack == Spec => []AnswerIsRead
  <1>1. FramesInv => AnswerIsRead
    <2> SUFFICES ASSUME FramesInv
                 PROVE  AnswerIsRead
      OBVIOUS
    <2>1. ASSUME stage = "received", ~is_error_response(rx_buffer)
          PROVE  Len(rx_buffer) = expected_length(call)
      <3>1. call \in BlockingCalls \cup StreamCalls /\ Received
        BY <2>1 DEF FramesInv
      <3> QED
        BY <2>1, <3>1, ReceivedFrame
    <2>2. ASSUME stage = "handled", ~damaged
          PROVE  /\ message_data = Contents(call.start, call.read)
                 /\ call.function = motor_command => stream_data = Sensed(call)
      <3>1. /\ call \in BlockingCalls \cup StreamCalls /\ rx_buffer = Answer(call)
            /\ message_data = parse_registers(call, rx_buffer)
            /\ stream_data = parse_stream_data(rx_buffer)
        BY <2>2 DEF FramesInv, Received
      <3>2. AnswerFits(call)
        BY <3>1, CallIsAnswered
      <3> QED
        BY <3>1, <3>2 DEF AnswerFits
    <2> QED
      BY <2>1, <2>2 DEF AnswerIsRead
  <1> QED
    BY <1>1, FramesInvariant, PTL

\* An answer passes for one to the call, its checksum right and its function
\* code no exception's, exactly when no byte of it was damaged.  Damage that
\* makes an exception of it, which may have a right checksum, is left open.
THEOREM DamageIsAlwaysSeen == Spec => []DamageIsSeen
  <1>1. FramesInv => DamageIsSeen
    <2> SUFFICES ASSUME FramesInv, stage = "received"
                 PROVE  check_rx_buffer_crc(rx_buffer) /\ ~is_error_response(rx_buffer)
                            <=> ~damaged
      BY DEF DamageIsSeen
    <2>1. call \in BlockingCalls \cup StreamCalls /\ Received
      BY DEF FramesInv
    <2> QED
      BY <2>1, ReceivedFrame
  <1> QED
    BY <1>1, FramesInvariant, PTL
=============================================================================
