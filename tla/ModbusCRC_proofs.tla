-------------------------- MODULE ModbusCRC_proofs --------------------------
(***************************************************************************)
(* Proofs about the checksum, for messages of any length: the tables compute *)
(* the remainder by the polynomial, and one damaged byte changes it.  What is *)
(* defined by recursion is reached by induction over sets of numbers, which *)
(* the library's theorem about well-founded relations gives.               *)
(***************************************************************************)
EXTENDS ModbusCRC, WellFoundedInduction, TLAPS

-----------------------------------------------------------------------------
(* Induction, and what Xor is.                                             *)

\* Every set of natural numbers but the empty one has a least element.
LEMMA LeastNumber ==
    ASSUME NEW T \in SUBSET Nat, T # {}
    PROVE  \E x \in T : \A y \in T : x <= y
  <1>1. IsWellFoundedOn({p \in Nat \X Nat : p[1] < p[2]}, Nat)
    BY NatLessThanWellFounded, Zenon DEF OpToRel
  <1>2. PICK x \in T : \A y \in T : ~ (<<y, x>> \in {p \in Nat \X Nat : p[1] < p[2]})
    BY <1>1, WFMin
  <1>3. \A y \in T : ~ (y < x)
    BY <1>2
  <1> QED
    BY <1>3

\* A set that has 0, and the successor of every number in it, has all numbers.
LEMMA Induction ==
    ASSUME NEW S, 0 \in S, \A n \in Nat : n \in S => n + 1 \in S
    PROVE  Nat \subseteq S
  <1> SUFFICES ASSUME Nat \ S # {} PROVE FALSE
    OBVIOUS
  <1>1. PICK x \in Nat \ S : \A y \in Nat \ S : x <= y
    BY LeastNumber
  <1>2. x # 0 /\ x - 1 \in Nat /\ x - 1 \in S
    BY <1>1
  <1> QED
    BY <1>1, <1>2

\* A set that has a number whenever it has all smaller ones has them all.
LEMMA StrongInduction ==
    ASSUME NEW S, \A n \in Nat : (\A m \in Nat : m < n => m \in S) => n \in S
    PROVE  Nat \subseteq S
  <1> SUFFICES ASSUME Nat \ S # {} PROVE FALSE
    OBVIOUS
  <1>1. PICK x \in Nat \ S : \A y \in Nat \ S : x <= y
    BY LeastNumber
  <1>2. \A m \in Nat : m < x => m \in S
    BY <1>1
  <1> QED
    BY <1>1, <1>2

-----------------------------------------------------------------------------
\* What the equation of Xor says of `a` with `g` in the place of Xor.
XorBody(g, a) ==
    [b \in Word |-> IF a = 0 THEN b ELSE 2 * g[a \div 2][b \div 2] + ((a + b) % 2)]

UpTo(n) == {x \in Nat : x < n}

\* The recursion of Xor ends, so its equation has a solution.
LEMMA XorExists == \A n \in Nat : \E f : f = [a \in UpTo(n) |-> XorBody(f, a)]
  <1> DEFINE S == {n \in Nat : \E f : f = [a \in UpTo(n) |-> XorBody(f, a)]}
  <1>1. 0 \in S
    <2> DEFINE f == [a \in {} |-> 0]
    <2>1. UpTo(0) = {}
      BY DEF UpTo
    <2>2. f = [a \in UpTo(0) |-> XorBody(f, a)]
      BY <2>1
    <2> QED
      BY <2>2
  <1>2. ASSUME NEW n \in Nat, n \in S PROVE n + 1 \in S
    <2>1. PICK f : f = [a \in UpTo(n) |-> XorBody(f, a)]
      BY <1>2
    <2> DEFINE g == [a \in UpTo(n + 1) |-> XorBody(f, a)]
    <2>2. \A a \in UpTo(n) : a \in UpTo(n + 1) /\ g[a] = f[a]
      BY <2>1 DEF UpTo
    <2>3. \A a \in UpTo(n + 1) : a # 0 => a \div 2 \in UpTo(n)
      BY DEF UpTo
    <2>4. \A a \in UpTo(n + 1) : XorBody(g, a) = XorBody(f, a)
      <3> SUFFICES ASSUME NEW a \in UpTo(n + 1)
                   PROVE  \A b \in Word : XorBody(g, a)[b] = XorBody(f, a)[b]
        BY DEF XorBody
      <3>1. a # 0 => g[a \div 2] = f[a \div 2]
        BY <2>2, <2>3
      <3> HIDE DEF g
      <3> QED
        BY <3>1 DEF XorBody
    <2>5. g = [a \in UpTo(n + 1) |-> XorBody(g, a)]
      BY <2>4, Zenon
    <2>6. \E h : h = [a \in UpTo(n + 1) |-> XorBody(h, a)]
      BY <2>5, Zenon
    <2> QED
      BY <2>6
  <1>3. Nat \subseteq S
    BY <1>1, <1>2, Induction
  <1> QED
    BY <1>3

\* Hence Xor satisfies the equation that defines it.
LEMMA XorEquation ==
    \A a, b \in Word :
        Xor[a][b] = IF a = 0 THEN b ELSE 2 * Xor[a \div 2][b \div 2] + ((a + b) % 2)
  <1>1. PICK f : f = [a \in UpTo(65536) |-> XorBody(f, a)]
    BY XorExists
  <1>2. f = [a \in Word |-> XorBody(f, a)]
    BY <1>1 DEF UpTo, Word
  <1>3. Xor = [a \in Word |-> XorBody(Xor, a)]
    BY <1>2, Zenon DEF Xor, XorBody
  <1> QED
    BY <1>3 DEF XorBody

-----------------------------------------------------------------------------
\* What the equation means for the parts of a word.
LEMMA XorStep ==
    ASSUME NEW a \in Word, NEW b \in Word
    PROVE  /\ a \div 2 \in Word /\ b \div 2 \in Word
           /\ a ^^ b = 2 * ((a \div 2) ^^ (b \div 2)) + ((a + b) % 2)
  <1>1. a \div 2 \in Word /\ b \div 2 \in Word
    BY DEF Word
  <1>2. CASE a # 0
    BY <1>1, <1>2, XorEquation DEF ^^
  <1>3. CASE a = 0
    <2>1. Xor[0][b] = b /\ Xor[0][b \div 2] = b \div 2
      BY <1>1, <1>3, XorEquation
    <2>2. b = 2 * (b \div 2) + (b % 2) /\ 0 \div 2 = 0 /\ 0 + b = b
      BY DEF Word
    <2>3. a ^^ b = b /\ (a \div 2) ^^ (b \div 2) = b \div 2
      BY <1>3, <2>1, <2>2 DEF ^^
    <2> QED
      BY <1>1, <1>3, <2>2, <2>3
  <1> QED
    BY <1>1, <1>2, <1>3

Below(m) == \A a, b \in Nat : a < m /\ b < m => a ^^ b \in Nat /\ a ^^ b < m

\* Below a power of two the result is below it.
LEMMA XorBelow ==
    ASSUME NEW m \in Nat, 2 * m <= 65536,
           Below(m)
    PROVE  Below(2 * m)
  <1> SUFFICES ASSUME NEW a \in Nat, NEW b \in Nat, a < 2 * m, b < 2 * m
               PROVE  a ^^ b \in Nat /\ a ^^ b < 2 * m
    BY DEF Below
  <1>1. a \in Word /\ b \in Word
    BY DEF Word
  <1>2. a \div 2 \in Nat /\ a \div 2 < m /\ b \div 2 \in Nat /\ b \div 2 < m
    OBVIOUS
  <1> DEFINE c == (a \div 2) ^^ (b \div 2)
  <1>3. c \in Nat /\ c < m
    BY <1>2 DEF Below
  <1>4. (a + b) % 2 \in Int /\ 0 <= (a + b) % 2 /\ (a + b) % 2 <= 1
    OBVIOUS
  <1>5. a ^^ b = 2 * c + ((a + b) % 2)
    BY <1>1, XorStep
  <1> HIDE DEF c
  <1> QED
    BY <1>3, <1>4, <1>5

\* So bytes stay bytes, words stay words, and 15 digits stay 15.
LEMMA BelowPowers == Below(256) /\ Below(32768) /\ Below(65536)
  <1>1. Below(1)
    <2>1. 0 \in Word /\ 0 ^^ 0 = 0
      BY XorEquation DEF ^^, Word
    <2> QED
      BY <2>1 DEF Below
  <1>2. Below(2) /\ Below(4) /\ Below(8) /\ Below(16)
    BY <1>1, XorBelow
  <1>3. Below(32) /\ Below(64) /\ Below(128) /\ Below(256)
    BY <1>2, XorBelow
  <1>4. Below(512) /\ Below(1024) /\ Below(2048) /\ Below(4096)
    BY <1>3, XorBelow
  <1>5. Below(8192) /\ Below(16384) /\ Below(32768) /\ Below(65536)
    BY <1>4, XorBelow
  <1> QED
    BY <1>3, <1>5

\* Exclusive or of bytes is a byte, of words a word.
LEMMA XorRange ==
    /\ \A a, b \in Byte : a ^^ b \in Byte
    /\ \A a, b \in Word : a ^^ b \in Word
  <1>1. Below(256) /\ Below(65536)
    BY BelowPowers
  <1>2. \A a, b \in Byte : a ^^ b \in Byte
    BY <1>1 DEF Below, Byte
  <1>3. \A a, b \in Word : a ^^ b \in Word
    BY <1>1 DEF Below, Word
  <1> QED
    BY <1>2, <1>3

-----------------------------------------------------------------------------
(* Exclusive or and shifts.                                                *)

\* A word is made of its half and its last digit.
LEMMA Halves == \A x \in Word : x = 2 * (x \div 2) + (x % 2) /\ x \div 2 \in Word
  BY DEF Word

\* Exclusive or goes digit by digit: the half of the result is that of the
\* halves, the last digit that of the last digits.
LEMMA XorHalves ==
    ASSUME NEW a \in Word, NEW b \in Word
    PROVE  /\ a ^^ b \in Word
           /\ (a ^^ b) \div 2 = (a \div 2) ^^ (b \div 2)
           /\ (a ^^ b) % 2 = (a + b) % 2
  <1> DEFINE c == (a \div 2) ^^ (b \div 2)
  <1>1. c \in Word /\ a ^^ b \in Word
    BY XorStep, XorRange
  <1>2. (a + b) % 2 \in {0, 1}
    BY DEF Word
  <1>3. a ^^ b = 2 * c + ((a + b) % 2)
    BY XorStep
  <1> HIDE DEF c
  <1>4. \A d \in {0, 1} : (2 * c + d) \div 2 = c /\ (2 * c + d) % 2 = d
    BY <1>1 DEF Word
  <1>5. (a ^^ b) \div 2 = c /\ (a ^^ b) % 2 = (a + b) % 2
    BY <1>2, <1>3, <1>4
  <1> QED
    BY <1>1, <1>5 DEF c

\* Zero changes nothing, and a word excludes itself.
LEMMA XorZero == \A b \in Word : 0 ^^ b = b /\ b ^^ 0 = b /\ b ^^ b = 0
  <1>0. 0 \in Word
    BY DEF Word
  <1>1. \A b \in Word : 0 ^^ b = b
    BY <1>0, XorEquation DEF ^^
  <1> DEFINE S == {b \in Nat : b \in Word => b ^^ 0 = b /\ b ^^ b = 0}
  <1>2. ASSUME NEW b \in Nat, \A m \in Nat : m < b => m \in S PROVE b \in S
    <2> SUFFICES ASSUME b \in Word PROVE b ^^ 0 = b /\ b ^^ b = 0
      OBVIOUS
    <2>1. CASE b = 0
      BY <2>1, <1>0, <1>1
    <2>2. CASE b # 0
      <3>1. b \div 2 \in Nat /\ b \div 2 < b /\ b \div 2 \in Word
        BY <2>2 DEF Word
      <3>2. (b \div 2) ^^ 0 = b \div 2 /\ (b \div 2) ^^ (b \div 2) = 0
        BY <3>1, <1>2
      <3>3. 0 \div 2 = 0 /\ (b + 0) % 2 = b % 2 /\ (b + b) % 2 = 0
        OBVIOUS
      <3>4. b ^^ 0 = 2 * ((b \div 2) ^^ (0 \div 2)) + ((b + 0) % 2)
        BY <1>0, XorStep
      <3>5. b ^^ 0 = 2 * (b \div 2) + (b % 2)
        BY <3>2, <3>3, <3>4
      <3>6. b ^^ b = 2 * 0 + 0
        BY <3>1, <3>2, <3>3, XorStep
      <3> QED
        BY <3>5, <3>6, Halves
    <2> QED
      BY <2>1, <2>2
  <1>3. Nat \subseteq S
    BY <1>2, StrongInduction
  <1> QED
    BY <1>1, <1>3 DEF Word

\* Exclusive or is the same both ways,
LEMMA XorCommutes == \A a, b \in Word : a ^^ b = b ^^ a
  <1> DEFINE S == {a \in Nat : a \in Word => \A b \in Word : a ^^ b = b ^^ a}
  <1>1. ASSUME NEW a \in Nat, \A m \in Nat : m < a => m \in S PROVE a \in S
    <2> SUFFICES ASSUME a \in Word, NEW b \in Word PROVE a ^^ b = b ^^ a
      OBVIOUS
    <2>1. CASE a = 0
      BY <2>1, XorZero
    <2>2. CASE a # 0
      <3>1. a \div 2 \in Nat /\ a \div 2 < a /\ a \div 2 \in Word /\ b \div 2 \in Word
        BY <2>2 DEF Word
      <3>2. (a \div 2) ^^ (b \div 2) = (b \div 2) ^^ (a \div 2)
        BY <3>1, <1>1
      <3>3. a + b = b + a
        BY DEF Word
      <3> QED
        BY <3>1, <3>2, <3>3, XorStep
    <2> QED
      BY <2>1, <2>2
  <1>2. Nat \subseteq S
    BY <1>1, StrongInduction
  <1> QED
    BY <1>2 DEF Word

\* and in any order.
LEMMA XorAssociative == \A a, b, c \in Word : (a ^^ b) ^^ c = a ^^ (b ^^ c)
  <1> DEFINE S == {a \in Nat : a \in Word => \A b, c \in Word : (a ^^ b) ^^ c = a ^^ (b ^^ c)}
  <1>1. ASSUME NEW a \in Nat, \A m \in Nat : m < a => m \in S PROVE a \in S
    <2> SUFFICES ASSUME a \in Word, NEW b \in Word, NEW c \in Word
                 PROVE  (a ^^ b) ^^ c = a ^^ (b ^^ c)
      OBVIOUS
    <2>0. a ^^ b \in Word /\ b ^^ c \in Word
      BY XorRange
    <2>1. CASE a = 0
      BY <2>0, <2>1, XorZero
    <2>2. CASE a # 0
      <3>1. /\ a \div 2 \in Nat /\ a \div 2 < a /\ a \div 2 \in Word
            /\ b \div 2 \in Word /\ c \div 2 \in Word
        BY <2>2 DEF Word
      <3>2. ((a \div 2) ^^ (b \div 2)) ^^ (c \div 2) = (a \div 2) ^^ ((b \div 2) ^^ (c \div 2))
        BY <3>1, <1>1
      <3>3. ((a ^^ b) \div 2) ^^ (c \div 2) = (a \div 2) ^^ ((b ^^ c) \div 2)
        BY <3>2, XorHalves
      <3>4. ((a ^^ b) + c) % 2 = (a + (b ^^ c)) % 2
        <4>1. \A x, y, z \in Int : x % 2 = y % 2 => (x + z) % 2 = (y + z) % 2
          OBVIOUS
        <4>2. ((a ^^ b) + c) % 2 = ((a + b) + c) % 2
          BY <2>0, <4>1, XorHalves DEF Word
        <4>3. ((b ^^ c) + a) % 2 = ((b + c) + a) % 2
          BY <2>0, <4>1, XorHalves DEF Word
        <4>4. (a + b) + c = (b + c) + a /\ a + (b ^^ c) = (b ^^ c) + a
          BY <2>0 DEF Word
        <4> QED
          BY <4>2, <4>3, <4>4
      <3>5. (a ^^ b) ^^ c = 2 * (((a ^^ b) \div 2) ^^ (c \div 2)) + (((a ^^ b) + c) % 2)
        BY <2>0, XorStep
      <3>6. a ^^ (b ^^ c) = 2 * ((a \div 2) ^^ ((b ^^ c) \div 2)) + ((a + (b ^^ c)) % 2)
        BY <2>0, XorStep
      <3> QED
        BY <3>3, <3>4, <3>5, <3>6
    <2> QED
      BY <2>1, <2>2
  <1>2. Nat \subseteq S
    BY <1>1, StrongInduction
  <1> QED
    BY <1>2 DEF Word

\* The same word twice is none.
LEMMA XorCancels == \A a, b \in Word : (a ^^ b) ^^ b = a
  BY XorAssociative, XorZero

\* Where one word has only zeros and the other one's digits end, there is
\* nothing to exclude.
Disjoint(m) == \A a, b \in Word : a % m = 0 /\ b < m => a ^^ b = a + b

\* The same, one digit higher.
LEMMA DisjointStep ==
    ASSUME NEW m \in Nat, Disjoint(m),
           \A a \in Word : a % (2 * m) = 0 => a % 2 = 0 /\ (a \div 2) % m = 0
    PROVE  Disjoint(2 * m)
  <1> SUFFICES ASSUME NEW a \in Word, NEW b \in Word, a % (2 * m) = 0, b < 2 * m
               PROVE  a ^^ b = a + b
    BY DEF Disjoint
  <1>0. a % 2 = 0 /\ (a \div 2) % m = 0
    OBVIOUS
  <1>1. a \div 2 \in Word /\ b \div 2 \in Word /\ b \div 2 < m
    BY DEF Word
  <1>2. (a \div 2) ^^ (b \div 2) = (a \div 2) + (b \div 2)
    BY <1>0, <1>1 DEF Disjoint
  <1>3. (a + b) % 2 = b % 2
    <2>1. \A x, y \in Word : x % 2 = 0 => (x + y) % 2 = y % 2
      BY DEF Word
    <2> QED
      BY <1>0, <2>1
  <1>4. a ^^ b = 2 * ((a \div 2) + (b \div 2)) + (b % 2)
    BY <1>2, <1>3, XorStep
  <1> QED
    <2>1. a = 2 * (a \div 2) /\ b = 2 * (b \div 2) + (b % 2)
      BY <1>0, Halves DEF Word
    <2>2. \A x, y, z \in Int : 2 * (x + y) + z = 2 * x + (2 * y + z)
      OBVIOUS
    <2>3. a \div 2 \in Int /\ b \div 2 \in Int /\ b % 2 \in Int
      BY DEF Word
    <2> QED
      BY <1>4, <2>1, <2>2, <2>3

\* A higher and a lower byte make a word.
LEMMA BytesDisjoint == \A high, low \in Byte : (256 * high) ^^ low = 256 * high + low
  <1> DEFINE Even(m) == \A a \in Word : a % (2 * m) = 0 => a % 2 = 0 /\ (a \div 2) % m = 0
  <1>1. Even(1) /\ Even(2) /\ Even(4) /\ Even(8) /\ Even(16) /\ Even(32) /\ Even(64) /\ Even(128)
    BY DEF Word
  <1>2. Disjoint(1)
    BY XorZero DEF Disjoint, Word
  <1>3. \A m \in Nat : Disjoint(m) /\ Even(m) => Disjoint(2 * m)
    BY DisjointStep
  <1> HIDE DEF Even
  <1>4. Disjoint(2) /\ Disjoint(4) /\ Disjoint(8) /\ Disjoint(16)
    BY <1>1, <1>2, <1>3
  <1>5. Disjoint(32) /\ Disjoint(64) /\ Disjoint(128) /\ Disjoint(256)
    BY <1>1, <1>3, <1>4
  <1>6. \A high, low \in Byte : /\ 256 * high \in Word /\ low \in Word /\ low < 256
                                /\ (256 * high) % 256 = 0
    BY DEF Byte, Word
  <1> QED
    BY <1>5, <1>6 DEF Disjoint

\* A byte meets the lower byte of a word only.
LEMMA XorLow ==
    ASSUME NEW high \in Byte, NEW low \in Byte, NEW byte \in Byte
    PROVE  (256 * high + low) ^^ byte = 256 * high + (low ^^ byte)
  <1>1. 256 * high \in Word /\ low \in Word /\ byte \in Word
    BY DEF Byte, Word
  <1>2. low ^^ byte \in Byte
    BY XorRange
  <1>3. (256 * high + low) ^^ byte = ((256 * high) ^^ low) ^^ byte
    BY BytesDisjoint
  <1>4. @ = (256 * high) ^^ (low ^^ byte)
    BY <1>1, XorAssociative
  <1>5. @ = 256 * high + (low ^^ byte)
    BY <1>2, BytesDisjoint
  <1> QED
    BY <1>3, <1>4, <1>5

-----------------------------------------------------------------------------
\* Shifting, exclusive or and one another.
LEMMA ShiftRange == \A a \in Word : Shift(a) \in Word
  <1>1. 40961 \in Word /\ \A a \in Word : a \div 2 \in Word
    BY DEF Word
  <1>2. ASSUME NEW a \in Word PROVE (a \div 2) ^^ 40961 \in Word
    <2>1. a \div 2 \in Word
      BY <1>1
    <2> QED
      BY <1>1, <2>1, XorRange
  <1> QED
    BY <1>1, <1>2 DEF Shift

\* A shift of an exclusive or is the exclusive or of the shifts.
LEMMA ShiftLinear == \A a, b \in Word : Shift(a ^^ b) = Shift(a) ^^ Shift(b)
  <1> SUFFICES ASSUME NEW a \in Word, NEW b \in Word PROVE Shift(a ^^ b) = Shift(a) ^^ Shift(b)
    OBVIOUS
  <1> DEFINE x == a \div 2  y == b \div 2  p == 40961
  <1>0. x \in Word /\ y \in Word /\ p \in Word
    BY DEF Word
  <1>1. x \in Word /\ y \in Word /\ p \in Word /\ x ^^ y \in Word /\ y ^^ p \in Word
    BY <1>0, XorRange
  <1>2. (a ^^ b) \div 2 = x ^^ y /\ (a ^^ b) % 2 = (a + b) % 2
    BY XorHalves
  <1>3. (x ^^ y) ^^ p = x ^^ (y ^^ p)
    BY <1>1, XorAssociative
  <1>4. (x ^^ p) ^^ y = (x ^^ y) ^^ p
    BY <1>1, XorAssociative, XorCommutes
  <1>5. (x ^^ p) ^^ (y ^^ p) = x ^^ y
    <2>1. (x ^^ p) ^^ (y ^^ p) = ((x ^^ p) ^^ p) ^^ y
      BY <1>1, XorAssociative, XorCommutes, XorRange
    <2> QED
      BY <1>1, <2>1, XorCancels
  <1>6. /\ Shift(a) = IF a % 2 = 1 THEN x ^^ p ELSE x
        /\ Shift(b) = IF b % 2 = 1 THEN y ^^ p ELSE y
        /\ Shift(a ^^ b) = IF (a + b) % 2 = 1 THEN (x ^^ y) ^^ p ELSE x ^^ y
    BY <1>2 DEF Shift
  <1>7. (a + b) % 2 = 1 <=> (a % 2 = 1) # (b % 2 = 1)
    BY DEF Word
  <1> HIDE DEF x, y, p
  <1> QED
    BY <1>3, <1>4, <1>5, <1>6, <1>7

\* Eight shifts leave a word.
LEMMA ShiftedOutRange == \A a \in Word : ShiftedOut(a) \in Word
  BY ShiftRange DEF ShiftedOut, ShiftedTwice

\* Eight shifts are linear as well.
LEMMA ShiftedOutLinear ==
    \A a, b \in Word : ShiftedOut(a ^^ b) = ShiftedOut(a) ^^ ShiftedOut(b)
  <1>1. \A a, b \in Word : /\ ShiftedTwice(a) \in Word
                           /\ ShiftedTwice(a ^^ b) = ShiftedTwice(a) ^^ ShiftedTwice(b)
    BY ShiftRange, ShiftLinear DEF ShiftedTwice
  <1> QED
    BY <1>1 DEF ShiftedOut

\* The polynomial has a highest digit, so that a shift can be taken back.
LEMMA ShiftInjective == \A a, b \in Word : Shift(a) = Shift(b) => a = b
  <1> SUFFICES ASSUME NEW a \in Word, NEW b \in Word, Shift(a) = Shift(b) PROVE a = b
    OBVIOUS
  <1> DEFINE p == 40961
  <1>1. /\ a \div 2 \in Word /\ a \div 2 < 32768 /\ b \div 2 \in Word /\ b \div 2 < 32768
        /\ p \in Word
    BY DEF Word
  <1>2. \A x \in Word : x < 32768 => x ^^ p >= 32768
    <2>1. Below(32768)
      BY BelowPowers
    <2>2. SUFFICES ASSUME NEW x \in Word, x < 32768, x ^^ p < 32768 PROVE FALSE
      BY <1>1, XorRange DEF Word
    <2>3. x ^^ (x ^^ p) = p
      BY <1>1, XorRange, XorCancels, XorCommutes
    <2>4. x ^^ (x ^^ p) < 32768
      BY <2>1, <2>2, <1>1, XorRange DEF Below, Word
    <2> QED
      BY <2>3, <2>4
  <1>3. a % 2 = b % 2 /\ a \div 2 = b \div 2
    <2>1. CASE a % 2 = 1 /\ b % 2 = 1
      BY <1>1, <2>1, XorCancels DEF Shift
    <2>2. CASE a % 2 = 1 /\ b % 2 # 1
      BY <1>1, <1>2, <2>2 DEF Shift, Word
    <2>3. CASE a % 2 # 1 /\ b % 2 = 1
      BY <1>1, <1>2, <2>3 DEF Shift, Word
    <2>4. CASE a % 2 # 1 /\ b % 2 # 1
      BY <1>1, <2>4 DEF Shift, Word
    <2> QED
      BY <2>1, <2>2, <2>3, <2>4
  <1> QED
    BY <1>3, Halves

\* Nor do eight shifts lose anything.
LEMMA ShiftedOutInjective == \A a, b \in Word : ShiftedOut(a) = ShiftedOut(b) => a = b
  BY ShiftRange, ShiftInjective DEF ShiftedOut, ShiftedTwice

\* The higher byte of a word comes out of eight shifts as the lower one.
LEMMA HighShiftedOut == \A high \in Byte : ShiftedOut(256 * high) = high
  <1>1. \A a \in Int : a % 2 = 0 => Shift(a) = a \div 2
    BY DEF Shift
  <1>2. \A a \in Int : a % 4 = 0 => ShiftedTwice(a) = a \div 4
    BY <1>1 DEF ShiftedTwice
  <1> QED
    BY <1>2 DEF ShiftedOut, Byte

-----------------------------------------------------------------------------
(* The tables.                                                             *)

\* Where m is a power of two and k is c times m, k only meets what is from m on.
Meets(c, m, k) == \A a \in Word : a ^^ k = m * ((a \div m) ^^ c) + (a % m)

\* What division by two does to division by m.
Splits(m) == \A a \in Word : /\ (a \div 2) \div m = a \div (2 * m)
                             /\ 2 * ((a \div 2) % m) + (a % 2) = a % (2 * m)
                             /\ (a \div 2) % m \in Nat /\ (a \div 2) \div m \in Word

\* Both one digit higher.
LEMMA MeetsStep ==
    ASSUME NEW c \in Word, NEW m \in Nat, NEW k \in Nat, 2 * k < 65536,
           Meets(c, m, k), Splits(m)
    PROVE  Meets(c, 2 * m, 2 * k)
  <1>0. \A y \in Nat : m * y \in Nat /\ (2 * m) * y = 2 * (m * y)
    OBVIOUS
  <1> SUFFICES ASSUME NEW a \in Word
               PROVE  a ^^ (2 * k) = (2 * m) * ((a \div (2 * m)) ^^ c) + (a % (2 * m))
    BY DEF Meets
  <1> DEFINE h == a \div 2  x == (h \div m) ^^ c  p == m * x
  <1>1. 2 * k \in Word /\ h \in Word /\ (2 * k) \div 2 = k /\ (a + 2 * k) % 2 = a % 2 /\ a % 2 \in Nat
    BY DEF Word
  <1>2. a ^^ (2 * k) = 2 * (h ^^ k) + (a % 2)
    BY <1>1, XorStep
  <1>3. h ^^ k = p + (h % m)
    BY <1>1 DEF Meets
  <1>4. /\ h \div m = a \div (2 * m) /\ 2 * (h % m) + (a % 2) = a % (2 * m)
        /\ h % m \in Nat /\ h \div m \in Word
    BY DEF Splits
  <1>5. x \in Word
    BY <1>4, XorRange
  <1>6. m * x \in Nat /\ (2 * m) * x = 2 * (m * x)
    BY <1>0, <1>5 DEF Word
  <1>7. a ^^ (2 * k) = (2 * m) * x + (a % (2 * m))
    <2>0. p \in Nat /\ (2 * m) * x = 2 * p
      BY <1>6
    <2> HIDE DEF x, p, h
    <2>1. \A i, j, l \in Nat : 2 * (i + j) + l = 2 * i + (2 * j + l)
      OBVIOUS
    <2> QED
      BY <1>1, <1>2, <1>3, <1>4, <2>0, <2>1
  <1> QED
    BY <1>4, <1>7

\* Division by the powers of two that are needed.
LEMMA SplitsPowers ==
    /\ Splits(1) /\ Splits(2) /\ Splits(4) /\ Splits(8) /\ Splits(16) /\ Splits(32) /\ Splits(64)
    /\ Splits(128) /\ Splits(256) /\ Splits(512) /\ Splits(1024) /\ Splits(2048) /\ Splits(4096)
    /\ Splits(8192)
  <1>1. Splits(1) /\ Splits(2) /\ Splits(4) /\ Splits(8) /\ Splits(16) /\ Splits(32) /\ Splits(64)
    BY DEF Splits, Word
  <1>2. Splits(128) /\ Splits(256) /\ Splits(512) /\ Splits(1024) /\ Splits(2048) /\ Splits(4096)
    BY DEF Splits, Word
  <1>3. Splits(8192)
    BY DEF Splits, Word
  <1> QED
    BY <1>1, <1>2, <1>3

\* The first power.
LEMMA MeetsOne == \A c \in Word : Meets(c, 1, c)
  <1>1. \A a \in Word : a \div 1 = a /\ a % 1 = 0
    BY DEF Word
  <1>2. \A a, c \in Word : a ^^ c \in Word
    BY XorRange
  <1>3. \A x \in Word : 1 * x + 0 = x
    BY DEF Word
  <1> QED
    BY <1>1, <1>2, <1>3 DEF Meets

\* The digits of the polynomial, and of the entry of index 1 of the tables.
LEMMA MeetsPowers == Meets(5, 4096, 20480) /\ Meets(3, 64, 192) /\ Meets(3, 16384, 49152)
  <1>1. 5 \in Word /\ 3 \in Word
    BY DEF Word
  <1>2. \A c \in Word, m, k \in Nat :
            2 * k < 65536 /\ Meets(c, m, k) /\ Splits(m) => Meets(c, 2 * m, 2 * k)
    BY MeetsStep
  <1>3. Meets(5, 2, 10) /\ Meets(5, 4, 20) /\ Meets(5, 8, 40) /\ Meets(5, 16, 80)
    BY <1>1, <1>2, MeetsOne, SplitsPowers
  <1>4. Meets(5, 32, 160) /\ Meets(5, 64, 320) /\ Meets(5, 128, 640) /\ Meets(5, 256, 1280)
    BY <1>1, <1>2, <1>3, SplitsPowers
  <1>5. Meets(5, 512, 2560) /\ Meets(5, 1024, 5120) /\ Meets(5, 2048, 10240) /\ Meets(5, 4096, 20480)
    BY <1>1, <1>2, <1>4, SplitsPowers
  <1>6. Meets(3, 2, 6) /\ Meets(3, 4, 12) /\ Meets(3, 8, 24) /\ Meets(3, 16, 48)
    BY <1>1, <1>2, MeetsOne, SplitsPowers
  <1>7. Meets(3, 32, 96) /\ Meets(3, 64, 192) /\ Meets(3, 128, 384) /\ Meets(3, 256, 768)
    BY <1>1, <1>2, <1>6, SplitsPowers
  <1>8. Meets(3, 512, 1536) /\ Meets(3, 1024, 3072) /\ Meets(3, 2048, 6144) /\ Meets(3, 4096, 12288)
    BY <1>1, <1>2, <1>7, SplitsPowers
  <1>9. Meets(3, 8192, 24576) /\ Meets(3, 16384, 49152)
    BY <1>1, <1>2, <1>8, SplitsPowers
  <1> QED
    BY <1>5, <1>7, <1>9

\* Exclusive or with 1 and with 3 as arithmetic.
LEMMA XorSmall ==
    /\ \A x \in Word : x ^^ 1 = x + 1 - 2 * (x % 2)
    /\ \A x \in Word : x ^^ 3 = x + 3 - 2 * (x % 4)
  <1>1. ASSUME NEW x \in Word PROVE x ^^ 1 = x + 1 - 2 * (x % 2)
    <2>1. 1 \in Word /\ 1 \div 2 = 0 /\ (x + 1) % 2 = 1 - (x % 2)
      BY DEF Word
    <2>2. x ^^ 1 = 2 * ((x \div 2) ^^ 0) + (1 - (x % 2))
      BY <2>1, XorStep
    <2>3. (x \div 2) ^^ 0 = x \div 2
      BY Halves, XorZero
    <2> QED
      BY <2>2, <2>3 DEF Word
  <1>2. ASSUME NEW x \in Word PROVE x ^^ 3 = x + 3 - 2 * (x % 4)
    <2>1. 3 \in Word /\ 3 \div 2 = 1 /\ (x + 3) % 2 = 1 - (x % 2) /\ x \div 2 \in Word
      BY DEF Word
    <2>2. x ^^ 3 = 2 * ((x \div 2) ^^ 1) + (1 - (x % 2))
      BY <2>1, XorStep
    <2>3. (x \div 2) ^^ 1 = (x \div 2) + 1 - 2 * ((x \div 2) % 2)
      BY <1>1, <2>1
    <2> QED
      BY <2>2, <2>3 DEF Word
  <1> QED
    BY <1>1, <1>2

\* The exclusive ors of the polynomial and of its first remainder, by arithmetic.
LEMMA XorPolynomial ==
    \A h \in Word : h < 32768 =>
        h ^^ 40961 = h + 40961 - 16384 * ((h \div 8192) % 2) - 2 * (h % 2)
  <1>1. 0 ^^ 5 = 5 /\ 1 ^^ 5 = 4 /\ 2 ^^ 5 = 7 /\ 3 ^^ 5 = 6
    BY XorEquation DEF ^^, Word
  <1> SUFFICES ASSUME NEW h \in Word, h < 32768
               PROVE  h ^^ 40961 = h + 40961 - 16384 * ((h \div 8192) % 2) - 2 * (h % 2)
    OBVIOUS
  <1>2. /\ 40961 \in Word /\ 40961 \div 2 = 20480 /\ h \div 2 \in Word
        /\ (h + 40961) % 2 = 1 - (h % 2)
    BY DEF Word
  <1>3. h ^^ 40961 = 2 * ((h \div 2) ^^ 20480) + ((h + 40961) % 2)
    BY <1>2, XorStep
  <1> DEFINE q == (h \div 2) \div 4096
  <1>4. (h \div 2) ^^ 20480 = 4096 * (q ^^ 5) + ((h \div 2) % 4096)
    BY <1>2, MeetsPowers DEF Meets
  <1>5. q ^^ 5 = q + 5 - 2 * (q % 2)
    <2>1. q \in {0, 1, 2, 3}
      BY DEF Word
    <2> QED
      BY <1>1, <2>1
  <1>6. /\ q = h \div 8192 /\ q \in Nat /\ h % 2 \in Nat /\ h \in Nat
        /\ (h \div 2) % 4096 \in Nat /\ q % 2 \in Nat
        /\ 8192 * q + 2 * ((h \div 2) % 4096) + (h % 2) = h
    BY DEF Word
  <1> HIDE DEF q
  <1> QED
    BY <1>2, <1>3, <1>4, <1>5, <1>6

\* A shift as arithmetic.
LEMMA ShiftArithmetic ==
    \A x \in Word :
        Shift(x) = LET h == x \div 2 IN
                   IF x % 2 = 1 THEN h + 40961 - 16384 * ((h \div 8192) % 2) - 2 * (h % 2) ELSE h
  <1>1. \A x \in Word : x \div 2 \in Word /\ x \div 2 < 32768
    BY DEF Word
  <1> QED
    BY <1>1, XorPolynomial DEF Shift

\* Exclusive or with the entry of index 1, as arithmetic.
LEMMA XorRemainder ==
    \A x \in Word :
        x ^^ 49345 = x + 49345 - 2 * (x % 2) - 128 * ((x \div 64) % 4)
                       - 32768 * ((x \div 16384) % 4)
  <1> SUFFICES ASSUME NEW x \in Word
               PROVE  x ^^ 49345 = x + 49345 - 2 * (x % 2) - 128 * ((x \div 64) % 4)
                                     - 32768 * ((x \div 16384) % 4)
    OBVIOUS
  <1>1. 1 \in Word /\ 192 \in Word /\ 49152 \in Word
    BY DEF Word
  <1>2. \A a \in Word : a ^^ 49152 = a + 49152 - 32768 * ((a \div 16384) % 4)
    <2> TAKE a \in Word
    <2>1. a ^^ 49152 = 16384 * ((a \div 16384) ^^ 3) + (a % 16384)
      BY MeetsPowers DEF Meets
    <2>2. a \div 16384 \in Word /\ a = 16384 * (a \div 16384) + (a % 16384)
      BY DEF Word
    <2>3. (a \div 16384) ^^ 3 = (a \div 16384) + 3 - 2 * ((a \div 16384) % 4)
      BY <2>2, XorSmall
    <2> QED
      BY <2>1, <2>2, <2>3 DEF Word
  <1>3. \A a \in Word : a ^^ 192 = a + 192 - 128 * ((a \div 64) % 4)
    <2> TAKE a \in Word
    <2>1. a ^^ 192 = 64 * ((a \div 64) ^^ 3) + (a % 64)
      BY MeetsPowers DEF Meets
    <2>2. a \div 64 \in Word /\ a = 64 * (a \div 64) + (a % 64)
      BY DEF Word
    <2>3. (a \div 64) ^^ 3 = (a \div 64) + 3 - 2 * ((a \div 64) % 4)
      BY <2>2, XorSmall
    <2> QED
      BY <2>1, <2>2, <2>3 DEF Word
  <1>4. 49152 ^^ 192 = 49344 /\ 49344 ^^ 1 = 49345
    BY <1>1, <1>3, XorSmall DEF Word
  <1> DEFINE y == x ^^ 49152  z == y ^^ 192
  <1>5. y \in Word /\ z \in Word /\ 49344 \in Word
    <2>1. y \in Word
      BY <1>1, XorRange
    <2>2. z \in Word
      BY <1>1, <2>1, XorRange
    <2> QED
      BY <2>1, <2>2 DEF Word
  <1>6. x ^^ 49345 = z ^^ 1
    <2>1. z = x ^^ 49344
      BY <1>1, <1>4, XorAssociative
    <2>2. (x ^^ 49344) ^^ 1 = x ^^ (49344 ^^ 1)
      BY <1>1, <1>5, XorAssociative
    <2> QED
      BY <1>4, <2>1, <2>2
  <1>7. /\ y = x + 49152 - 32768 * ((x \div 16384) % 4)
        /\ (y \div 64) % 4 = (x \div 64) % 4 /\ y % 2 = x % 2
    <2>1. \A e \in Int : /\ ((x + 16384 * e) \div 64) % 4 = (x \div 64) % 4
                         /\ (x + 16384 * e) % 2 = x % 2
      BY DEF Word
    <2> DEFINE e == 3 - 2 * ((x \div 16384) % 4)
    <2>2. y = x + 49152 - 32768 * ((x \div 16384) % 4)
      BY <1>2
    <2>3. e \in Int /\ y = x + 16384 * e
      BY <2>2 DEF Word
    <2> HIDE DEF e
    <2> QED
      BY <2>1, <2>2, <2>3
  <1>8. z = y + 192 - 128 * ((y \div 64) % 4) /\ z % 2 = y % 2
    <2>1. z = y + 192 - 128 * ((y \div 64) % 4)
      BY <1>3, <1>5
    <2> HIDE DEF y, z
    <2> QED
      BY <2>1, <1>5 DEF Word
  <1>9. z ^^ 1 = z + 1 - 2 * (z % 2)
    BY <1>5, XorSmall
  <1> HIDE DEF y, z
  <1>10. x \in Int /\ x % 2 \in Int /\ (x \div 64) % 4 \in Int /\ (x \div 16384) % 4 \in Int
    BY DEF Word
  <1> QED
    BY <1>6, <1>7, <1>8, <1>9, <1>10

-----------------------------------------------------------------------------
\* What the two tables hold of a word.
Entry(i) == crc_hi_table[i + 1] + 256 * crc_lo_table[i + 1]

\* Both tables hold 256 bytes,
LEMMA TablesAreBytes ==
    \A i \in Byte : crc_hi_table[i + 1] \in Byte /\ crc_lo_table[i + 1] \in Byte
  <1>1. \A i \in Byte : crc_hi_table[i + 1] \in Byte
    BY DEF Byte, crc_hi_table
  <1>2. \A i \in Byte : crc_lo_table[i + 1] \in Byte
    BY DEF Byte, crc_lo_table
  <1> QED
    BY <1>1, <1>2

\* that is, words.
LEMMA EntryIsWord == \A i \in Byte : Entry(i) \in Word
  BY TablesAreBytes DEF Entry, Byte, Word

\* An entry is the shift of the one at the double index.
LEMMA EntriesShift == \A i \in Nat : i > 0 /\ i < 128 => Shift(Entry(2 * i)) = Entry(i)
  <1>1. \A i \in Nat : i > 0 /\ i < 128 =>
            Entry(i) = LET h == Entry(2 * i) \div 2 IN
                       IF Entry(2 * i) % 2 = 1
                         THEN h + 40961 - 16384 * ((h \div 8192) % 2) - 2 * (h % 2) ELSE h
    BY DEF Entry, crc_hi_table, crc_lo_table
  <1>2. \A i \in Nat : i > 0 /\ i < 128 => Entry(2 * i) \in Word
    BY EntryIsWord DEF Byte
  <1> QED
    BY <1>1, <1>2, ShiftArithmetic

\* An odd entry is its even neighbour and the one of index 1.
LEMMA EntriesOdd == \A i \in Nat : i < 128 => Entry(2 * i + 1) = Entry(2 * i) ^^ 49345
  <1>1. \A i \in Nat : i < 128 =>
            Entry(2 * i + 1) = LET x == Entry(2 * i) IN
                x + 49345 - 2 * (x % 2) - 128 * ((x \div 64) % 4) - 32768 * ((x \div 16384) % 4)
    BY DEF Entry, crc_hi_table, crc_lo_table
  <1>2. \A i \in Nat : i < 128 => Entry(2 * i) \in Word
    BY EntryIsWord DEF Byte
  <1> QED
    BY <1>1, <1>2, XorRemainder

\* Every entry of the tables is eight shifts of its index: of 128 by hand, of
\* the smaller powers by halving, of the others from their halves up.
LEMMA TablesHoldShifts == \A i \in Byte : ShiftedOut(i) = Entry(i)
  <1>1. \A i \in Word : Shift(ShiftedOut(i)) = ShiftedOut(Shift(i))
    BY DEF ShiftedOut, ShiftedTwice
  <1>2. \A i \in Nat : i < 128 => Shift(2 * i) = i
    <2>1. \A i \in Nat : (2 * i) % 2 = 0 /\ (2 * i) \div 2 = i
      OBVIOUS
    <2> QED
      BY <2>1 DEF Shift
  <1>3. \A i \in Nat : i < 128 => Shift(ShiftedOut(2 * i)) = ShiftedOut(i)
    BY <1>1, <1>2 DEF Word
  <1>4. ShiftedOut(128) = Entry(128)
    <2>1. Shift(128) = 64 /\ Shift(64) = 32 /\ Shift(32) = 16 /\ Shift(16) = 8
      BY <1>2
    <2>2. Shift(8) = 4 /\ Shift(4) = 2 /\ Shift(2) = 1
      BY <1>2
    <2>3. Shift(1) = 40961
      BY ShiftArithmetic DEF Word
    <2>4. Entry(128) = 40961
      BY DEF Entry, crc_hi_table, crc_lo_table
    <2> QED
      BY <2>1, <2>2, <2>3, <2>4 DEF ShiftedOut, ShiftedTwice
  <1>5. ShiftedOut(1) = Entry(1)
    <2>1. \A i \in Nat : i > 0 /\ i < 128 /\ ShiftedOut(2 * i) = Entry(2 * i) => ShiftedOut(i) = Entry(i)
      BY <1>3, EntriesShift
    <2>2. ShiftedOut(64) = Entry(64) /\ ShiftedOut(32) = Entry(32) /\ ShiftedOut(16) = Entry(16)
      BY <1>4, <2>1
    <2>3. ShiftedOut(8) = Entry(8) /\ ShiftedOut(4) = Entry(4) /\ ShiftedOut(2) = Entry(2)
      BY <2>1, <2>2
    <2> QED
      BY <2>1, <2>3
  <1>6. Entry(0) = 0 /\ Entry(1) = 49345
    BY DEF Entry, crc_hi_table, crc_lo_table
  <1> DEFINE S == {i \in Nat : i < 256 => ShiftedOut(i) = Entry(i)}
  <1>7. ASSUME NEW i \in Nat, \A j \in Nat : j < i => j \in S PROVE i \in S
    <2> SUFFICES ASSUME i < 256 PROVE ShiftedOut(i) = Entry(i)
      OBVIOUS
    <2>1. CASE i = 0
      <3>1. Shift(0) = 0
        BY <1>2
      <3> QED
        BY <1>6, <2>1, <3>1 DEF ShiftedOut, ShiftedTwice
    <2> DEFINE j == i \div 2
    <2>2. j \in Nat /\ j < 128 /\ 2 * j < 256
      OBVIOUS
    <2>3. CASE i # 0 /\ i % 2 = 0
      <3>1. i = 2 * j /\ j > 0 /\ j < i
        BY <2>3
      <3>2. ShiftedOut(j) = Entry(j)
        BY <2>2, <3>1, <1>7
      <3>3. Shift(ShiftedOut(i)) = Shift(Entry(i))
        BY <1>3, <2>2, <3>1, <3>2, EntriesShift
      <3>4. ShiftedOut(i) \in Word /\ Entry(i) \in Word
        BY ShiftedOutRange, EntryIsWord DEF Word, Byte
      <3> QED
        BY <3>3, <3>4, ShiftInjective
    <2>4. CASE i % 2 = 1
      <3>1. i = 2 * j + 1 /\ 2 * j < i /\ 2 * j \in Nat
        BY <2>4
      <3>2. ShiftedOut(2 * j) = Entry(2 * j)
        BY <2>2, <3>1, <1>7
      <3>3. 2 * j \in Word /\ 1 \in Word /\ (2 * j) ^^ 1 = i
        <4>1. 2 * j \in Word /\ 1 \in Word /\ (2 * j) % 2 = 0
          BY <2>2 DEF Word
        <4>2. (2 * j) ^^ 1 = 2 * j + 1 - 2 * ((2 * j) % 2)
          BY <4>1, XorSmall
        <4> QED
          BY <3>1, <4>1, <4>2
      <3>4. ShiftedOut(i) = Entry(2 * j) ^^ 49345
        BY <1>5, <1>6, <3>2, <3>3, ShiftedOutLinear
      <3> QED
        BY <2>2, <3>1, <3>4, EntriesOdd
    <2> QED
      BY <2>1, <2>3, <2>4
  <1>8. Nat \subseteq S
    BY <1>7, StrongInduction
  <1> QED
    BY <1>8 DEF Byte

-----------------------------------------------------------------------------
\* A sum of two bytes and the word that it is.
WordOf(crc) == crc.hi + 256 * crc.lo

\* A step of the checksum by the tables is eight shifts of the remainder.
LEMMA StepIsShifts ==
    ASSUME NEW crc \in Sum, NEW byte \in Byte
    PROVE  /\ generate_step(crc, byte) \in Sum
           /\ WordOf(generate_step(crc, byte)) = ShiftedOut(WordOf(crc) ^^ byte)
  <1> DEFINE index == crc.hi ^^ byte  new == generate_step(crc, byte)
             hi == crc_hi_table[index + 1]  lo == crc_lo_table[index + 1]
  <1>1. crc.hi \in Byte /\ crc.lo \in Byte
    BY DEF Sum
  <1>2. index \in Byte
    BY <1>1, XorRange
  <1>3. hi \in Byte /\ lo \in Byte
    BY <1>2, TablesAreBytes
  <1>4. crc.lo ^^ hi \in Byte
    BY <1>1, <1>3, XorRange
  <1>5. new = [hi |-> crc.lo ^^ hi, lo |-> lo]
    BY DEF generate_step
  <1>6. WordOf(crc) ^^ byte = 256 * crc.lo + index
    BY <1>1, XorLow DEF WordOf, Byte
  <1>7. 256 * crc.lo + index = (256 * crc.lo) ^^ index
    BY <1>1, <1>2, BytesDisjoint
  <1>8. ShiftedOut((256 * crc.lo) ^^ index) = crc.lo ^^ ShiftedOut(index)
    <2>1. 256 * crc.lo \in Word /\ index \in Word
      BY <1>1, <1>2 DEF Byte, Word
    <2> QED
      BY <1>1, <2>1, ShiftedOutLinear, HighShiftedOut
  <1>9. ShiftedOut(index) = 256 * lo + hi
    BY <1>2, <1>3, TablesHoldShifts DEF Entry, Byte
  <1>10. crc.lo ^^ (256 * lo + hi) = 256 * lo + (crc.lo ^^ hi)
    <2>1. crc.lo \in Word /\ hi \in Word /\ 256 * lo + hi \in Word
      BY <1>1, <1>3 DEF Byte, Word
    <2>2. (256 * lo + hi) ^^ crc.lo = 256 * lo + (hi ^^ crc.lo)
      BY <1>1, <1>3, XorLow
    <2> QED
      BY <2>1, <2>2, XorCommutes
  <1> HIDE DEF index, hi, lo
  <1>11. WordOf(new) = 256 * lo + (crc.lo ^^ hi)
    BY <1>3, <1>4, <1>5 DEF WordOf, Byte
  <1> QED
    BY <1>3, <1>4, <1>5, <1>6, <1>7, <1>8, <1>9, <1>10, <1>11 DEF Sum

-----------------------------------------------------------------------------
(* The loop over a message.                                                *)

\* What the equation of the loop says of `count` bytes with `g` in its place.
LoopBody(g, step, message, count) ==
    [done \in 0 .. Len(message) |->
        [sum \in DOMAIN step |->
            IF count = 0 THEN sum
            ELSE IF count = 1 THEN step[sum][message[done + 1]]
            ELSE LET half == count \div 2
                 IN  g[count - half][done + half][g[half][done][sum]]]]

Loop(g, step, message, n) ==
    [count \in UpTo(n) |-> LoopBody(g, step, message, count)]

\* A count of more than one has two smaller parts.
LEMMA Parts ==
    ASSUME NEW count \in Nat, count # 0, count # 1
    PROVE  /\ count \div 2 \in Nat /\ count \div 2 < count
           /\ count - (count \div 2) \in Nat /\ count - (count \div 2) < count
  OBVIOUS

\* The recursion of the loop ends, so its equation has a solution.
LEMMA LoopExists ==
    ASSUME NEW step, NEW message
    PROVE  \A n \in Nat : \E f : f = Loop(f, step, message, n)
  <1> DEFINE Body(g, count) == LoopBody(g, step, message, count)
             S == {n \in Nat : \E f : f = [count \in UpTo(n) |-> Body(f, count)]}
  <1>1. 0 \in S
    <2> DEFINE f == [count \in {} |-> 0]
    <2>1. UpTo(0) = {}
      BY DEF UpTo
    <2>2. f = [count \in UpTo(0) |-> Body(f, count)]
      BY <2>1
    <2> QED
      BY <2>2
  <1>2. ASSUME NEW n \in Nat, n \in S PROVE n + 1 \in S
    <2>1. PICK f : f = [count \in UpTo(n) |-> Body(f, count)]
      BY <1>2
    <2> DEFINE g == [count \in UpTo(n + 1) |-> Body(f, count)]
    <2>2. \A count \in UpTo(n) : count \in UpTo(n + 1) /\ g[count] = f[count]
      <3>1. \A count \in UpTo(n) : count \in UpTo(n + 1)
        BY DEF UpTo
      <3> HIDE DEF Body
      <3>2. \A count \in UpTo(n) : f[count] = Body(f, count)
        BY <2>1
      <3> QED
        BY <3>1, <3>2
    <2>3. \A count \in UpTo(n + 1) : Body(g, count) = Body(f, count)
      <3> SUFFICES ASSUME NEW count \in UpTo(n + 1)
                   PROVE  Body(g, count) = Body(f, count)
        OBVIOUS
      <3>1. CASE count = 0 \/ count = 1
        BY <3>1, Zenon DEF LoopBody
      <3>2. CASE count # 0 /\ count # 1
        <4>1. count \div 2 \in UpTo(n) /\ count - (count \div 2) \in UpTo(n)
          BY <3>2, Parts DEF UpTo
        <4>2. /\ g[count \div 2] = f[count \div 2]
              /\ g[count - (count \div 2)] = f[count - (count \div 2)]
          BY <2>2, <4>1
        <4> HIDE DEF g
        <4> QED
          BY <3>2, <4>2 DEF LoopBody
      <3> QED
        BY <3>1, <3>2
    <2>4. g = [count \in UpTo(n + 1) |-> Body(g, count)]
      <3> HIDE DEF Body
      <3> QED
        BY <2>3, Zenon
    <2>5. \E h : h = [count \in UpTo(n + 1) |-> Body(h, count)]
      BY <2>4, Zenon
    <2> QED
      BY <2>5
  <1>3. Nat \subseteq S
    BY <1>1, <1>2, Induction
  <1> QED
    BY <1>3 DEF Loop

\* What the loop does to a sum, with f in its place.
At(f, step, message, count, done, sum) ==
    IF count = 0 THEN sum
    ELSE IF count = 1 THEN step[sum][message[done + 1]]
    ELSE f[count - (count \div 2)][done + (count \div 2)][f[count \div 2][done][sum]]

Runs(f, step, message) ==
    \A count, done \in 0 .. Len(message) : \A sum \in DOMAIN step :
        f[count][done][sum] = At(f, step, message, count, done, sum)

\* A solution does that for all of them.
LEMMA LoopRuns ==
    ASSUME NEW step, NEW message, NEW f, Len(message) \in Nat,
           f = Loop(f, step, message, Len(message) + 1)
    PROVE  Runs(f, step, message)
  <1> SUFFICES ASSUME NEW count \in 0 .. Len(message), NEW done \in 0 .. Len(message),
                      NEW sum \in DOMAIN step
               PROVE  f[count][done][sum] = At(f, step, message, count, done, sum)
    BY DEF Runs
  <1>1. f[count] = LoopBody(f, step, message, count)
    <2>1. count \in UpTo(Len(message) + 1)
      BY DEF UpTo
    <2> QED
      BY <2>1, Zenon DEF Loop
  <1>2. LoopBody(f, step, message, count)[done][sum] = At(f, step, message, count, done, sum)
    BY Zenon DEF LoopBody, At
  <1> QED
    BY <1>1, <1>2, Zenon

\* The function that OverBytes is defined by exists, and is that.
LEMMA OverBytesRuns ==
    ASSUME NEW step, NEW start, NEW message, Len(message) \in Nat
    PROVE  \E f : /\ OverBytes(step, start, message) = f[Len(message)][0][start]
                  /\ Runs(f, step, message)
  <1>1. \E g : g = Loop(g, step, message, Len(message) + 1)
    <2>1. Len(message) + 1 \in Nat
      OBVIOUS
    <2> QED
      BY <2>1, LoopExists, Zenon
  <1>2. UpTo(Len(message) + 1) = 0 .. Len(message)
    BY DEF UpTo
  <1> DEFINE After == CHOOSE f : f = Loop(f, step, message, Len(message) + 1)
  <1>3. After = Loop(After, step, message, Len(message) + 1)
    BY <1>1, Zenon
  <1>4. OverBytes(step, start, message) = After[Len(message)][0][start]
    BY <1>2, Zenon DEF OverBytes, Loop, LoopBody
  <1> HIDE DEF After
  <1>5. Runs(After, step, message)
    BY <1>3, LoopRuns
  <1> QED
    BY <1>4, <1>5, Zenon

\* Two loops side by side: what holds of their sums at the start and is kept by
\* every byte, as it is numbered, holds of them at the end.
InStep(Rel, step1, message1, step2, message2) ==
    /\ \A k \in 0 .. Len(message1) : \A s1, s2 :
           << s1, s2 >> \in Rel[k] => s1 \in DOMAIN step1 /\ s2 \in DOMAIN step2
    /\ \A k \in 1 .. Len(message1) : \A s1, s2 :
           << s1, s2 >> \in Rel[k - 1] =>
           << step1[s1][message1[k]], step2[s2][message2[k]] >> \in Rel[k]

\* By induction over the number of bytes.
LEMMA OverBytesRelated ==
    ASSUME NEW Rel, NEW step1, NEW start1, NEW message1, NEW step2, NEW start2, NEW message2,
           Len(message1) \in Nat, Len(message2) = Len(message1),
           << start1, start2 >> \in Rel[0],
           InStep(Rel, step1, message1, step2, message2)
    PROVE  << OverBytes(step1, start1, message1), OverBytes(step2, start2, message2) >>
               \in Rel[Len(message1)]
  <1> DEFINE n == Len(message1)
  <1>1. PICK f1 : /\ OverBytes(step1, start1, message1) = f1[Len(message1)][0][start1]
                  /\ Runs(f1, step1, message1)
    BY OverBytesRuns, Zenon
  <1>2. PICK f2 : /\ OverBytes(step2, start2, message2) = f2[Len(message2)][0][start2]
                  /\ Runs(f2, step2, message2)
    <2>1. Len(message2) \in Nat
      OBVIOUS
    <2> QED
      BY <2>1, OverBytesRuns, Zenon
  <1> DEFINE Kept(count, done) ==
                 \A s1, s2 : << s1, s2 >> \in Rel[done] =>
                     << f1[count][done][s1], f2[count][done][s2] >> \in Rel[done + count]
             S == {count \in Nat : \A done \in Nat : done + count <= n => Kept(count, done)}
  <1>3. \A done \in 0 .. n : \A s1, s2 :
            << s1, s2 >> \in Rel[done] => s1 \in DOMAIN step1 /\ s2 \in DOMAIN step2
    BY DEF InStep
  <1>4. ASSUME NEW count \in Nat, NEW done \in Nat, done + count <= n,
               NEW s1, NEW s2, << s1, s2 >> \in Rel[done]
        PROVE  /\ f1[count][done][s1] = At(f1, step1, message1, count, done, s1)
               /\ f2[count][done][s2] = At(f2, step2, message2, count, done, s2)
    <2>1. \A c, d \in 0 .. Len(message1) : \A s \in DOMAIN step1 :
              f1[c][d][s] = At(f1, step1, message1, c, d, s)
      BY <1>1 DEF Runs
    <2>2. \A c, d \in 0 .. Len(message2) : \A s \in DOMAIN step2 :
              f2[c][d][s] = At(f2, step2, message2, c, d, s)
      BY <1>2 DEF Runs
    <2>3. /\ count \in 0 .. Len(message1) /\ done \in 0 .. Len(message1)
          /\ count \in 0 .. Len(message2) /\ done \in 0 .. Len(message2)
      BY <1>4
    <2>4. s1 \in DOMAIN step1 /\ s2 \in DOMAIN step2
      BY <1>3, <1>4, <2>3
    <2> QED
      BY <2>1, <2>2, <2>3, <2>4, Zenon
  <1>5. ASSUME NEW count \in Nat, \A m \in Nat : m < count => m \in S
        PROVE  count \in S
    <2> SUFFICES ASSUME NEW done \in Nat, done + count <= n,
                        NEW s1, NEW s2, << s1, s2 >> \in Rel[done]
                 PROVE  << f1[count][done][s1], f2[count][done][s2] >> \in Rel[done + count]
      OBVIOUS
    <2>1. CASE count = 0
      <3>1. f1[count][done][s1] = s1 /\ f2[count][done][s2] = s2
        BY <1>4, <2>1 DEF At
      <3> QED
        BY <2>1, <3>1
    <2>2. CASE count = 1
      <3>1. /\ f1[count][done][s1] = step1[s1][message1[done + 1]]
            /\ f2[count][done][s2] = step2[s2][message2[done + 1]]
        BY <1>4, <2>2 DEF At
      <3>2. done + 1 \in 1 .. n /\ (done + 1) - 1 = done /\ done + count = done + 1
        BY <2>2
      <3>3. << step1[s1][message1[done + 1]], step2[s2][message2[done + 1]] >> \in Rel[done + 1]
        BY <3>2 DEF InStep
      <3> QED
        BY <3>1, <3>2, <3>3
    <2>3. CASE count # 0 /\ count # 1
      <3> DEFINE half == count \div 2  rest == count - half
                 t1 == f1[half][done][s1]  t2 == f2[half][done][s2]
      <3>1. half \in Nat /\ rest \in Nat /\ half < count /\ rest < count
        BY <2>3, Parts
      <3>2. /\ f1[count][done][s1] = f1[rest][done + half][t1]
            /\ f2[count][done][s2] = f2[rest][done + half][t2]
        <4>1. /\ f1[count][done][s1] = At(f1, step1, message1, count, done, s1)
              /\ f2[count][done][s2] = At(f2, step2, message2, count, done, s2)
          BY <1>4
        <4> QED
          BY <2>3, <4>1, Zenon DEF At
      <3>3. half \in S /\ rest \in S
        BY <1>5, <3>1
      <3>4. /\ done + half <= n /\ done + half \in Nat
            /\ (done + half) + rest = done + count /\ (done + half) + rest <= n
        BY <3>1
      <3>5. << t1, t2 >> \in Rel[done + half]
        BY <3>3, <3>4
      <3> HIDE DEF half, rest, t1, t2
      <3>6. << f1[rest][done + half][t1], f2[rest][done + half][t2] >>
                \in Rel[(done + half) + rest]
        BY <3>3, <3>4, <3>5
      <3> QED
        BY <3>2, <3>4, <3>6
    <2> QED
      BY <2>1, <2>2, <2>3
  <1>6. n \in S
    <2> HIDE DEF S
    <2> QED
      BY <1>5, StrongInduction
  <1>7. << f1[n][0][start1], f2[n][0][start2] >> \in Rel[0 + n]
    <2>1. 0 \in Nat /\ 0 + n <= n
      OBVIOUS
    <2> QED
      BY <1>6, <2>1
  <1> QED
    BY <1>1, <1>2, <1>7

-----------------------------------------------------------------------------
\* The two bytes of a sum's word are the sum's.
LEMMA SumOfWord ==
    \A crc \in Sum : [hi |-> WordOf(crc) % 256, lo |-> WordOf(crc) \div 256] = crc
  <1> SUFFICES ASSUME NEW crc \in Sum
               PROVE  [hi |-> WordOf(crc) % 256, lo |-> WordOf(crc) \div 256] = crc
    OBVIOUS
  <1>1. \A h, l \in Byte : (h + 256 * l) % 256 = h /\ (h + 256 * l) \div 256 = l
    BY DEF Byte
  <1>2. crc.hi \in Byte /\ crc.lo \in Byte /\ crc = [hi |-> crc.hi, lo |-> crc.lo]
    BY DEF Sum
  <1>3. WordOf(crc) % 256 = crc.hi /\ WordOf(crc) \div 256 = crc.lo
    BY <1>1, <1>2 DEF WordOf
  <1> QED
    BY <1>2, <1>3

\* The loop of the code and the one of the definition go in step, so that the
\* checksum of the tables is the remainder by the polynomial, whatever the message.
THEOREM ChecksumIsRemainder ==
    \A message \in Seq(Byte) :
        generate(message) \in Sum /\ generate(message) = ReferenceCrc(message)
  <1> SUFFICES ASSUME NEW message \in Seq(Byte)
               PROVE  generate(message) \in Sum /\ generate(message) = ReferenceCrc(message)
    OBVIOUS
  <1> DEFINE n == Len(message)
             Same == {p \in Sum \X Word : WordOf(p[1]) = p[2]}
             Rel == [k \in 0 .. n |-> Same]
             Step == [crc \in Sum |-> [byte \in Byte |-> generate_step(crc, byte)]]
             Bits == [crc \in Word |-> [byte \in Byte |-> ShiftedOut(crc ^^ byte)]]
             first == [hi |-> 255, lo |-> 255]
             full == 65535
  <1>1. n \in Nat /\ \A k \in 1 .. n : message[k] \in Byte
    OBVIOUS
  <1>2. \A s1, s2 : << s1, s2 >> \in Same <=> s1 \in Sum /\ s2 \in Word /\ WordOf(s1) = s2
    OBVIOUS
  <1>3. << first, full >> \in Same
    BY <1>2 DEF Sum, Byte, Word, WordOf
  <1>4. ASSUME NEW byte \in Byte, NEW s1, NEW s2, << s1, s2 >> \in Same
        PROVE  << Step[s1][byte], Bits[s2][byte] >> \in Same
    <2>1. s1 \in Sum /\ s2 \in Word /\ WordOf(s1) = s2
      BY <1>2, <1>4, Zenon
    <2>2. byte \in Word
      BY DEF Byte, Word
    <2>3. ShiftedOut(s2 ^^ byte) \in Word
      BY <2>1, <2>2, XorRange, ShiftedOutRange
    <2>4. /\ generate_step(s1, byte) \in Sum
          /\ WordOf(generate_step(s1, byte)) = ShiftedOut(s2 ^^ byte)
      BY <2>1, StepIsShifts
    <2>5. Step[s1][byte] = generate_step(s1, byte) /\ Bits[s2][byte] = ShiftedOut(s2 ^^ byte)
      BY <2>1
    <2> HIDE DEF Same, Step, Bits
    <2> QED
      BY <1>2, <2>3, <2>4, <2>5
  <1>5. << OverBytes(Step, first, message), OverBytes(Bits, full, message) >> \in Same
    <2> HIDE DEF Same, Step, Bits, first, full
    <2>1. << first, full >> \in Rel[0] /\ Rel[n] = Same
      BY <1>1, <1>3
    <2>2. InStep(Rel, Step, message, Bits, message)
      <3>1. DOMAIN Step = Sum /\ DOMAIN Bits = Word
        BY DEF Step, Bits
      <3> QED
        BY <1>1, <1>2, <1>4, <3>1 DEF InStep
    <2> HIDE DEF Rel
    <2>3. << OverBytes(Step, first, message), OverBytes(Bits, full, message) >> \in Rel[n]
      BY <1>1, <2>1, <2>2, OverBytesRelated
    <2> QED
      BY <2>1, <2>3
  <1>6. generate(message) = OverBytes(Step, first, message) /\ Remainder(message) = OverBytes(Bits, full, message)
    BY DEF generate, Remainder
  <1>7. /\ generate(message) \in Sum /\ Remainder(message) \in Word
        /\ WordOf(generate(message)) = Remainder(message)
    <2> HIDE DEF Same
    <2> QED
      BY <1>2, <1>5, <1>6
  <1>8. \A crc \in Sum : [hi |-> WordOf(crc) % 256, lo |-> WordOf(crc) \div 256] = crc
    BY SumOfWord
  <1> QED
    BY <1>7, <1>8 DEF ReferenceCrc

\* Two messages that differ in one byte have different remainders.
THEOREM DamageChangesChecksum ==
    ASSUME NEW m1 \in Seq(Byte), NEW m2 \in Seq(Byte), Len(m1) = Len(m2),
           NEW i \in 1 .. Len(m1), m1[i] # m2[i],
           \A k \in 1 .. Len(m1) : k # i => m1[k] = m2[k]
    PROVE  generate(m1) # generate(m2)
  <1> DEFINE n == Len(m1)
             Bits == [crc \in Word |-> [byte \in Byte |-> ShiftedOut(crc ^^ byte)]]
             full == 65535
             Rel == [k \in 0 .. n |-> {p \in Word \X Word : (p[1] = p[2]) <=> (k < i)}]
  <1>1. n \in Nat /\ \A k \in 1 .. n : m1[k] \in Byte /\ m2[k] \in Byte
    OBVIOUS
  <1>2. \A k \in 0 .. n : \A s1, s2 :
            << s1, s2 >> \in Rel[k] <=> s1 \in Word /\ s2 \in Word /\ (s1 = s2 <=> k < i)
    OBVIOUS
  <1>3. << full, full >> \in Rel[0]
    BY <1>1, <1>2 DEF Word
  <1>4. \A s1, s2 \in Word : \A b1, b2 \in Byte :
            ShiftedOut(s1 ^^ b1) = ShiftedOut(s2 ^^ b2) => s1 ^^ b1 = s2 ^^ b2
    <2>1. \A b \in Byte : b \in Word
      BY DEF Byte, Word
    <2> QED
      BY <2>1, XorRange, ShiftedOutInjective
  <1>5. ASSUME NEW k \in 1 .. n, NEW s1, NEW s2, << s1, s2 >> \in Rel[k - 1]
        PROVE  << Bits[s1][m1[k]], Bits[s2][m2[k]] >> \in Rel[k]
    <2>1. s1 \in Word /\ s2 \in Word /\ (s1 = s2 <=> k - 1 < i)
      <3> HIDE DEF Rel
      <3>1. k - 1 \in 0 .. n
        OBVIOUS
      <3> QED
        BY <1>2, <1>5, <3>1
    <2>2. m1[k] \in Byte /\ m2[k] \in Byte /\ m1[k] \in Word /\ m2[k] \in Word
      <3> HIDE DEF Rel, Bits, full
      <3>1. m1[k] \in Byte /\ m2[k] \in Byte
        BY <1>1
      <3>2. \A b \in Byte : b \in Word
        BY DEF Byte, Word
      <3> QED
        BY <3>1, <3>2
    <2>3. /\ Bits[s1][m1[k]] = ShiftedOut(s1 ^^ m1[k]) /\ ShiftedOut(s1 ^^ m1[k]) \in Word
          /\ Bits[s2][m2[k]] = ShiftedOut(s2 ^^ m2[k]) /\ ShiftedOut(s2 ^^ m2[k]) \in Word
      BY <2>1, <2>2, XorRange, ShiftedOutRange
    <2>4. (s1 ^^ m1[k] = s2 ^^ m2[k]) <=> k < i
      <3>1. CASE k # i
        <4>1. m1[k] = m2[k] /\ (k < i <=> k - 1 < i)
          BY <3>1
        <4>2. s1 ^^ m1[k] = s2 ^^ m1[k] => s1 = s2
          BY <2>1, <2>2, XorCancels
        <4> QED
          BY <2>1, <4>1, <4>2
      <3>2. CASE k = i
        <4>1. s1 = s2 /\ m1[k] # m2[k]
          BY <2>1, <3>2
        <4>2. m1[k] ^^ s1 = m2[k] ^^ s1 => m1[k] = m2[k]
          BY <2>1, <2>2, XorCancels
        <4> QED
          BY <2>1, <2>2, <3>2, <4>1, <4>2, XorCommutes
      <3> QED
        BY <3>1, <3>2
    <2>5. ShiftedOut(s1 ^^ m1[k]) = ShiftedOut(s2 ^^ m2[k]) <=> k < i
      BY <1>4, <2>1, <2>2, <2>4
    <2>6. k \in 0 .. n
      OBVIOUS
    <2> HIDE DEF Rel, Bits, full
    <2> QED
      BY <1>2, <2>3, <2>5, <2>6
  <1>6. << OverBytes(Bits, full, m1), OverBytes(Bits, full, m2) >> \in Rel[n]
    <2> HIDE DEF Rel, Bits, full
    <2>1. InStep(Rel, Bits, m1, Bits, m2)
      <3>1. DOMAIN Bits = Word
        BY DEF Bits
      <3> QED
        BY <1>2, <1>5, <3>1 DEF InStep
    <2> QED
      BY <1>1, <1>3, <2>1, OverBytesRelated
  <1>7. Remainder(m1) \in Word /\ Remainder(m2) \in Word /\ Remainder(m1) # Remainder(m2)
    <2>1. Remainder(m1) = OverBytes(Bits, full, m1) /\ Remainder(m2) = OverBytes(Bits, full, m2)
      BY DEF Remainder
    <2> HIDE DEF Rel, Bits, full
    <2>2. n \in 0 .. n /\ ~ (n < i)
      BY <1>1
    <2> QED
      BY <1>2, <1>6, <2>1, <2>2
  <1>8. \A x, y \in Word : x % 256 = y % 256 /\ x \div 256 = y \div 256 => x = y
    BY DEF Word
  <1>9. generate(m1) = ReferenceCrc(m1) /\ generate(m2) = ReferenceCrc(m2)
    BY ChecksumIsRemainder
  <1> QED
    BY <1>7, <1>8, <1>9 DEF ReferenceCrc
=============================================================================
