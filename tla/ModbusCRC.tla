----------------------------- MODULE ModbusCRC ------------------------------
(***************************************************************************)
(* mb_crc.h and the tables of constants.h, next to the definition of the   *)
(* checksum they compute: the remainder of the message, taken bit by bit.  *)
(***************************************************************************)
EXTENDS Integers, Sequences

Byte == {x \in Nat : x < 256}
Word == {x \in Nat : x < 65536}

\* Exclusive or, 16 bits wide.
Xor[a \in Word] ==
    [b \in Word |->
        IF a = 0 THEN b ELSE 2 * Xor[a \div 2][b \div 2] + ((a + b) % 2)]

a ^^ b == Xor[a][b]

\* A loop over the bytes of a message: `step` takes the sum so far and a byte.
\* It is taken in halves: After[count][done] takes the sum past `count` bytes
\* more, those that follow the first `done`.
OverBytes(step, start, message) ==
    LET n == Len(message)
        After[count \in 0..n] ==
            [done \in 0..n |->
                [sum \in DOMAIN step |->
                    IF count = 0 THEN sum
                    ELSE IF count = 1 THEN step[sum][message[done + 1]]
                    ELSE LET half == count \div 2
                         IN  After[count - half][done + half][After[half][done][sum]]]]
    IN  After[n][0][start]

-----------------------------------------------------------------------------
(* The code.                                                               *)

crc_hi_table ==
    << 0, 193, 129, 64, 1, 192, 128, 65, 1, 192, 128, 65, 0, 193, 129, 64, 1, 192, 128,
       65, 0, 193, 129, 64, 0, 193, 129, 64, 1, 192, 128, 65, 1, 192, 128, 65, 0, 193,
       129, 64, 0, 193, 129, 64, 1, 192, 128, 65, 0, 193, 129, 64, 1, 192, 128, 65, 1,
       192, 128, 65, 0, 193, 129, 64, 1, 192, 128, 65, 0, 193, 129, 64, 0, 193, 129, 64,
       1, 192, 128, 65, 0, 193, 129, 64, 1, 192, 128, 65, 1, 192, 128, 65, 0, 193, 129,
       64, 0, 193, 129, 64, 1, 192, 128, 65, 1, 192, 128, 65, 0, 193, 129, 64, 1, 192,
       128, 65, 0, 193, 129, 64, 0, 193, 129, 64, 1, 192, 128, 65, 1, 192, 128, 65, 0,
       193, 129, 64, 0, 193, 129, 64, 1, 192, 128, 65, 0, 193, 129, 64, 1, 192, 128, 65,
       1, 192, 128, 65, 0, 193, 129, 64, 0, 193, 129, 64, 1, 192, 128, 65, 1, 192, 128,
       65, 0, 193, 129, 64, 1, 192, 128, 65, 0, 193, 129, 64, 0, 193, 129, 64, 1, 192,
       128, 65, 0, 193, 129, 64, 1, 192, 128, 65, 1, 192, 128, 65, 0, 193, 129, 64, 1,
       192, 128, 65, 0, 193, 129, 64, 0, 193, 129, 64, 1, 192, 128, 65, 1, 192, 128, 65,
       0, 193, 129, 64, 0, 193, 129, 64, 1, 192, 128, 65, 0, 193, 129, 64, 1, 192, 128,
       65, 1, 192, 128, 65, 0, 193, 129, 64 >>

crc_lo_table ==
    << 0, 192, 193, 1, 195, 3, 2, 194, 198, 6, 7, 199, 5, 197, 196, 4, 204, 12, 13,
       205, 15, 207, 206, 14, 10, 202, 203, 11, 201, 9, 8, 200, 216, 24, 25, 217, 27, 219,
       218, 26, 30, 222, 223, 31, 221, 29, 28, 220, 20, 212, 213, 21, 215, 23, 22, 214, 210,
       18, 19, 211, 17, 209, 208, 16, 240, 48, 49, 241, 51, 243, 242, 50, 54, 246, 247, 55,
       245, 53, 52, 244, 60, 252, 253, 61, 255, 63, 62, 254, 250, 58, 59, 251, 57, 249, 248,
       56, 40, 232, 233, 41, 235, 43, 42, 234, 238, 46, 47, 239, 45, 237, 236, 44, 228, 36,
       37, 229, 39, 231, 230, 38, 34, 226, 227, 35, 225, 33, 32, 224, 160, 96, 97, 161, 99,
       163, 162, 98, 102, 166, 167, 103, 165, 101, 100, 164, 108, 172, 173, 109, 175, 111, 110, 174,
       170, 106, 107, 171, 105, 169, 168, 104, 120, 184, 185, 121, 187, 123, 122, 186, 190, 126, 127,
       191, 125, 189, 188, 124, 180, 116, 117, 181, 119, 183, 182, 118, 114, 178, 179, 115, 177, 113,
       112, 176, 80, 144, 145, 81, 147, 83, 82, 146, 150, 86, 87, 151, 85, 149, 148, 84, 156,
       92, 93, 157, 95, 159, 158, 94, 90, 154, 155, 91, 153, 89, 88, 152, 136, 72, 73, 137,
       75, 139, 138, 74, 78, 142, 143, 79, 141, 77, 76, 140, 68, 132, 133, 69, 135, 71, 70,
       134, 130, 66, 67, 131, 65, 129, 128, 64 >>

generate_step(crc, byte) ==
    LET index == crc.hi ^^ byte IN
    [hi |-> crc.lo ^^ crc_hi_table[index + 1], lo |-> crc_lo_table[index + 1]]

Sum == [hi : Byte, lo : Byte]

\* The sum of a message; its two bytes are sent in this order.
generate(message) ==
    OverBytes([crc \in Sum |-> [byte \in Byte |-> generate_step(crc, byte)]],
              [hi |-> 255, lo |-> 255], message)

-----------------------------------------------------------------------------
(* Reference: the remainder by the polynomial 16r8005, bits reversed.      *)

Shift(crc) == IF crc % 2 = 1 THEN (crc \div 2) ^^ 40961 ELSE crc \div 2

ShiftedTwice(crc) == Shift(Shift(crc))
ShiftedOut(crc) == ShiftedTwice(ShiftedTwice(ShiftedTwice(ShiftedTwice(crc))))

Remainder(message) ==
    OverBytes([crc \in Word |-> [byte \in Byte |-> ShiftedOut(crc ^^ byte)]],
              65535, message)

\* Modbus sends the low byte of the remainder first.
ReferenceCrc(message) ==
    LET crc == Remainder(message) IN [hi |-> crc % 256, lo |-> crc \div 256]
=============================================================================
