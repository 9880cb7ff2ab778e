------------------------------ MODULE MCDecode ------------------------------
EXTENDS Decode

\* Every combination of the bits 10 .. 15 and 21 .. 23, with the registers and
\* opcodes in 16 .. 20 that some arm tells apart.
Grid(p) == {Word(p, a * 2^21 + b * 2^16 + c * 2^10) :
                a \in 0 .. 7, b \in {0, 1, 2, 3, 4, 5, 8, 16, 17, 24, 31}, c \in 0 .. 63}

\* The low 24 bits of the match of a row, and the same with bit b inverted.
LowBits(row) == MapThenSumSet(LAMBDA f : IF f[1] >= 24 THEN 0
                                     ELSE IF f[2] < 24 THEN f[3] * 2^f[1]
                                     ELSE (f[3] % 2^(24 - f[1])) * 2^f[1], row.fields)
Flip(lo, b) == IF testBit(lo, b) THEN lo - 2^b ELSE lo + 2^b

\* The words on the border of each row: its match, and one bit away from it.
Border(p) == UNION {{Word(p, lo) : lo \in {LowBits(e[2])} \cup {Flip(LowBits(e[2]), b) : b \in 0 .. 23}} :
                        e \in gInstructionDecodeTable(p)}

MCWords(p) == Grid(p) \cup Border(p)
=============================================================================
