----------------------------- MODULE InstUtils ------------------------------
(***************************************************************************)
(* common/inc/bitutils.h and libcpu/inc/instutils.h: the arithmetic the    *)
(* instruction handlers share.  Widths are multiples of one constant, so   *)
(* that small registers keep the proportions of the real ones: a byte has  *)
(* ByteBits bits (8 in the source), W and X registers four and eight times *)
(* as many.  A register is the natural number that its bits spell.         *)
(***************************************************************************)
EXTENDS Integers, Sequences, Bitwise

CONSTANT ByteBits

ASSUME ByteBitsAssumption == ByteBits \in {1, 2, 4, 8}

WBits == 4 * ByteBits
XBits == 8 * ByteBits
Width(is64) == IF is64 THEN XBits ELSE WBits

bitmask(size) == 2^size - 1
testBit(val, pos) == (val \div 2^pos) % 2 = 1

\* C++ <<, >> and ~ on uint64_t, and the masking of a 32-bit result.
Shl(val, n) == ((val % 2^(IF n < XBits THEN XBits - n ELSE 0)) * 2^(IF n < XBits THEN n ELSE 0)) % 2^XBits
Shr(val, n) == val \div 2^n
Inv(val) == bitmask(XBits) - val
Sized(is64, val) == IF is64 THEN val ELSE val % 2^WBits

\* A product modulo 2^XBits, formed from halves to stay within TLC's integers.
Mul(a, b) == (Shl((a * (b \div 2^WBits)) % 2^WBits, WBits) + a * (b % 2^WBits)) % 2^XBits

signExtend(val, size) == IF testBit(val, size - 1) THEN val | Inv(bitmask(size)) ELSE val

\* The signed number that the low bits of val stand for.
Signed(val, size) == LET v == val % 2^size IN IF testBit(v, size - 1) THEN v - 2^size ELSE v
\* The X register that holds an integer.
Unsigned(n) == n % 2^XBits

\* Mutant: "higher" also holds for equal operands.
MutantTestCondition(state, cond) ==
    LET base == CASE cond \div 2 = 0 -> state.Z
                  [] cond \div 2 \in {1, 4} -> state.C
                  [] cond \div 2 = 2 -> state.N
                  [] cond \div 2 = 3 -> state.V
                  [] cond \div 2 = 5 -> state.N = state.V
                  [] cond \div 2 = 6 -> state.N = state.V /\ ~state.Z
                  [] OTHER -> TRUE
    IN  IF cond % 2 = 1 /\ cond # 15 THEN ~base ELSE base

testCondition(state, cond) ==
    LET base == CASE cond \div 2 = 0 -> state.Z
                  [] cond \div 2 = 1 -> state.C
                  [] cond \div 2 = 2 -> state.N
                  [] cond \div 2 = 3 -> state.V
                  [] cond \div 2 = 4 -> state.C /\ ~state.Z
                  [] cond \div 2 = 5 -> state.N = state.V
                  [] cond \div 2 = 6 -> state.N = state.V /\ ~state.Z
                  [] OTHER -> TRUE
    IN  IF cond % 2 = 1 /\ cond # 15 THEN ~base ELSE base

LSL == 0
LSR == 1
ASR == 2
ROR == 3

shift(val, t, amount, bits) ==
    CASE amount = 0 -> val
      [] amount # 0 /\ t = LSL -> Shl(val, amount)
      [] amount # 0 /\ t = LSR -> Shr(val, amount)
      [] amount # 0 /\ t = ASR -> signExtend(Shr(val, amount), bits - amount)
      [] amount # 0 /\ t = ROR -> Shr(val, amount) | Shl(val, bits - amount)

\* The width of the immr and imms fields (6 for 64-bit registers).
ImmBits == CHOOSE n \in 0 .. 6 : 2^n = XBits

\* Mutant: the element is not rotated by immr.
MutantLogicalImmediate(N, imms, immr) ==
    LET size == N * XBits + (bitmask(ImmBits) - imms)
        length == IF size <= 1 THEN 0 ELSE CHOOSE n \in 1 .. ImmBits : 2^n <= size /\ size < 2^(n + 1)
    IN  bitmask((imms % 2^length) + 1) * (bitmask(XBits) \div bitmask(2^length))

getLogicalImmediate(N, imms, immr) ==
    LET size == N * XBits + (bitmask(ImmBits) - imms)
        length == IF size <= 1 THEN 0 ELSE CHOOSE n \in 1 .. ImmBits : 2^n <= size /\ size < 2^(n + 1)
        S == imms % 2^length
        R == immr % 2^length
        esize == 2^length
        ones == bitmask(S + 1)
        welem == Shr(ones, R) | (Shl(ones, esize - R) % 2^esize)
    IN  welem * (bitmask(XBits) \div bitmask(esize))

\* Mutant: the carry out is that of the top bits alone.
MutantAddWithCarry(is64, op1, op2, carry) ==
    LET n == Width(is64)
        result == Sized(is64, (op1 + op2 + carry) % 2^XBits)
        op1MSB == testBit(op1, n - 1)
        op2MSB == testBit(op2, n - 1)
        resMSB == testBit(result, n - 1)
    IN  [result |-> result,
         flags |-> [N |-> resMSB, Z |-> result = 0, C |-> op1MSB /\ op2MSB, V |-> op1MSB = op2MSB /\ op1MSB # resMSB]]

\* The result and the flags that it sets.
addWithCarry(is64, op1, op2, carry) ==
    LET n == Width(is64)
        result == Sized(is64, (op1 + op2 + carry) % 2^XBits)
        op1MSB == testBit(op1, n - 1)
        op2MSB == testBit(op2, n - 1)
        resMSB == testBit(result, n - 1)
        parMSB == testBit((op1 % 2^(n - 1)) + (op2 % 2^(n - 1)) + carry, n - 1)
    IN  [result |-> result,
         flags |-> [N |-> resMSB, Z |-> result = 0,
                    C |-> (op1MSB /\ op2MSB) \/ (op1MSB /\ parMSB) \/ (op2MSB /\ parMSB),
                    V |-> op1MSB = op2MSB /\ op1MSB # resMSB]]
=============================================================================
