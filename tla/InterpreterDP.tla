--------------------------- MODULE InterpreterDP ----------------------------
(***************************************************************************)
(* interpreter/DataProcessingImm.cpp, DataProcessingReg.cpp and Branch.cpp *)
(* as functions from the core before an instruction to the core after it.  *)
(* Template parameters are parameters here; each handler of the source is  *)
(* one choice of them (module Interpreter registers them under their ids). *)
(* inst holds the fields of the instruction word under the source's names. *)
(***************************************************************************)
EXTENDS InstUtils

SetReg(core, r, val) == [core EXCEPT !.GPRegs[r] = val]

\* Register 31 as the stack pointer: an operand, and a destination (which the
\* forms that set the flags discard).
RegOrSP(core, r) == IF r = 31 THEN core.SP ELSE core.GPRegs[r]
SetRegOrSP(core, r, val, updatesFlags) ==
    CASE r # 31 -> SetReg(core, r, val)
      [] r = 31 /\ ~updatesFlags -> [core EXCEPT !.SP = val]
      [] OTHER -> core

LogicalFlags(is64, res) == [N |-> testBit(res, Width(is64) - 1), Z |-> res = 0, C |-> FALSE, V |-> FALSE]
WithFlags(core, updatesFlags, flags) == IF updatesFlags THEN [core EXCEPT !.PSTATE = flags] ELSE core

Operand(invert, val) == IF invert THEN Inv(val) ELSE val
Carry(b) == IF b THEN 1 ELSE 0

\* std::bit_and, std::bit_or and std::bit_xor
Apply(func, a, b) == CASE func = "and" -> a & b [] func = "orr" -> a | b [] func = "eor" -> a ^^ b

-----------------------------------------------------------------------------
\* DataProcessingImm.cpp.  The immediate of ADD and SUB may be shifted by its
\* own width (12 bits there, a byte here).
addSubImmGeneric(core, inst, is64, isSub, updatesFlags) ==
    LET imm == Shl(inst.imm, IF inst.shift12 THEN ByteBits ELSE 0)
        sum == addWithCarry(is64, RegOrSP(core, inst.Rn), Operand(isSub, imm), Carry(isSub))
    IN  WithFlags(SetRegOrSP(core, inst.Rd, sum.result, updatesFlags), updatesFlags, sum.flags)

\* opc: 0 MOVN, 2 MOVZ, 3 MOVK
moveWideImmGeneric(core, inst, is64) ==
    LET half == 2 * ByteBits
        imm == Shl(inst.imm, inst.hw * half)
        kept == core.GPRegs[inst.Rd] & Inv(Shl(bitmask(half), inst.hw * half))
        res == CASE inst.opc = 0 -> Inv(imm) [] inst.opc = 3 -> kept | imm [] OTHER -> imm
    IN  SetReg(core, inst.Rd, Sized(is64, res))

\* A page has 2^ByteBits bytes here (2^12 in the source).
PCRelativeGeneric(core, inst, isPage) ==
    LET base == IF isPage THEN core.PC - (core.PC % 2^ByteBits) ELSE core.PC
        imm == IF isPage THEN Shl(inst.imm, ByteBits) ELSE inst.imm
    IN  SetReg(core, inst.Rd, (base + imm) % 2^XBits)

\* The first operand is always a general register, the destination may be SP.
logicalGeneric(core, inst, is64, func, updatesFlags) ==
    LET res == Sized(is64, Apply(func, core.GPRegs[inst.Rn], getLogicalImmediate(inst.N, inst.imms, inst.immr)))
    IN  WithFlags(SetRegOrSP(core, inst.Rd, res, updatesFlags), updatesFlags, LogicalFlags(is64, res))

\* UBFM writes zeros around the field, SBFM its sign, BFM keeps the old bits.
\* The set of possible results: signExtend to 0 bits shifts by a negative
\* amount, which is undefined.
bitfieldMoveGeneric(core, inst, is64, writeZeros, isSigned) ==
    LET n == Width(is64)
        source == Sized(is64, core.GPRegs[inst.Rn])
        finalPos == (inst.imms + n - inst.immr) % n
        sourceMask == bitmask(inst.imms + 1)
        field == source & sourceMask
        rotated == Shr(field, inst.immr) | Shl(field, n - inst.immr)
        shiftedMask == IF finalPos > inst.imms THEN Shl(sourceMask, finalPos - inst.imms)
                       ELSE Shr(sourceMask, inst.imms - finalPos)
        data == rotated & shiftedMask
        rotatedMask == Shr(sourceMask, inst.immr) | Shl(sourceMask, n - inst.immr)
        results == CASE writeZeros /\ isSigned /\ testBit(source, inst.imms) ->
                            IF finalPos = 0 THEN {data, bitmask(XBits)} ELSE {signExtend(data, finalPos)}
                     [] ~writeZeros -> {data | (core.GPRegs[inst.Rd] & Inv(rotatedMask))}
                     [] OTHER -> {data}
    IN  {SetReg(core, inst.Rd, Sized(is64, r)) : r \in results}

\* A 64-bit extract from bit 0 shifts by 64: undefined, either operand1 or 0.
extractGeneric(core, inst, is64) ==
    LET operand1 == Sized(is64, core.GPRegs[inst.Rn])
        operand2 == Sized(is64, core.GPRegs[inst.Rm])
        highs == IF is64 /\ inst.imms = 0 THEN {operand1, 0} ELSE {Shl(operand1, Width(is64) - inst.imms)}
    IN  {SetReg(core, inst.Rd, Sized(is64, Shr(operand2, inst.imms) | high)) : high \in highs}

-----------------------------------------------------------------------------
\* DataProcessingReg.cpp
logicalShiftedRegGeneric(core, inst, is64, func, negate, updatesFlags) ==
    LET operand2 == Operand(negate, shift(core.GPRegs[inst.Rm], inst.shift, inst.imm, Width(is64)))
        res == Sized(is64, Apply(func, core.GPRegs[inst.Rn], operand2))
    IN  WithFlags(SetReg(core, inst.Rd, res), updatesFlags, LogicalFlags(is64, res))

addSubShiftedRegGeneric(core, inst, is64, isSub, updatesFlags) ==
    LET operand2 == Operand(isSub, shift(core.GPRegs[inst.Rm], inst.shift, inst.imm, Width(is64)))
        sum == addWithCarry(is64, core.GPRegs[inst.Rn], operand2, Carry(isSub))
    IN  WithFlags(SetReg(core, inst.Rd, sum.result), updatesFlags, sum.flags)

\* option: UXTB, UXTH, UXTW, UXTX, then SXTB, SXTH, SXTW, SXTX
addSubExtendedRegGeneric(core, inst, is64, isSub, updatesFlags) ==
    LET size == ByteBits * 2^(inst.option % 4)
        low == core.GPRegs[inst.Rm] % 2^size
        extended == IF inst.option >= 4 THEN signExtend(low, size) ELSE low
        sum == addWithCarry(is64, RegOrSP(core, inst.Rn), Operand(isSub, Shl(extended, inst.imm)), Carry(isSub))
    IN  WithFlags(SetRegOrSP(core, inst.Rd, sum.result, updatesFlags), updatesFlags, sum.flags)

addSubCarryGeneric(core, inst, is64, isSub, updatesFlags) ==
    LET sum == addWithCarry(is64, core.GPRegs[inst.Rn], Operand(isSub, core.GPRegs[inst.Rm]), Carry(core.PSTATE.C))
    IN  WithFlags(SetReg(core, inst.Rd, sum.result), updatesFlags, sum.flags)

\* One stage of a reversal: neighbouring groups of k bits change places.
\* evens has ones in the groups with an even number.
SwapGroups(op, k) ==
    LET evens == (bitmask(XBits) \div bitmask(2 * k)) * bitmask(k)
    IN  (Shl(op, k) & Inv(evens)) | (Shr(op, k) & evens)

\* The stages for groups of 2^first .. 2^last bits, from small to large.
Stages(op, first, last) ==
    LET after[k \in (first - 1) .. last] == IF k < first THEN op ELSE SwapGroups(after[k - 1], 2^k)
    IN  after[last]

\* The last stage, that of the halves, is only for 64 bits.
ReverseFrom(core, inst, is64, first) ==
    SetReg(core, inst.Rd, Sized(is64, Stages(core.GPRegs[inst.Rn], first, IF is64 THEN ImmBits - 1 ELSE ImmBits - 2)))

reverseBits(core, inst, is64) == ReverseFrom(core, inst, is64, 0)
reverseBytes(core, inst, is64) == ReverseFrom(core, inst, is64, ImmBits - 3)
reverse16(core, inst, is64) == ReverseFrom(core, inst, is64, ImmBits - 2)
reverse32(core, inst) == ReverseFrom(core, inst, TRUE, ImmBits - 1)

\* countLeadingClearBits (set = FALSE) and countLeadingSetBits (set = TRUE)
CountLeading(op, n, set) ==
    LET stops == {i \in 0 .. n - 1 : testBit(op, i) # set}
    IN  IF stops = {} THEN n ELSE n - 1 - (CHOOSE i \in stops : \A j \in stops : j <= i)

countLeadingClearBits(core, inst, is64) ==
    SetReg(core, inst.Rd, CountLeading(core.GPRegs[inst.Rn], Width(is64), FALSE))
countLeadingSetBits(core, inst, is64) ==
    SetReg(core, inst.Rd, CountLeading(core.GPRegs[inst.Rn], Width(is64), TRUE))

unsignedDivide(core, inst, is64) ==
    LET op1 == Sized(is64, core.GPRegs[inst.Rn])
        op2 == Sized(is64, core.GPRegs[inst.Rm])
    IN  SetReg(core, inst.Rd, IF op2 = 0 THEN 0 ELSE op1 \div op2)

\* C++ / truncates towards zero.
Quotient(a, b) == LET q == (IF a < 0 THEN -a ELSE a) \div (IF b < 0 THEN -b ELSE b)
                  IN  IF (a < 0) = (b < 0) THEN q ELSE -q

signedDivide(core, inst, is64) ==
    LET op1 == Signed(core.GPRegs[inst.Rn], Width(is64))
        op2 == Signed(core.GPRegs[inst.Rm], Width(is64))
        res == CASE op2 = 0 -> 0
                 [] op2 # 0 /\ is64 /\ op1 = -(2^(XBits - 1)) /\ op2 = -1 -> op1
                 [] OTHER -> Quotient(op1, op2)
    IN  SetReg(core, inst.Rd, Sized(is64, Unsigned(res)))

shiftGeneric(core, inst, is64, shiftType) ==
    LET n == Width(is64)
    IN  SetReg(core, inst.Rd,
               Sized(is64, shift(Sized(is64, core.GPRegs[inst.Rn]), shiftType, core.GPRegs[inst.Rm] % n, n)))

Accumulate(isSub, acc, product) == (IF isSub THEN acc - product ELSE acc + product) % 2^XBits

multiply(core, inst, is64, isSub) ==
    LET product == Mul(core.GPRegs[inst.Rn], core.GPRegs[inst.Rm])
    IN  SetReg(core, inst.Rd, Sized(is64, Accumulate(isSub, core.GPRegs[inst.Ra], product)))

uMultiplyLong(core, inst, isSub) ==
    LET product == (core.GPRegs[inst.Rn] % 2^WBits) * (core.GPRegs[inst.Rm] % 2^WBits)
    IN  SetReg(core, inst.Rd, Accumulate(isSub, core.GPRegs[inst.Ra], product))

sMultiplyLong(core, inst, isSub) ==
    LET product == Signed(core.GPRegs[inst.Rn], WBits) * Signed(core.GPRegs[inst.Rm], WBits)
    IN  SetReg(core, inst.Rd, Accumulate(isSub, core.GPRegs[inst.Ra], product))

\* Mutant: the carry between the partial products is dropped.
MutantMulh(core, inst, isSigned) ==
    LET op1 == core.GPRegs[inst.Rn]
        op2 == core.GPRegs[inst.Rm]
        half == 2^WBits
        high == (op1 \div half) * (op2 \div half) + ((op1 \div half) * (op2 % half)) \div half + ((op1 % half) * (op2 \div half)) \div half
        less1 == IF isSigned /\ testBit(op1, XBits - 1) THEN op2 ELSE 0
        less2 == IF isSigned /\ testBit(op2, XBits - 1) THEN op1 ELSE 0
    IN  SetReg(core, inst.Rd, (high - less1 - less2) % 2^XBits)

\* The high half of a product, from the products of the 32-bit halves; a
\* signed operand that is negative takes the other one off again.
mulhGeneric(core, inst, isSigned) ==
    LET op1 == core.GPRegs[inst.Rn]
        op2 == core.GPRegs[inst.Rm]
        half == 2^WBits
        bd == (op1 % half) * (op2 % half)
        bc == (op1 % half) * (op2 \div half)
        ad == (op1 \div half) * (op2 % half)
        ac == (op1 \div half) * (op2 \div half)
        cy == ((ad % half) + (bc % half) + bd \div half) \div half
        high == ac + ad \div half + bc \div half + cy
        less1 == IF isSigned /\ testBit(op1, XBits - 1) THEN op2 ELSE 0
        less2 == IF isSigned /\ testBit(op2, XBits - 1) THEN op1 ELSE 0
    IN  SetReg(core, inst.Rd, (high - less1 - less2) % 2^XBits)

\* The flags of inst.nzcv
GivenFlags(inst) == [N |-> testBit(inst.nzcv, 3), Z |-> testBit(inst.nzcv, 2),
                     C |-> testBit(inst.nzcv, 1), V |-> testBit(inst.nzcv, 0)]

CondCompare(core, inst, is64, negate, operand2) ==
    IF testCondition(core.PSTATE, inst.cond)
    THEN [core EXCEPT !.PSTATE =
             addWithCarry(is64, core.GPRegs[inst.Rn], Operand(negate, operand2), Carry(negate)).flags]
    ELSE [core EXCEPT !.PSTATE = GivenFlags(inst)]

condCompareRegGeneric(core, inst, is64, negate) == CondCompare(core, inst, is64, negate, core.GPRegs[inst.Rm])
condCompareImmGeneric(core, inst, is64, negate) == CondCompare(core, inst, is64, negate, inst.imm)

condSelGeneric(core, inst, is64, invert, increment) ==
    LET other == Operand(invert, core.GPRegs[inst.Rm])
        res == IF testCondition(core.PSTATE, inst.cond) THEN core.GPRegs[inst.Rn]
               ELSE IF increment THEN (other + 1) % 2^XBits ELSE other
    IN  SetReg(core, inst.Rd, Sized(is64, res))

-----------------------------------------------------------------------------
\* Branch.cpp: inst.off is the offset after signExtend, as an X register.
Target(core, inst) == (core.PC + inst.off) % 2^XBits
BranchIf(core, cond, target) == IF cond THEN [core EXCEPT !.nextPC = target] ELSE core
Linked(core, link) == IF link THEN SetReg(core, 30, (core.PC + 4) % 2^XBits) ELSE core

condBranch(core, inst) == BranchIf(core, testCondition(core.PSTATE, inst.cond), Target(core, inst))

\* The address is read before the link register is written.
uncondBranchRegGeneric(core, inst, link) == BranchIf(Linked(core, link), TRUE, core.GPRegs[inst.Rn])
uncondBranchImmGeneric(core, inst, link) == BranchIf(Linked(core, link), TRUE, Target(core, inst))

compareBranchGeneric(core, inst, is64, negate) ==
    BranchIf(core, (Sized(is64, core.GPRegs[inst.Rt]) = 0) # negate, Target(core, inst))

testBitBranchGeneric(core, inst, negate) ==
    BranchIf(core, testBit(core.GPRegs[inst.Rt], inst.bit) # negate, Target(core, inst))
=============================================================================
