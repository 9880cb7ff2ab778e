------------------------ MODULE InterpreterProperties -----------------------
(***************************************************************************)
(* What the interpreter promises, stated over exact integers, single bits, *)
(* bytes of memory and IEEE values, without the source's way of computing  *)
(* them.  Where the source is known to differ from the architecture, the   *)
(* property names the case it leaves out.                                  *)
(***************************************************************************)
EXTENDS Interpreter

Byte == 0 .. bitmask(ByteBits)
XReg == 0 .. bitmask(XBits)

\* The core of struct Core keeps its type, whatever is executed; register 31
\* reads as zero again when an instruction is over (interpreter.cpp:57).
TypeOK ==
    /\ \A r \in DOMAIN core.GPRegs : core.GPRegs[r] \in XReg
    /\ \A v \in DOMAIN core.VRegs : core.VRegs[v] \in XReg \X XReg
    /\ {core.SP, core.PC, core.exclusiveData0, core.exclusiveData1, core.exclusiveAccessAddr} \subseteq XReg
    /\ \A flag \in {"N", "Z", "C", "V"} : core.PSTATE[flag] \in BOOLEAN
    /\ \A a \in DOMAIN core.mem : core.mem[a] \in Byte
    /\ core.GPRegs[31] = 0

\* The handler of the instruction that a step executes, and its operands.
Row == getInstructionFunc(inst'.id)
Handler == Row[2]
X(r) == core.GPRegs[r]

-----------------------------------------------------------------------------
\* Integer instructions.
SignedRange(n) == -(2^(n - 1)) .. 2^(n - 1) - 1

\* The second operand of an addition or a comparison, as an unsigned number of
\* n bits; a shifted one must have a clear upper half in the 32-bit forms (the
\* source shifts all 64 bits to the right).
SecondOperand(i, n) ==
    CASE Handler = "addSubImm" -> i.imm * (IF i.shift12 THEN 2^ByteBits ELSE 1)
      [] Handler = "addSubShiftedReg" ->
            (CASE i.shift = LSL -> X(i.Rm) * 2^i.imm
               [] i.shift = LSR -> (X(i.Rm) % 2^n) \div 2^i.imm
               [] i.shift = ASR -> Signed(X(i.Rm), n) \div 2^i.imm) % 2^n
      [] Handler = "addSubExtendedReg" ->
            LET size == ByteBits * 2^(i.option % 4)
            IN  ((IF i.option < 4 THEN X(i.Rm) % 2^size ELSE Signed(X(i.Rm), size)) * 2^i.imm) % 2^n
      [] Handler = "condCompareImm" -> i.imm
      [] OTHER -> X(i.Rm) % 2^n

Difference(isSub, x, y, carry) == IF isSub THEN x - y - (1 - carry) ELSE x + y + carry

Adders == {"addSubImm", "addSubShiftedReg", "addSubExtendedReg", "addSubCarry"}
UsesSP == {"addSubImm", "addSubExtendedReg"}

SumsAreExactStep ==
    LET i == inst'
        n == Width(Row[3])
        isSub == Row[4]
        first == IF Handler \in UsesSP THEN RegOrSP(core, i.Rn) ELSE X(i.Rn)
        second == SecondOperand(i, n)
        carry == IF Handler = "addSubCarry" THEN Carry(core.PSTATE.C) ELSE Carry(isSub)
        exact == Difference(isSub, first % 2^n, second, carry)
        exactSigned == Difference(isSub, Signed(first, n), Signed(second, n), carry)
        flags == [N |-> testBit(exact % 2^n, n - 1), Z |-> exact % 2^n = 0,
                  C |-> IF isSub THEN exact >= 0 ELSE exact >= 2^n, V |-> exactSigned \notin SignedRange(n)]
    IN  CASE Handler \in Adders /\ (Handler = "addSubShiftedReg" /\ i.shift # LSL /\ n = WBits => X(i.Rm) < 2^WBits) ->
                /\ core'.PSTATE = IF Row[5] THEN flags ELSE core.PSTATE
                /\ i.Rd # 31 => core'.GPRegs[i.Rd] = exact % 2^n
                /\ core'.SP = IF i.Rd = 31 /\ Handler \in UsesSP /\ ~Row[5] THEN exact % 2^n ELSE core.SP
          [] Handler \in {"condCompareReg", "condCompareImm"} ->
                core'.PSTATE = IF testCondition(core.PSTATE, i.cond) THEN flags ELSE GivenFlags(i)
          [] OTHER -> TRUE

\* Every addition, subtraction and conditional comparison yields the exact sum
\* or difference modulo the width, with C for the unsigned and V for the signed
\* overflow, and leaves SP and the flags alone unless it is to write them
\* (addWithCarry and its callers, which never form the exact sum).
SumsAreExact == [][SumsAreExactStep]_vars

\* The relation of two registers that a condition stands for.
Holds(cond, x, y, n) ==
    LET relation == CASE cond \div 2 = 0 -> x % 2^n = y % 2^n
                      [] cond \div 2 = 1 -> x % 2^n >= y % 2^n
                      [] cond \div 2 = 4 -> x % 2^n > y % 2^n
                      [] cond \div 2 = 5 -> Signed(x, n) >= Signed(y, n)
                      [] cond \div 2 = 6 -> Signed(x, n) > Signed(y, n)
    IN  relation = (cond % 2 = 0)

BranchesFollowComparisonsStep ==
    inst.id \in {"SUBS_32_shifted", "SUBS_64_shifted"} /\ inst.Rd = 31 /\ Handler \in {"condBranch", "condSel"} /\ inst'.cond \notin {4, 5, 6, 7, 14, 15} =>
        LET n == IF inst.id = "SUBS_64_shifted" THEN XBits ELSE WBits
            holds == Holds(inst'.cond, X(inst.Rn), X(inst.Rm), n)
        IN  CASE Handler = "condBranch" -> core'.PC = (IF holds THEN core.PC + inst'.off ELSE core.PC + 4) % 2^XBits
              [] inst'.id = "CSEL_64" -> core'.GPRegs[inst'.Rd] = X(IF holds THEN inst'.Rn ELSE inst'.Rm)
              [] OTHER -> TRUE

\* A comparison and the conditional branch or select that follows it agree on
\* the order of the compared registers, signed or unsigned, also when their
\* difference overflows (addWithCarry's flags read by testCondition).
BranchesFollowComparisons == [][BranchesFollowComparisonsStep]_vars

\* The bits of a result of n bits; those above are clear.
BitsAre(res, n, bit(_)) == \A b \in 0 .. XBits - 1 : testBit(res, b) = (b < n /\ bit(b))

\* A bitfield move of the bits immr .. imms, or of the bits 0 .. imms to the
\* place n - immr.
FieldBit(i, n, fill(_), below(_), b) ==
    LET low == IF i.imms >= i.immr THEN 0 ELSE n - i.immr
        high == IF i.imms >= i.immr THEN i.imms - i.immr ELSE n - i.immr + i.imms
    IN  CASE b < low -> below(b)
          [] b > high -> fill(b)
          [] OTHER -> testBit(X(i.Rn), (b + i.immr) % n)

\* The cases in which the source moves the field as the architecture does.  An
\* SBFM tests the bit below the sign (or none, for a field that ends at bit 0),
\* and a BFM that extracts clears the top immr bits of the destination.
FieldIsRight(i, n) ==
    LET finalPos == (i.imms + n - i.immr) % n IN
    CASE Row[5] -> ~testBit(X(i.Rn), i.imms) \/ (finalPos > 0 /\ i.imms > 0 /\ testBit(X(i.Rn), i.imms - 1))
      [] ~Row[4] -> i.imms < i.immr \/ i.immr = 0
      [] OTHER -> TRUE

BitsLandInPlaceStep ==
    LET i == inst'
        n == Width(Row[3])
        res == core'.GPRegs[i.Rd]
        never(b) == FALSE
        sign_(b) == testBit(X(i.Rn), i.imms)
        kept(b) == testBit(X(i.Rd), b)
        amount == X(i.Rm) % n
    IN  CASE Handler = "bitfieldMove" /\ FieldIsRight(i, n) ->
                LET moved(b) == CASE Row[5] -> FieldBit(i, n, sign_, never, b)
                                  [] ~Row[4] -> FieldBit(i, n, kept, kept, b)
                                  [] OTHER -> FieldBit(i, n, never, never, b)
                IN  BitsAre(res, n, moved)
          [] Handler = "extract" /\ (i.imms = 0 => n = WBits) ->
                LET taken(b) == IF b + i.imms < n THEN testBit(X(i.Rm), b + i.imms) ELSE testBit(X(i.Rn), b + i.imms - n)
                IN  BitsAre(res, n, taken)
          [] Handler = "logical" /\ i.Rd # 31 ->
                \* the element is the largest power of two whose marker is in N:NOT(imms)
                LET marked == {k \in 0 .. ImmBits : IF k = ImmBits THEN i.N = 1 ELSE ~testBit(i.imms, k)}
                    esize == IF marked = {} THEN 1 ELSE 2^(CHOOSE k \in marked : \A j \in marked : j <= k)
                    ones(b) == (b + i.immr) % esize <= i.imms % esize
                    combined(b) == CASE Row[4] = "and" -> testBit(X(i.Rn), b) /\ ones(b)
                                     [] Row[4] = "orr" -> testBit(X(i.Rn), b) \/ ones(b)
                                     [] Row[4] = "eor" -> testBit(X(i.Rn), b) # ones(b)
                IN  BitsAre(res, n, combined)
          [] Handler = "moveWideImm" ->
                LET inside(b) == b \div (2 * ByteBits) = i.hw
                    given(b) == testBit(i.imm, b % (2 * ByteBits))
                    wide(b) == CASE i.opc = 0 -> ~inside(b) \/ ~given(b)
                                 [] i.opc = 2 -> inside(b) /\ given(b)
                                 [] i.opc = 3 -> IF inside(b) THEN given(b) ELSE kept(b)
                IN  BitsAre(res, n, wide)
          [] Handler = "shift" ->
                LET source(b) == testBit(X(i.Rn), b)
                    shifted(b) == CASE Row[4] = LSL -> b >= amount /\ source(b - amount)
                                    [] Row[4] = LSR -> b + amount < n /\ source(b + amount)
                                    [] Row[4] = ASR -> source(IF b + amount < n THEN b + amount ELSE n - 1)
                                    [] Row[4] = ROR -> source((b + amount) % n)
                IN  BitsAre(res, n, shifted)
          [] Handler = "reverseBits" ->
                LET mirrored(b) == testBit(X(i.Rn), n - 1 - b) IN BitsAre(res, n, mirrored)
          [] Handler = "reverseBytes" ->
                LET mirrored(b) == testBit(X(i.Rn), (n \div ByteBits - 1 - b \div ByteBits) * ByteBits + (b % ByteBits))
                IN  BitsAre(res, n, mirrored)
          [] OTHER -> TRUE

\* Bits land where the architecture says, one by one: bitfield moves, extracts,
\* logical immediates, wide moves, shifts by a register and reversals.  Left out
\* (FieldIsRight) are an SBFM whose sign test looks at another bit than the top
\* one of the field, a BFM that extracts, and a 64-bit EXTR with imms = 0.
\* (REV16 and CLS do what their unit tests say, not what the architecture does.)
BitsLandInPlace == [][BitsLandInPlaceStep]_vars

\* The high half of x * y, for unsigned y and any x, by long multiplication with
\* digits of WBits bits.
ExactHigh(x, y) == ((x \div 2^WBits) * y + ((x % 2^WBits) * y) \div 2^WBits) \div 2^WBits
ExactLow(x, y) == ((((x \div 2^WBits) * y) % 2^WBits) * 2^WBits + (x % 2^WBits) * y) % 2^XBits

ProductsAreExactStep ==
    LET i == inst'
        n == Width(Row[3])
        res == core'.GPRegs[i.Rd]
        x == X(i.Rn)
        y == X(i.Rm)
        Sum(isSub, product) == (X(i.Ra) + IF isSub THEN -product ELSE product) % 2^XBits
        sx == Signed(x, n)
        sy == Signed(y, n)
        sres == Signed(res, n)
    IN  CASE Handler = "mulh" -> res = (IF Row[3] THEN ExactHigh(Signed(x, XBits), Signed(y, XBits)) ELSE ExactHigh(x, y)) % 2^XBits
          [] Handler = "multiply" -> res = Sum(Row[4], ExactLow(x, y)) % 2^n
          [] Handler = "uMultiplyLong" -> res = Sum(Row[3], (x % 2^WBits) * (y % 2^WBits))
          [] Handler = "sMultiplyLong" -> res = Sum(Row[3], Signed(x, WBits) * Signed(y, WBits))
          [] Handler = "unsignedDivide" ->
                IF y % 2^n = 0 THEN res = 0 ELSE (x % 2^n) - res * (y % 2^n) \in 0 .. (y % 2^n) - 1
          [] Handler = "signedDivide" ->
                CASE sy = 0 -> res = 0
                  [] sx = -(2^(n - 1)) /\ sy = -1 -> res = 2^(n - 1)
                  [] OTHER -> LET rest == sx - sres * sy
                              IN  Abs(rest) < Abs(sy) /\ (rest # 0 => (rest < 0) = (sx < 0)) /\ res < 2^n
          [] OTHER -> TRUE

\* Products and quotients are exact: the high half that UMULH and SMULH put
\* together from four partial products, the 64-bit sums of 32-bit products,
\* and quotients that truncate towards zero and are 0 for a zero divisor.
ProductsAreExact == [][ProductsAreExactStep]_vars
-----------------------------------------------------------------------------
\* Loads and stores.
LoadStoreHandlers == {"storeRegImm", "loadRegImm", "storePair", "loadPair", "storeRegOff", "loadRegOff", "loadRegLiteral"}
StoreHandlers == {"storeRegImm", "storePair", "storeRegOff"}
Paired == {"storePair", "loadPair"}

\* What one register holds of an access, in bytes, and the offset from the base.
RegSize == AccessSize(Row[3], Row[4])
SignedOffset(i) ==
    CASE Handler \in Paired -> IF "Exclusive" \in Row[4] THEN 0 ELSE Signed(i.imm, ByteBits) * RegSize
      [] Handler \in {"storeRegOff", "loadRegOff"} ->
            LET index == CASE i.option % 2 = 1 -> Signed(X(i.Rm), XBits)
                           [] i.option = 2 -> X(i.Rm) % 2^WBits
                           [] i.option = 6 -> Signed(X(i.Rm), WBits)
            IN  index * (IF i.S THEN RegSize ELSE 1)
      [] Handler = "loadRegLiteral" -> i.off
      [] "ImmSigned" \in Row[4] -> Signed(i.imm, ByteBits + 1)
      [] {"Exclusive", "Ordered"} \cap Row[4] # {} -> 0
      [] OTHER -> i.imm * RegSize
Base(i) == IF Handler = "loadRegLiteral" THEN core.PC ELSE RegOrSP(core, i.Rn)
Start(i) == (Base(i) + IF "PostIndex" \in Row[4] THEN 0 ELSE SignedOffset(i)) % 2^XBits

\* Byte k of a register, and the number that bytes of memory spell.
ByteOf(val, k) == (val \div 2^(k * ByteBits)) % 2^ByteBits
RegByte(c, r, k) == IF "Float" \in Row[4] THEN ByteOf(c.VRegs[r][1 + k \div 8], k % 8) ELSE ByteOf(c.GPRegs[r], k)

\* The source scales the index of a 128-bit access by 8, not 16, and a store
\* pair exclusive swaps the halves (64-bit) or mixes in the dirty upper half of
\* the first register (32-bit).
AccessIsRight(i) ==
    /\ ~(Handler \in {"storeRegOff", "loadRegOff"} /\ i.S /\ RegSize = 16)
    /\ ~(Handler = "storePair" /\ "Exclusive" \in Row[4])

AccessesAreExactStep ==
    Handler \in LoadStoreHandlers /\ AccessIsRight(inst') =>
    LET i == inst'
        start == Start(i)
        size == RegSize * (IF Handler \in Paired THEN 2 ELSE 1)
        RegAt(k) == IF k < RegSize THEN i.Rt ELSE i.Rt2
        isStore == Handler \in StoreHandlers
        fails == isStore /\ "Exclusive" \in Row[4] /\ core'.GPRegs[i.Rs] # 0
        negative == "ExtendResult" \in Row[4] /\ testBit(core.mem[start + size - 1], ByteBits - 1)
        extended(k) == CASE ~negative -> 0
                         [] negative /\ ("ExtendTo64" \in Row[4] \/ Handler = "loadRegLiteral" \/ k < 4) -> bitmask(ByteBits)
                         [] OTHER -> 0
        writesBack == "WriteBack" \in Row[4]
    IN  /\ \A a \in DOMAIN core.mem :
              core'.mem[a] = IF isStore /\ ~fails /\ a - start \in 0 .. size - 1
                             THEN RegByte(core, RegAt(a - start), (a - start) % RegSize) ELSE core.mem[a]
        /\ ~isStore => \A k \in 0 .. size - 1 :
              RegAt(k) # 31 => RegByte(core', RegAt(k), k % RegSize) = core.mem[start + k]
        /\ ~isStore /\ "Float" \notin Row[4] /\ i.Rt # 31 => \A k \in RegSize .. 7 : RegByte(core', i.Rt, k) = extended(k)
        /\ Handler # "loadRegLiteral" /\ (isStore \/ "Float" \in Row[4] \/ i.Rn \notin {RegAt(k) : k \in 0 .. size - 1}) =>
              RegOrSP(core', i.Rn) = IF writesBack THEN (Base(i) + SignedOffset(i)) % 2^XBits ELSE Base(i)

\* A store that succeeds writes the bytes of its registers, lowest first, to
\* exactly the addresses from the start of the access on, and a load leaves
\* memory alone and finds them there, extended to the register; the base moves
\* by the offset in the pre- and post-indexed forms and in no other.
AccessesAreExact == [][AccessesAreExactStep]_vars

-----------------------------------------------------------------------------
\* Floats and vectors.
F(i, r) == getReg(core, r, Row[3])
FloatResult(i) == getReg(core', i.Rd, Row[3])
Same(f, a, b) == a = b \/ (isNaN(f, a) /\ isNaN(f, b))

FloatsAgreeWithHostStep ==
    LET i == inst'
        f == Row[3]
        a == F(i, i.Rn)
        b == F(i, i.Rm)
        numbers == ~isNaN(f, a) /\ ~isNaN(f, b)
        special(x) == isZero(f, x) \/ isInfinity(f, x)
        handled == (isNaN(f, a) => ~special(b)) /\ (isNaN(f, b) => ~special(a))
        NegatedIf(flag, r) == IF flag THEN Negated(f, r) ELSE r
    IN  CASE Handler = "floatAdd" -> Same(f, FloatResult(i), hostAdd(f, a, b))
          [] Handler = "floatSub" -> Same(f, FloatResult(i), hostAdd(f, a, Negated(f, b)))
          [] Handler = "floatMul" /\ handled -> Same(f, FloatResult(i), NegatedIf("Negate" \in Row[4], hostMul(f, a, b)))
          [] Handler = "floatDiv" /\ handled /\ (isZero(f, b) => isZero(f, a)) -> Same(f, FloatResult(i), hostDiv(f, a, b))
          [] Handler = "floatMulAdd" /\ ~\E r \in {i.Rn, i.Rm, i.Ra} : exponent(f, F(i, r)) = maxExp(f) ->
                LET product == hostMul(f, NegatedIf("IsSub" \in Row[4], a), b)
                IN  Same(f, FloatResult(i), NegatedIf("Negate" \in Row[4], hostAdd(f, F(i, i.Ra), product)))
          [] Handler = "floatMax" /\ numbers -> FloatResult(i) \in {a, b} /\ ~hostLess(f, FloatResult(i), a) /\ ~hostLess(f, FloatResult(i), b)
          [] Handler = "floatMin" /\ numbers -> FloatResult(i) \in {a, b} /\ ~hostLess(f, a, FloatResult(i)) /\ ~hostLess(f, b, FloatResult(i))
          [] OTHER -> TRUE

\* The arithmetic that float.cpp does by hand for zeros, infinities and NaNs
\* agrees with the host's, up to the bits of a NaN.  Left out are products
\* and quotients of a NaN and an infinity or a zero, a division of a number by
\* zero (the source yields zero), and FMADD with an infinity (the source
\* assigns it to an operand).
FloatsAgreeWithHost == [][FloatsAgreeWithHostStep]_vars

\* The whole numbers that may stand for v units under a rounding mode.
RoundsTo(f, v, int, mode) ==
    LET d == int * 2^One(f) - v IN
    /\ Abs(d) < 2^One(f)
    /\ mode = "PosInf" => d >= 0
    /\ mode = "NegInf" => d <= 0
    /\ mode = "Zero" => Abs(int) * 2^One(f) <= Abs(v)
    /\ mode \in {"Even", "Away"} => 2 * Abs(d) <= 2^One(f)
    /\ 2 * Abs(d) = 2^One(f) => CASE mode = "Even" -> int % 2 = 0
                                  [] mode = "Away" -> Abs(int) * 2^One(f) > Abs(v)
                                  [] OTHER -> TRUE

FloatsKeepOrderStep ==
    LET i == inst' IN
    CASE Handler = "floatCompare" /\ "Conditional" \notin Row[4] ->
            LET f == Row[3]
                a == F(i, i.Rn)
                b == IF "UseZero" \in Row[4] THEN 0 ELSE F(i, i.Rm)
            IN  ~isNaN(f, a) /\ ~isNaN(f, b) /\ ~(sign(f, a) /\ sign(f, b) /\ a # b) /\ ~(isZero(f, a) /\ isZero(f, b) /\ a # b) =>
                    core'.PSTATE = [N |-> hostLess(f, a, b), Z |-> a = b, C |-> ~hostLess(f, a, b), V |-> FALSE]
      [] Handler = "floatConvertToInt" ->
            LET f == Row[4]
                b == getReg(core, i.Rn, f)
                n == Width(Row[3])
                range == IF Row[5] THEN SignedRange(n) ELSE 0 .. 2^n - 1
                int == IF Row[5] THEN Signed(core'.GPRegs[i.Rd], XBits) ELSE core'.GPRegs[i.Rd]
            IN  exponent(f, b) # maxExp(f) /\ Value(f, b) \div 2^One(f) \in range /\ (Value(f, b) \div 2^One(f)) + 1 \in range =>
                    RoundsTo(f, Value(f, b), int, Row[6])
      [] Handler = "floatConvIntToFloat" ->
            LET f == Row[4]
                n == Width(Row[3])
                int == IF Row[5] THEN Signed(X(i.Rn), n) ELSE X(i.Rn) % 2^n
                res == getReg(core', i.Rd, f)
                low == Units(f, res)
            IN  ~sign(f, getReg(core, i.Rd, f)) /\ (int < 0 => n = XBits) /\ Abs(int) < 2^(Bias(f) + 1) =>
                    /\ sign(f, res) = (int < 0)
                    /\ low <= Abs(int) * 2^One(f)
                    /\ Abs(int) * 2^One(f) < low + 2^(IF exponent(f, res) = 0 THEN 0 ELSE exponent(f, res) - 1)
      [] OTHER -> TRUE

\* Order and size survive the way from floats to flags and integers and back:
\* a comparison sets the flags by value, a float that fits becomes the integer
\* its rounding mode names, and an integer becomes the float at or below it in
\* magnitude.  Left out are what the source gets wrong: comparisons of two
\* negative floats, of zeros of different sign and of NaNs, destinations whose
\* sign bit was set, and negative 32-bit integers.  The result of a signed
\* conversion to 32 bits is read as the 64-bit register it is written to: its
\* upper half, which the source fills with the sign (float.cpp:1092), is accepted.
FloatsKeepOrder == [][FloatsKeepOrderStep]_vars

LanesAreIndependentStep ==
    LET i == inst'
        n == core.VRegs[i.Rn]
        m == core.VRegs[i.Rm]
        d == core'.VRegs[i.Rd]
        lanes == NumElem(i, i.size)
        L(v, k) == Lane(v, i.size, k)
        wrap == 2^elemNumBits(i.size)
        Joined(k) == IF k < lanes THEN L(n, k) ELSE L(m, k - lanes)
    IN  CASE Handler = "addVector" -> \A k \in 0 .. lanes - 1 : L(d, k) = (L(n, k) + L(m, k)) % wrap
          [] Handler = "cmeqVec" -> \A k \in 0 .. lanes - 1 : L(d, k) = IF L(n, k) = (IF Row[3] THEN 0 ELSE L(m, k)) THEN wrap - 1 ELSE 0
          [] Handler = "addpVec" /\ i.Rd \notin {i.Rn, i.Rm} /\ lanes > 1 ->
                \A k \in 0 .. lanes - 1 : L(d, k) = (Joined(2 * k) + Joined(2 * k + 1)) % wrap
          [] OTHER -> TRUE

\* Vector instructions work on each lane alone: sums wrap within the lane,
\* equality gives all ones or none, a pairwise sum adds neighbours of the
\* concatenated sources (unless the destination is one of them: the source
\* then reads lanes it has just written).
LanesAreIndependent == [][LanesAreIndependentStep]_vars
=============================================================================
