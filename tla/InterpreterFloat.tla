-------------------------- MODULE InterpreterFloat --------------------------
(***************************************************************************)
(* interpreter/float.cpp over the unions of common/inc/types.h and the     *)
(* classes of common/inc/floatutils.h.  A float is the natural number that *)
(* its bits spell; a format gives the bits and how many are the exponent.  *)
(* The arithmetic of the host (the C++ operators and math.h) is external:  *)
(* the exact result rounded to nearest, ties to even, with one NaN.        *)
(***************************************************************************)
EXTENDS InterpreterLoadStore

CONSTANTS HalfExp, SingleExp, DoubleExp         \* 5, 8 and 11 in the source

ASSUME FloatAssumption == /\ 1 <= HalfExp /\ HalfExp < 2 * ByteBits
                          /\ 3 <= SingleExp /\ SingleExp + 4 < WBits
                          /\ 3 <= DoubleExp /\ DoubleExp + 4 < XBits
                          /\ HalfExp <= SingleExp /\ SingleExp <= DoubleExp

Half == [bits |-> 2 * ByteBits, exp |-> HalfExp]
Single == [bits |-> WBits, exp |-> SingleExp]
Double == [bits |-> XBits, exp |-> DoubleExp]
Format(isDouble) == IF isDouble THEN Double ELSE Single
Man(f) == f.bits - 1 - f.exp
maxExp(f) == 2^f.exp - 1
Bias(f) == 2^(f.exp - 1) - 1

sign(f, b) == testBit(b, f.bits - 1)
exponent(f, b) == Shr(b, Man(f)) % 2^f.exp
mantissa(f, b) == b % 2^Man(f)
makeFloat(f, s, e, m) == (IF s THEN 2^(f.bits - 1) ELSE 0) + (e % 2^f.exp) * 2^Man(f) + (m % 2^Man(f))

isZero(f, b) == mantissa(f, b) = 0 /\ exponent(f, b) = 0
isInfinity(f, b) == mantissa(f, b) = 0 /\ exponent(f, b) = maxExp(f)
isNaN(f, b) == mantissa(f, b) # 0 /\ exponent(f, b) = maxExp(f)
isQuietNaN(f, b) == isNaN(f, b) /\ testBit(b, Man(f) - 1)
isSignalingNaN(f, b) == isNaN(f, b) /\ ~isQuietNaN(f, b)
generateQNaN(f) == makeFloat(f, FALSE, maxExp(f), 2^(Man(f) - 1))
Zero(f, s) == makeFloat(f, s, 0, 0)
Infinity(f, s) == makeFloat(f, s, maxExp(f), 0)
Negated(f, b) == makeFloat(f, ~sign(f, b), exponent(f, b), mantissa(f, b))

-----------------------------------------------------------------------------
\* The host.  A finite float is a whole number of units of 2^-One(f).
One(f) == Bias(f) - 1 + Man(f)
Units(f, b) == LET e == exponent(f, b) IN IF e = 0 THEN mantissa(f, b) ELSE (2^Man(f) + mantissa(f, b)) * 2^(e - 1)
Value(f, b) == IF sign(f, b) THEN -Units(f, b) ELSE Units(f, b)
Abs(n) == IF n < 0 THEN -n ELSE n

\* The float nearest to num / den units.
Nearest(f, s, num, den) ==
    LET scales == {k \in 0 .. maxExp(f) - 1 : num \div 2^k < den * 2^(Man(f) + 1)}
        k == CHOOSE x \in scales : \A y \in scales : x <= y
        q == num \div (den * 2^k)
        r == num % (den * 2^k)
        up == 2 * r > den * 2^k \/ (2 * r = den * 2^k /\ q % 2 = 1)
        whole == IF up THEN q + 1 ELSE q
        e == (IF whole < 2^Man(f) THEN 0 ELSE k + 1) + (IF whole = 2^(Man(f) + 1) THEN 1 ELSE 0)
    IN  IF scales = {} \/ e >= maxExp(f) THEN Infinity(f, s) ELSE makeFloat(f, s, e, whole)

hostAdd(f, a, b) ==
    LET sum == Value(f, a) + Value(f, b) IN
    CASE isNaN(f, a) \/ isNaN(f, b) \/ (isInfinity(f, a) /\ isInfinity(f, b) /\ a # b) -> generateQNaN(f)
      [] ~isNaN(f, b) /\ isInfinity(f, a) /\ (isInfinity(f, b) => a = b) -> a
      [] ~isNaN(f, a) /\ ~isInfinity(f, a) /\ isInfinity(f, b) -> b
      [] OTHER -> IF sum = 0 THEN Zero(f, sign(f, a) /\ sign(f, b) /\ isZero(f, a)) ELSE Nearest(f, sum < 0, Abs(sum), 1)

hostMul(f, a, b) ==
    LET s == sign(f, a) # sign(f, b)
        infinite == isInfinity(f, a) \/ isInfinity(f, b)
        zero == isZero(f, a) \/ isZero(f, b)
        nan == isNaN(f, a) \/ isNaN(f, b) \/ (infinite /\ zero)
    IN  CASE nan -> generateQNaN(f)
          [] ~nan /\ infinite -> Infinity(f, s)
          [] ~nan /\ zero -> Zero(f, s)
          [] OTHER -> Nearest(f, s, Units(f, a) * Units(f, b), 2^One(f))

hostDiv(f, a, b) ==
    LET s == sign(f, a) # sign(f, b)
        nan == \/ isNaN(f, a) \/ isNaN(f, b) \/ (isInfinity(f, a) /\ isInfinity(f, b)) \/ (isZero(f, a) /\ isZero(f, b))
        infinite == isInfinity(f, a) \/ isZero(f, b)
        zero == isZero(f, a) \/ isInfinity(f, b)
    IN  CASE nan -> generateQNaN(f)
          [] ~nan /\ infinite -> Infinity(f, s)
          [] ~nan /\ zero -> Zero(f, s)
          [] OTHER -> Nearest(f, s, Units(f, a) * 2^One(f), Units(f, b))

\* The root, for a positive float: rounded down to a multiple of half a unit in
\* the last place, and to nearest from there.
hostSqrt(f, b) ==
    LET n == Units(f, b) * 2^One(f)
        root == CHOOSE r \in 0 .. 2^15 : r * r <= 4 * n /\ (r + 1) * (r + 1) > 4 * n
    IN  Nearest(f, FALSE, IF root * root = 4 * n THEN 2 * root ELSE 2 * root + 1, 4)

hostLess(f, a, b) ==
    CASE isNaN(f, a) \/ isNaN(f, b) -> FALSE
      [] ~isNaN(f, a) /\ ~isNaN(f, b) /\ (isInfinity(f, a) \/ isInfinity(f, b)) ->
            a # b /\ (a = Infinity(f, TRUE) \/ b = Infinity(f, FALSE))
      [] OTHER -> Value(f, a) < Value(f, b)

-----------------------------------------------------------------------------
\* getReg and the assignments through getRegRef.  Writing a narrow float
\* leaves the other bits of the V register.
getReg(core, r, f) == core.VRegs[r][1] % 2^f.bits
setReg(core, r, f, b) == [core EXCEPT !.VRegs[r][1] = @ - (@ % 2^f.bits) + b]

RoundModes == {"Even", "PosInf", "NegInf", "Zero", "Away"}

\* The whole number that a float is rounded to, in units.
Rounded(f, b, mode) ==
    LET unit == 2^One(f)
        v == Value(f, b)
        floor == (v \div unit) * unit
        rest == v - floor
    IN  CASE mode = "PosInf" -> IF rest = 0 THEN v ELSE floor + unit
          [] mode = "NegInf" -> floor
          [] mode = "Zero" -> IF v < 0 /\ rest # 0 THEN floor + unit ELSE floor
          [] mode = "Away" -> IF 2 * rest > unit \/ (2 * rest = unit /\ v > 0) THEN floor + unit ELSE floor
          [] mode = "Even" -> IF 2 * rest > unit \/ (2 * rest = unit /\ (floor \div unit) % 2 = 1) THEN floor + unit ELSE floor

\* roundFloat on a finite float: f - remainder(f, 1) yields +0 where ceil,
\* trunc and round keep the sign.
roundFloat(f, b, mode) ==
    LET r == Rounded(f, b, mode)
    IN  IF r = 0 THEN Zero(f, mode # "Even" /\ sign(f, b)) ELSE Nearest(f, r < 0, Abs(r), 1)

\* imm8 is abcdefgh: a the sign, the exponent NOT(b) b..b cd, the fraction efgh.
ImmFloat(f, imm8) ==
    makeFloat(f, testBit(imm8, 7), (IF testBit(imm8, 6) THEN 2^(f.exp - 1) - 4 ELSE 2^(f.exp - 1)) + (Shr(imm8, 4) % 4),
              (imm8 % 16) * 2^(Man(f) - 4))
fmovImm(core, inst, f) == setReg(core, inst.Rd, f, ImmFloat(f, inst.imm))

floatMoveGeneric(core, inst, f, flags) ==
    LET b == getReg(core, inst.Rn, f)
        s == IF "Negate" \in flags THEN ~sign(f, b) ELSE sign(f, b) /\ "Absolute" \notin flags
    IN  setReg(core, inst.Rd, f, makeFloat(f, s, exponent(f, b), mantissa(f, b)))

\* FRINTX and FRINTI do not consult FPCR: they round towards minus infinity.
floatRoundGeneric(core, inst, f, mode) ==
    LET b == getReg(core, inst.Rn, f)
    IN  setReg(core, inst.Rd, f, IF isNaN(f, b) \/ isInfinity(f, b) \/ isZero(f, b) THEN b ELSE roundFloat(f, b, mode))

floatSqrtGeneric(core, inst, f) ==
    LET b == getReg(core, inst.Rn, f)
        kept == isNaN(f, b) \/ isZero(f, b) \/ b = Infinity(f, FALSE)
    IN  setReg(core, inst.Rd, f, CASE kept -> b
                                   [] ~kept /\ sign(f, b) -> generateQNaN(f)
                                   [] OTHER -> hostSqrt(f, b))

\* The exponent is rebiased as an unsigned number and cut to the field; zero,
\* infinity and NaN are not treated apart.
floatConvertGeneric(core, inst, from, to) ==
    LET b == getReg(core, inst.Rn, from)
        wide == mantissa(from, b) * 2^(Man(Double) - Man(from))
    IN  setReg(core, inst.Rd, to, makeFloat(to, sign(from, b), exponent(from, b) - Bias(from) + Bias(to),
                                            Shr(wide, Man(Double) - Man(to))))

floatMulGeneric(core, inst, f, flags) ==
    LET a == getReg(core, inst.Rn, f)
        b == getReg(core, inst.Rm, f)
        differ == sign(f, a) # sign(f, b)
        invalid == (isInfinity(f, a) /\ isZero(f, b)) \/ (isZero(f, a) /\ isInfinity(f, b))
        infinite == isInfinity(f, a) \/ isInfinity(f, b)
        result == CASE invalid -> generateQNaN(f)
                    [] ~invalid /\ infinite -> Infinity(f, differ)
                    [] ~infinite /\ (isZero(f, a) \/ isZero(f, b)) -> Zero(f, differ)
                    [] OTHER -> hostMul(f, a, b)
    IN  setReg(core, inst.Rd, f, IF "Negate" \in flags THEN Negated(f, result) ELSE result)

\* A division by zero yields zero.
floatDivGeneric(core, inst, f) ==
    LET a == getReg(core, inst.Rn, f)
        b == getReg(core, inst.Rm, f)
        differ == sign(f, a) # sign(f, b)
        invalid == (isInfinity(f, a) /\ isInfinity(f, b)) \/ (isZero(f, a) /\ isZero(f, b))
    IN  setReg(core, inst.Rd, f,
               CASE invalid -> generateQNaN(f)
                 [] ~invalid /\ isZero(f, b) -> Zero(f, differ)
                 [] ~invalid /\ ~isZero(f, b) /\ isInfinity(f, a) -> Infinity(f, differ)
                 [] ~isZero(f, b) /\ ~isInfinity(f, a) /\ (isZero(f, a) \/ isInfinity(f, b)) -> Zero(f, differ)
                 [] OTHER -> hostDiv(f, a, b))

\* FMAXNM and FMINNM (CompareQNaNs) put the weakest value in the place of a
\* single quiet NaN.
Numeric(f, a, b, flags, weakest) ==
    IF "CompareQNaNs" \in flags /\ isQuietNaN(f, a) /\ ~isQuietNaN(f, b) THEN weakest ELSE a
floatMaxGeneric(core, inst, f, flags) ==
    LET x == getReg(core, inst.Rn, f)
        y == getReg(core, inst.Rm, f)
        a == Numeric(f, x, y, flags, Infinity(f, TRUE))
        b == Numeric(f, y, x, flags, Infinity(f, TRUE))
        result == IF hostLess(f, b, a) THEN a ELSE b
    IN  setReg(core, inst.Rd, f, IF isZero(f, result) /\ (~sign(f, a) \/ ~sign(f, b)) THEN Zero(f, FALSE) ELSE result)
floatMinGeneric(core, inst, f, flags) ==
    LET x == getReg(core, inst.Rn, f)
        y == getReg(core, inst.Rm, f)
        a == Numeric(f, x, y, flags, Infinity(f, FALSE))
        b == Numeric(f, y, x, flags, Infinity(f, FALSE))
        result == IF hostLess(f, a, b) THEN a ELSE b
    IN  setReg(core, inst.Rd, f, IF isZero(f, result) /\ (sign(f, a) \/ sign(f, b)) THEN Zero(f, TRUE) ELSE result)

floatAddGeneric(core, inst, f) ==
    LET a == getReg(core, inst.Rn, f)
        b == getReg(core, inst.Rm, f)
        infinite == isInfinity(f, a) /\ isInfinity(f, b)
    IN  setReg(core, inst.Rd, f, CASE infinite /\ a # b -> generateQNaN(f)
                                   [] (infinite \/ (isZero(f, a) /\ isZero(f, b))) /\ a = b -> a
                                   [] OTHER -> hostAdd(f, a, b))
\* Mutant: the special cases of floatAddGeneric.
MutantFloatSub(core, inst, f) ==
    LET a == getReg(core, inst.Rn, f)
        b == getReg(core, inst.Rm, f)
        infinite == isInfinity(f, a) /\ isInfinity(f, b)
    IN  setReg(core, inst.Rd, f, CASE infinite /\ a # b -> generateQNaN(f)
                                   [] (infinite \/ (isZero(f, a) /\ isZero(f, b))) /\ a = b -> a
                                   [] OTHER -> hostAdd(f, a, Negated(f, b)))
floatSubGeneric(core, inst, f) ==
    LET a == getReg(core, inst.Rn, f)
        b == getReg(core, inst.Rm, f)
        infinite == isInfinity(f, a) /\ isInfinity(f, b)
    IN  setReg(core, inst.Rd, f, CASE infinite /\ a = b -> generateQNaN(f)
                                   [] (infinite \/ (isZero(f, a) /\ isZero(f, b))) /\ a # b -> a
                                   [] OTHER -> hostAdd(f, a, Negated(f, b)))

\* An infinite product or addend is assigned to reg1, not to the result, which
\* keeps its initial zero (float.cpp:737 and 740).
floatMulAddGeneric(core, inst, f, flags) ==
    LET n == getReg(core, inst.Rn, f)
        a == IF "IsSub" \in flags THEN Negated(f, n) ELSE n
        b == getReg(core, inst.Rm, f)
        c == getReg(core, inst.Ra, f)
        infp == isInfinity(f, a) \/ isInfinity(f, b)
        zerop == isZero(f, a) \/ isZero(f, b)
        signp == sign(f, a) # sign(f, b)
        invalid == \/ (isInfinity(f, a) /\ isZero(f, b)) \/ (isZero(f, a) /\ isInfinity(f, b))
                   \/ (isInfinity(f, c) /\ infp /\ sign(f, c) # signp)
        result == CASE invalid -> generateQNaN(f)
                    [] ~invalid /\ (isInfinity(f, c) \/ infp) -> Zero(f, FALSE)
                    [] ~isInfinity(f, c) /\ ~infp /\ isZero(f, c) /\ zerop /\ sign(f, c) = signp -> c
                    [] OTHER -> hostAdd(f, c, hostMul(f, a, b))
    IN  setReg(core, inst.Rd, f, IF "Negate" \in flags THEN Negated(f, result) ELSE result)

floatCondSelectGeneric(core, inst, f) ==
    setReg(core, inst.Rd, f, getReg(core, IF testCondition(core.PSTATE, inst.cond) THEN inst.Rn ELSE inst.Rm, f))

\* Mutant: the bits are compared as unsigned numbers.
MutantFloatCompare(core, inst, f, flags) ==
    LET a == getReg(core, inst.Rn, f)
        b == IF "UseZero" \in flags THEN 0 ELSE getReg(core, inst.Rm, f)
    IN  [core EXCEPT !.PSTATE = IF isNaN(f, a) \/ isNaN(f, b) THEN [N |-> FALSE, Z |-> FALSE, C |-> TRUE, V |-> TRUE]
                                ELSE [N |-> a < b, Z |-> a = b, C |-> a >= b, V |-> FALSE]]

\* The order is that of bitsSigned, which is not that of two negative floats.
floatCompareGeneric(core, inst, f, flags) ==
    LET a == getReg(core, inst.Rn, f)
        b == IF "UseZero" \in flags THEN 0 ELSE getReg(core, inst.Rm, f)
        given == "Conditional" \in flags /\ ~testCondition(core.PSTATE, inst.cond)
        unordered == IF "GenerateExceptions" \in flags THEN isNaN(f, a) \/ isNaN(f, b)
                     ELSE isSignalingNaN(f, a) \/ isSignalingNaN(f, b)
        less == Signed(a, f.bits) < Signed(b, f.bits)
    IN  [core EXCEPT !.PSTATE =
            CASE given -> GivenFlags(inst)
              [] ~given /\ unordered -> [N |-> FALSE, Z |-> FALSE, C |-> TRUE, V |-> TRUE]
              [] OTHER -> [N |-> less, Z |-> a = b, C |-> ~less, V |-> FALSE]]

\* The destination keeps its sign unless the integer is negative, and a
\* negative 32-bit integer is negated as a 64-bit one (float.cpp:931).
floatConvIntToFloatGeneric(core, inst, is64, f, isSigned) ==
    LET source == Sized(is64, core.GPRegs[inst.Rn])
        negative == isSigned /\ testBit(source, Width(is64) - 1)
        val == IF negative THEN (Inv(source) + 1) % 2^XBits ELSE source
        top == CHOOSE i \in 0 .. XBits : val < 2^i /\ (i > 0 => val >= 2^(i - 1))
        aligned == IF top > Man(f) + 1 THEN Shr(val, top - Man(f) - 1) ELSE Shl(val, Man(f) + 1 - top)
        e == IF val = 0 THEN 0 ELSE Bias(f) + top - 1
    IN  setReg(core, inst.Rd, f, makeFloat(f, negative \/ sign(f, getReg(core, inst.Rd, f)), e, IF val = 0 THEN 0 ELSE aligned))

\* part: "single", "double" or "upper" (the high half of the V register)
floatIntMovGeneric(core, inst, part, toInt) ==
    CASE toInt -> SetReg(core, inst.Rd, IF part = "upper" THEN core.VRegs[inst.Rn][2] ELSE getReg(core, inst.Rn, Format(part = "double")))
      [] ~toInt /\ part = "upper" -> Upper(core, inst.Rd, core.GPRegs[inst.Rn])
      [] ~toInt /\ part # "upper" -> LET f == Format(part = "double") IN setReg(core, inst.Rd, f, core.GPRegs[inst.Rn] % 2^f.bits)

\* The set of possible cores: the cast of a NaN, an infinity or a number that
\* the integer type does not hold is undefined (the smallest integer, zero, or
\* the low bits).
floatConvertToIntGeneric(core, inst, is64, f, isSigned, mode) ==
    LET b == getReg(core, inst.Rn, f)
        n == Width(is64)
        int == Rounded(f, b, mode) \div 2^One(f)
        lowest == IF isSigned THEN -(2^(n - 1)) ELSE 0
        fits == ~isNaN(f, b) /\ ~isInfinity(f, b) /\ int >= lowest /\ int < lowest + 2^n
        lowBits == IF isSigned THEN Signed(int % 2^n, n) ELSE int % 2^n
    IN  {SetReg(core, inst.Rd, Unsigned(data)) : data \in IF fits THEN {int} ELSE {-(2^(n - 1)), 2^(n - 1), 0, lowBits}}

-----------------------------------------------------------------------------
\* registerFloatInstructions: the rows <<id, handler, arguments ...>>.  The
\* fixed-point conversions keep UNIMPLEMENTED_FUNC.
FormatRows == {<<"_single", Single>>, <<"_double", Double>>}
RoundRows == {<<"N", "Even">>, <<"A", "Away">>, <<"P", "PosInf">>, <<"M", "NegInf">>, <<"Z", "Zero">>}
WidthRows == {<<"_32", FALSE>>, <<"_64", TRUE>>}
SignRows == {<<"S", TRUE>>, <<"U", FALSE>>}

ConvertToIntRows ==
    {<<"FCVT" \o m[1] \o s[1] \o f[1] \o w[1] \o "_int", "floatConvertToInt", w[2], f[2], s[2], m[2]>> :
        m \in RoundRows, s \in SignRows, f \in FormatRows, w \in WidthRows}
IntToFloatRows ==
    {<<s[1] \o "CVTF" \o w[1] \o f[1] \o "_int", "floatConvIntToFloat", w[2], f[2], s[2]>> :
        s \in SignRows, f \in FormatRows, w \in WidthRows}
IntMovRows ==
    {<<"FMOV_single_32", "floatIntMov", "single", TRUE>>, <<"FMOV_32_single", "floatIntMov", "single", FALSE>>,
     <<"FMOV_double_64", "floatIntMov", "double", TRUE>>, <<"FMOV_64_double", "floatIntMov", "double", FALSE>>,
     <<"FMOV_top128_64", "floatIntMov", "upper", TRUE>>, <<"FMOV_64_top128", "floatIntMov", "upper", FALSE>>}
RoundingRows ==
    {<<"FRINT" \o m[1] \o f[1], "floatRound", f[2], m[2]>> :
        m \in RoundRows \cup {<<"X", "NegInf">>, <<"I", "NegInf">>}, f \in FormatRows}
\* FCVT_half_double reads its source as a double (float.cpp:432).
ConvertRows ==
    {<<"FCVT_single_double", "floatConvert", Single, Double>>, <<"FCVT_single_half", "floatConvert", Single, Half>>,
     <<"FCVT_double_single", "floatConvert", Double, Single>>, <<"FCVT_double_half", "floatConvert", Double, Half>>,
     <<"FCVT_half_single", "floatConvert", Half, Single>>, <<"FCVT_half_double", "floatConvert", Double, Double>>}
MoveRows == {<<n[1] \o f[1], "floatMove", f[2], n[2]>> :
                n \in {<<"FMOV_reg", {}>>, <<"FABS", {"Absolute"}>>, <<"FNEG", {"Negate"}>>}, f \in FormatRows}
CompareRows ==
    {<<n[1] \o f[1] \o n[2], "floatCompare", f[2], n[3]>> :
        n \in {<<"FCMP", "", {}>>, <<"FCMP", "_zero", {"UseZero"}>>, <<"FCMPE", "", {"GenerateExceptions"}>>,
               <<"FCMPE", "_zero", {"UseZero", "GenerateExceptions"}>>, <<"FCCMP", "", {"Conditional"}>>,
               <<"FCCMPE", "", {"Conditional", "GenerateExceptions"}>>}, f \in FormatRows}
ArithmeticRows ==
    {<<n[1] \o f[1], n[2], f[2], n[3]>> :
        n \in {<<"FMUL", "floatMul", {}>>, <<"FNMUL", "floatMul", {"Negate"}>>, <<"FDIV", "floatDiv", {}>>, <<"FADD", "floatAdd", {}>>,
               <<"FSUB", "floatSub", {}>>, <<"FMAX", "floatMax", {}>>, <<"FMAXNM", "floatMax", {"CompareQNaNs"}>>,
               <<"FMIN", "floatMin", {}>>, <<"FMINNM", "floatMin", {"CompareQNaNs"}>>, <<"FSQRT", "floatSqrt", {}>>,
               <<"FCSEL", "floatCondSelect", {}>>, <<"FMADD", "floatMulAdd", {}>>, <<"FMSUB", "floatMulAdd", {"IsSub"}>>,
               <<"FNMADD", "floatMulAdd", {"Negate"}>>, <<"FNMSUB", "floatMulAdd", {"Negate", "IsSub"}>>, <<"FMOV_imm", "fmovImm", {}>>},
        f \in FormatRows}

registerFloatInstructions ==
    ConvertToIntRows \cup IntToFloatRows \cup IntMovRows \cup RoundingRows \cup ConvertRows \cup MoveRows \cup CompareRows \cup ArithmeticRows
=============================================================================
