---------------------------- MODULE DecodeFloat ----------------------------
(***************************************************************************)
(* decode/decodeFloat.cpp: scalar floating point.  The field "type" (bits  *)
(* 22..23) is the precision; M (bit 31) and S (bit 29) must be clear.      *)
(***************************************************************************)
EXTENDS BitUtils

type(w) == bitRange(w, 22, 23)

\* The precision named by an id; type 0 is single and type 1 is double.
Precision(w) == IF type(w) = 0 THEN "_single" ELSE "_double"

\* The early return of every function that accepts two precisions only.
NotSingleOrDouble(w) == testBit(w, 31) \/ testBit(w, 29) \/ type(w) > 1

\* FCVTxx reads a float and writes an integer, xCVTF the other way round.
ToInt(w, op) == op \o Precision(w) \o Sf(w)
FromInt(w, op) == op \o Sf(w) \o Precision(w)

decodeConvertFloatAndFixed(w) ==
    LET rmode == bitRange(w, 19, 20)
        opcode == bitRange(w, 16, 18)
    IN  IF testBit(w, 29) \/ type(w) > 1 THEN INVALID
        ELSE CASE rmode = 0 /\ opcode = 2 -> FromInt(w, "SCVTF") \o "_fixed"
               [] rmode = 0 /\ opcode = 3 -> FromInt(w, "UCVTF") \o "_fixed"
               [] rmode = 3 /\ opcode = 0 -> ToInt(w, "FCVTZS") \o "_fixed"
               [] rmode = 3 /\ opcode = 1 -> ToInt(w, "FCVTZU") \o "_fixed"
               [] OTHER -> INVALID

\* rmode 0 of the conversions with an integer register, type 0 or 1: opcodes
\* 6 and 7 move the bits unchanged and need registers of one size (mayMove).
ConvertTiesAndMove(w, mayMove) ==
    LET opcode == bitRange(w, 16, 18) IN
    CASE opcode \in {0, 1} -> ToInt(w, Arm(<<"FCVTNS", "FCVTNU">>, opcode)) \o "_int"
      [] opcode \in {2, 3} -> FromInt(w, Arm(<<"SCVTF", "UCVTF">>, opcode - 2)) \o "_int"
      [] opcode \in {4, 5} -> ToInt(w, Arm(<<"FCVTAS", "FCVTAU">>, opcode - 4)) \o "_int"
      [] opcode = 6 /\ mayMove -> ToInt(w, "FMOV")
      [] opcode = 7 /\ mayMove -> FromInt(w, "FMOV")
      [] OTHER -> INVALID

\* rmode 1, 2 and 3: round towards plus infinity, minus infinity and zero.
ConvertDirected(w) ==
    LET op == <<"FCVTP", "FCVTM", "FCVTZ">>[bitRange(w, 19, 20)] IN
    CASE bitRange(w, 16, 18) = 0 -> ToInt(w, op \o "S") \o "_int"
      [] bitRange(w, 16, 18) = 1 -> ToInt(w, op \o "U") \o "_int"
      [] OTHER -> INVALID

\* sf = 0
ConvertFloatAnd32(w) ==
    CASE type(w) > 1 -> INVALID
      [] type(w) <= 1 /\ bitRange(w, 19, 20) = 0 -> ConvertTiesAndMove(w, type(w) = 0)
      [] OTHER -> ConvertDirected(w)

\* sf = 1; type 2 moves the upper half of a 128-bit register.
ConvertFloatAnd64(w) ==
    CASE type(w) = 2 /\ bitRange(w, 16, 20) = 14 -> "FMOV_top128_64"
      [] type(w) = 2 /\ bitRange(w, 16, 20) = 15 -> "FMOV_64_top128"
      [] type(w) <= 1 /\ bitRange(w, 19, 20) = 0 -> ConvertTiesAndMove(w, type(w) = 1)
      [] type(w) <= 1 /\ bitRange(w, 19, 20) # 0 -> ConvertDirected(w)
      [] OTHER -> INVALID

decodeConvertFloatAndInt(w) ==
    IF testBit(w, 29) THEN INVALID
    ELSE IF testBit(w, 31) THEN ConvertFloatAnd64(w) ELSE ConvertFloatAnd32(w)

decodeFloatDP1Source(w) ==
    LET opcode == bitRange(w, 15, 20)
        single == <<"FMOV_reg", "FABS", "FNEG", "FSQRT", INVALID, "FCVT_single_double", INVALID, "FCVT_single_half",
                    "FRINTN", "FRINTP", "FRINTM", "FRINTZ", "FRINTA", INVALID, "FRINTX", "FRINTI">>
        double == [single EXCEPT ![5] = "FCVT_double_single", ![6] = INVALID, ![8] = "FCVT_double_half"]
        half == 4 :> "FCVT_half_single" @@ 5 :> "FCVT_half_double"
        id == Arm(IF type(w) = 0 THEN single ELSE double, opcode)
    IN  IF testBit(w, 31) \/ testBit(w, 29) \/ type(w) = 2 \/ opcode > 15 THEN INVALID
        ELSE IF type(w) = 3 THEN ArmOf(half, opcode)
        ELSE IF opcode \in 4..7 THEN id ELSE Suffixed(id, Precision(w))

decodeFloatCmp(w) ==
    LET opcode2 == bitRange(w, 0, 4) IN
    IF NotSingleOrDouble(w) \/ bitRange(w, 14, 15) # 0 \/ opcode2 % 8 # 0 THEN INVALID
    ELSE (IF opcode2 >= 16 THEN "FCMPE" ELSE "FCMP") \o Precision(w) \o (IF testBit(w, 3) THEN "_zero" ELSE "")

decodeFloatImm(w) ==
    IF NotSingleOrDouble(w) \/ bitRange(w, 5, 9) # 0 THEN INVALID
    ELSE "FMOV_imm" \o Precision(w)

decodeFloatCondCmp(w) ==
    IF NotSingleOrDouble(w) THEN INVALID
    ELSE (IF testBit(w, 4) THEN "FCCMPE" ELSE "FCCMP") \o Precision(w)

decodeFloatDP2Source(w) ==
    IF NotSingleOrDouble(w) \/ bitRange(w, 12, 15) > 8 THEN INVALID
    ELSE Arm(<<"FMUL", "FDIV", "FADD", "FSUB", "FMAX", "FMIN", "FMAXNM", "FMINNM", "FNMUL">>,
             bitRange(w, 12, 15)) \o Precision(w)

decodeFloatCondSel(w) ==
    IF NotSingleOrDouble(w) THEN INVALID ELSE "FCSEL" \o Precision(w)

decodeFloatDP3Source(w) ==
    IF NotSingleOrDouble(w) THEN INVALID
    ELSE Arm(<<"FMADD", "FMSUB", "FNMADD", "FNMSUB">>, 2 * bitRange(w, 21, 21) + bitRange(w, 15, 15)) \o Precision(w)

\* Below op1 = 2 with bit 21 set the lowest set bit of op4 (bits 10..15)
\* selects the group; bits 10 and 11 together are a conditional select.
decodeFloat(w) ==
    CASE testBit(w, 24) -> decodeFloatDP3Source(w)
      [] ~testBit(w, 24) /\ ~testBit(w, 21) -> decodeConvertFloatAndFixed(w)
      [] OTHER -> CASE bitRange(w, 10, 11) = 3 -> decodeFloatCondSel(w)
                    [] bitRange(w, 10, 11) = 1 -> decodeFloatCondCmp(w)
                    [] bitRange(w, 10, 11) = 2 -> decodeFloatDP2Source(w)
                    [] bitRange(w, 10, 12) = 4 -> decodeFloatImm(w)
                    [] bitRange(w, 10, 13) = 8 -> decodeFloatCmp(w)
                    [] bitRange(w, 10, 14) = 16 -> decodeFloatDP1Source(w)
                    [] bitRange(w, 10, 15) = 32 -> INVALID
                    [] bitRange(w, 10, 15) = 0 -> decodeConvertFloatAndInt(w)
=============================================================================
