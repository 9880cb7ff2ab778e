---------------------------- MODULE DecodeDPReg ----------------------------
(***************************************************************************)
(* decode/decodeDPReg.cpp: data processing with register operands.         *)
(***************************************************************************)
EXTENDS BitUtils

\* The operation that bits 29..30 select among the add/subtract forms.
AddSub(w) == Arm(<<"ADD", "ADDS", "SUB", "SUBS">>, bitRange(w, 29, 30)) \o Sf(w)

\* CRC32X and CRC32CX exist for 64-bit operands only, the other CRC
\* instructions for 32-bit operands only.
decodeDP2Source(w) ==
    LET opcode == bitRange(w, 10, 15)
        sized == 2 :> "UDIV" @@ 3 :> "SDIV" @@ 8 :> "LSLV" @@ 9 :> "LSRV" @@ 10 :> "ASRV" @@ 11 :> "RORV"
        crc == <<"B", "H", "W", "X", "CB", "CH", "CW", "CX">>
    IN  IF testBit(w, 29) THEN INVALID
        ELSE IF opcode \in 16..23
             THEN IF testBit(w, 31) = (opcode \in {19, 23}) THEN "CRC32" \o Arm(crc, opcode - 16) ELSE INVALID
        ELSE Suffixed(ArmOf(sized, opcode), Sf(w))

decodeDP1Source(w) ==
    LET opcode == bitRange(w, 10, 15) IN
    IF opcode > 5 \/ bitRange(w, 16, 20) # 0 \/ testBit(w, 29) THEN INVALID
    ELSE IF testBit(w, 31)
         THEN Arm(<<"RBIT_64", "REV16_64", "REV32_64", "REV_64", "CLZ_64", "CLS_64">>, opcode)
         ELSE Arm(<<"RBIT_32", "REV16_32", "REV_32", INVALID, "CLZ_32", "CLS_32">>, opcode)

decodeLogicalReg(w) ==
    LET op == IF testBit(w, 21) THEN <<"BIC", "ORN", "EON", "BICS">> ELSE <<"AND", "ORR", "EOR", "ANDS">>
    IN  IF ~testBit(w, 31) /\ bitRange(w, 10, 15) > 31 THEN INVALID
        ELSE Arm(op, bitRange(w, 29, 30)) \o Sf(w) \o "_shifted"

decodeAddSubShifted(w) ==
    IF bitRange(w, 22, 23) = 3 \/ (testBit(w, 15) /\ ~testBit(w, 31)) THEN INVALID
    ELSE AddSub(w) \o "_shifted"

decodeAddSubExtended(w) ==
    IF bitRange(w, 22, 23) # 0 \/ bitRange(w, 10, 12) > 4 THEN INVALID
    ELSE AddSub(w) \o "_extended"

decodeAddSubCarry(w) ==
    IF bitRange(w, 10, 15) # 0 THEN INVALID
    ELSE Arm(<<"ADC", "ADCS", "SBC", "SBCS">>, bitRange(w, 29, 30)) \o Sf(w)

\* decodeCondCmpReg and decodeCondCmpImm differ in the suffix only.
CondCmp(w, suffix) ==
    IF testBit(w, 4) \/ testBit(w, 10) \/ ~testBit(w, 29) THEN INVALID
    ELSE (IF testBit(w, 30) THEN "CCMP" ELSE "CCMN") \o Sf(w) \o suffix

decodeCondCmpReg(w) == CondCmp(w, "_reg")

decodeCondCmpImm(w) == CondCmp(w, "_imm")

decodeCondSel(w) ==
    LET op2 == bitRange(w, 10, 11)
        op == IF testBit(w, 30) THEN <<"CSINV", "CSNEG">> ELSE <<"CSEL", "CSINC">>
    IN  IF testBit(w, 29) \/ op2 > 1 THEN INVALID ELSE Arm(op, op2) \o Sf(w)

decodeDP3Source(w) ==
    LET op31 == bitRange(w, 21, 23)
        long == 1 :> <<"SMADDL", "SMSUBL">> @@ 2 :> <<"SMULH", INVALID>>
             @@ 5 :> <<"UMADDL", "UMSUBL">> @@ 6 :> <<"UMULH", INVALID>>
    IN  IF bitRange(w, 29, 30) # 0 THEN INVALID
        ELSE IF op31 = 0 THEN Arm(<<"MADD", "MSUB">>, bitRange(w, 15, 15)) \o Sf(w)
        ELSE IF ~testBit(w, 31) \/ op31 \notin DOMAIN long THEN INVALID
        ELSE Arm(long[op31], bitRange(w, 15, 15))

decodeDPReg(w) ==
    LET op2 == bitRange(w, 21, 24) IN
    IF testBit(w, 28)
    THEN CASE op2 = 0 -> decodeAddSubCarry(w)
           [] op2 = 2 -> IF testBit(w, 11) THEN decodeCondCmpImm(w) ELSE decodeCondCmpReg(w)
           [] op2 = 4 -> decodeCondSel(w)
           [] op2 = 6 -> IF testBit(w, 30) THEN decodeDP1Source(w) ELSE decodeDP2Source(w)
           [] op2 >= 8 -> decodeDP3Source(w)
           [] OTHER -> INVALID
    ELSE CASE op2 < 8 -> decodeLogicalReg(w)
           [] op2 \in {8, 10, 12, 14} -> decodeAddSubShifted(w)
           [] op2 \in {9, 11, 13, 15} -> decodeAddSubExtended(w)
=============================================================================
