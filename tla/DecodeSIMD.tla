----------------------------- MODULE DecodeSIMD -----------------------------
(***************************************************************************)
(* decode/decodeSIMD.cpp: SIMD and cryptographic instructions.  Most of    *)
(* its functions switch on opcode inside a test of U (bit 29); an arm may  *)
(* further depend on size (bits 22..23, below 2 or not) or on Q (bit 30),  *)
(* which selects the form that works on the upper half.  Each half of such *)
(* a function is a table from opcode to the ids for size < 2 and size > 1. *)
(***************************************************************************)
EXTENDS BitUtils

Both(id) == <<id, id>>
Low(id) == <<id, INVALID>>
High(id) == <<INVALID, id>>

\* The arm of such a table for opcode and the word's size.
SizedArm(table, opcode, w) ==
    IF opcode \in DOMAIN table THEN table[opcode][IF bitRange(w, 22, 23) < 2 THEN 1 ELSE 2] ELSE INVALID

\* Arms whose upper-half form (Q set) has a 2 after the mnemonic.
Halves(table, opcode, w, suffix) ==
    IF opcode \in DOMAIN table THEN table[opcode] \o (IF testBit(w, 30) THEN "2" ELSE "") \o suffix ELSE INVALID

decodeCryptographicAES(w) ==
    IF bitRange(w, 22, 23) # 0 THEN INVALID
    ELSE ArmOf(4 :> "AESE" @@ 5 :> "AESD" @@ 6 :> "AESMC" @@ 7 :> "AESIMC", bitRange(w, 12, 16))

decodeCryptographic3Reg(w) ==
    IF bitRange(w, 22, 23) # 0 THEN INVALID
    ELSE Arm(<<"SHA1C", "SHA1P", "SHA1M", "SHA1SU0", "SHA256H", "SHA256H2", "SHA256SU1", INVALID>>, bitRange(w, 12, 14))

decodeCryptographic2Reg(w) ==
    IF bitRange(w, 22, 23) # 0 \/ bitRange(w, 12, 16) > 2 THEN INVALID
    ELSE Arm(<<"SHA1H", "SHA1SU1", "SHA256SU0">>, bitRange(w, 12, 16))

decodeSIMDScalarCopy(w) ==
    IF ~testBit(w, 29) /\ bitRange(w, 16, 19) # 0 /\ bitRange(w, 11, 15) = 0 THEN "DUP_element_scalar" ELSE INVALID

Scalar2RegSigned ==
    3 :> Both("SUQADD_scalar") @@ 7 :> Both("SQABS_scalar") @@ 8 :> Both("CMGT_scalar_zero") @@
    9 :> Both("CMEQ_scalar_zero") @@ 10 :> Both("CMLT_scalar_zero") @@ 11 :> Both("ABS_scalar") @@
    12 :> High("FCMGT_scalar_zero") @@ 13 :> High("FCMEQ_scalar_zero") @@ 14 :> High("FCMLT_scalar_zero") @@
    20 :> Both("SQXTN_scalar") @@ 26 :> <<"FCVTNS_scalar", "FCVTPS_scalar">> @@
    27 :> <<"FCVTMS_scalar", "FCVTZS_scalar_int">> @@ 28 :> Low("FCVTAS_scalar") @@
    29 :> <<"SCVTF_scalar_int", "FRECPE_scalar">> @@ 31 :> High("FRECPX_scalar")

Scalar2RegUnsigned ==
    3 :> Both("USQADD_scalar") @@ 7 :> Both("SQNEG_scalar") @@ 8 :> Both("CMGE_scalar_zero") @@
    9 :> Both("CMLE_scalar_zero") @@ 11 :> Both("NEG_scalar") @@ 12 :> High("FCMGE_scalar_zero") @@
    13 :> High("FCMLE_scalar_zero") @@ 18 :> Both("SQXTUN_scalar") @@ 20 :> Both("UQXTN_scalar") @@
    22 :> Low("FCVTXN_scalar") @@ 26 :> <<"FCVTNU_scalar", "FCVTPU_scalar">> @@
    27 :> <<"FCVTMU_scalar", "FCVTZU_scalar_int">> @@ 28 :> Low("FCVTAU_scalar") @@
    29 :> <<"UCVTF_scalar_int", "FRSQRTE_scalar">>

decodeSIMDScalar2Reg(w) ==
    SizedArm(IF testBit(w, 29) THEN Scalar2RegUnsigned ELSE Scalar2RegSigned, bitRange(w, 12, 16), w)

ScalarPairwise ==
    12 :> <<"FMAXNMP_scalar", "FMINNMP_scalar">> @@ 13 :> Low("FADDP_scalar") @@ 15 :> <<"FMAXP_scalar", "FMINP_scalar">>

decodeSIMDScalarPairwise(w) ==
    IF testBit(w, 29) THEN SizedArm(ScalarPairwise, bitRange(w, 12, 16), w)
    ELSE IF bitRange(w, 12, 16) = 27 THEN "ADDP_scalar" ELSE INVALID

decodeSIMDScalar3Different(w) ==
    IF testBit(w, 29) THEN INVALID
    ELSE ArmOf(9 :> "SQDMLAL_scalar" @@ 11 :> "SQDMLSL_scalar" @@ 13 :> "SQDMULL_scalar", bitRange(w, 12, 15))

Scalar3SameSigned ==
    1 :> Both("SQADD_scalar") @@ 5 :> Both("SQSUB_scalar") @@ 6 :> Both("CMGT_scalar_reg") @@ 7 :> Both("CMGE_scalar_reg") @@
    8 :> Both("SSHL_scalar") @@ 9 :> Both("SQSHL_scalar_reg") @@ 10 :> Both("SRSHL_scalar") @@ 11 :> Both("SQRSHL_scalar") @@
    16 :> Both("ADD_scalar") @@ 17 :> Both("CMTST_scalar") @@ 22 :> Both("SQDMULH_scalar") @@ 27 :> Low("FMULX_scalar") @@
    28 :> Low("FCMEQ_scalar_reg") @@ 31 :> <<"FRECPS_scalar", "FRSQRTS_scalar">>

Scalar3SameUnsigned ==
    1 :> Both("UQADD_scalar") @@ 5 :> Both("UQSUB_scalar") @@ 6 :> Both("CMHI_scalar_reg") @@ 7 :> Both("CMHS_scalar_reg") @@
    8 :> Both("USHL_scalar") @@ 9 :> Both("UQSHL_scalar_reg") @@ 10 :> Both("URSHL_scalar") @@ 11 :> Both("UQRSHL_scalar") @@
    16 :> Both("SUB_scalar") @@ 17 :> Both("CMEQ_scalar_reg") @@ 22 :> Both("SQRDMULH_scalar") @@ 26 :> High("FABD_scalar") @@
    28 :> <<"FCMGE_scalar_reg", "FCMGT_scalar_reg">> @@ 29 :> <<"FACGE_scalar", "FACGT_scalar">>

decodeSIMDScalar3Same(w) ==
    SizedArm(IF testBit(w, 29) THEN Scalar3SameUnsigned ELSE Scalar3SameSigned, bitRange(w, 11, 15), w)

ScalarShiftSigned ==
    0 :> "SSHR_scalar" @@ 2 :> "SSRA_scalar" @@ 4 :> "SRSHR_scalar" @@ 6 :> "SRSRA_scalar" @@ 10 :> "SHL_scalar" @@
    14 :> "SQSHL_scalar_imm" @@ 18 :> "SQSHRN_scalar" @@ 19 :> "SQRSHRN_scalar" @@ 28 :> "SCVTF_scalar_fixed" @@
    31 :> "FCVTZS_scalar_fixed"

ScalarShiftUnsigned ==
    0 :> "USHR_scalar" @@ 2 :> "USRA_scalar" @@ 4 :> "URSHR_scalar" @@ 6 :> "URSRA_scalar" @@ 8 :> "SRI_scalar" @@
    10 :> "SLI_scalar" @@ 12 :> "SQSHLU_scalar" @@ 14 :> "UQSHL_scalar_imm" @@ 16 :> "SQSHRUN_scalar" @@
    17 :> "SQRSHRUN_scalar" @@ 18 :> "UQSHRN_scalar" @@ 19 :> "UQRSHRN_scalar" @@ 28 :> "UCVTF_scalar_fixed" @@
    31 :> "FCVTZU_scalar_fixed"

decodeSIMDScalarShiftImmediate(w) ==
    IF bitRange(w, 19, 22) = 0 THEN INVALID
    ELSE ArmOf(IF testBit(w, 29) THEN ScalarShiftUnsigned ELSE ScalarShiftSigned, bitRange(w, 11, 15))

ScalarXIndexed ==
    1 :> High("FMLA_scalar_element") @@ 3 :> Both("SQDMLAL_scalar_element") @@ 5 :> High("FMLS_scalar_element") @@
    7 :> Both("SQDMLSL_scalar_element") @@ 9 :> High("FMUL_scalar_element") @@ 11 :> Both("SQDMULL_scalar_element") @@
    12 :> Both("SQDMULH_scalar_element") @@ 13 :> Both("SQRDMULH_scalar_element")

decodeSIMDScalarXIndexed(w) ==
    IF testBit(w, 29) THEN SizedArm(9 :> High("FMULX_scalar_element"), bitRange(w, 12, 15), w)
    ELSE SizedArm(ScalarXIndexed, bitRange(w, 12, 15), w)

decodeSIMDTableLookup(w) ==
    IF bitRange(w, 22, 23) # 0 THEN INVALID
    ELSE (IF testBit(w, 12) THEN "TBX" ELSE "TBL") \o
         Arm(<<"_one_reg", "_two_reg", "_three_reg", "_four_reg">>, bitRange(w, 13, 14))

decodeSIMDPermute(w) ==
    Arm(<<INVALID, "UZP1", "TRN1", "ZIP1", INVALID, "UZP2", "TRN2", "ZIP2">>, bitRange(w, 12, 14))

decodeSIMDExtract(w) == IF bitRange(w, 22, 23) = 0 THEN "EXT" ELSE INVALID

decodeSIMDCopy(w) ==
    LET Q == testBit(w, 30)
        imm4 == bitRange(w, 11, 14)
    IN  CASE bitRange(w, 16, 19) = 0 -> INVALID
          [] bitRange(w, 16, 19) # 0 /\ testBit(w, 29) -> IF Q THEN "INS_element" ELSE INVALID
          [] OTHER -> CASE imm4 = 0 -> "DUP_element_vec"
                        [] imm4 = 1 -> "DUP_general"
                        [] imm4 = 3 /\ Q -> "INS_general"
                        [] imm4 = 5 -> IF Q THEN "SMOV_64" ELSE "SMOV_32"
                        [] imm4 = 7 /\ ~Q -> "UMOV_32"
                        [] imm4 = 7 /\ Q /\ bitRange(w, 16, 19) = 8 -> "UMOV_64"
                        [] OTHER -> INVALID

SIMD2RegSigned ==
    0 :> Both("REV64_vec") @@ 1 :> Both("REV16_vec") @@ 2 :> Both("SADDLP_vec") @@ 3 :> Both("SUQADD_vec") @@
    4 :> Both("CLS_vec") @@ 5 :> Both("CNT_vec") @@ 6 :> Both("SADALP_vec") @@ 7 :> Both("SQABS_vec") @@
    8 :> Both("CMGT_vec_zero") @@ 9 :> Both("CMEQ_vec_zero") @@ 10 :> Both("CMLT_vec_zero") @@ 11 :> Both("ABS_vec") @@
    12 :> High("FCMGT_vec_zero") @@ 13 :> High("FCMEQ_vec_zero") @@ 14 :> High("FCMLT_vec_zero") @@ 15 :> High("FABS_vec") @@
    24 :> <<"FRINTN_vec", "FRINTP_vec">> @@ 25 :> <<"FRINTM_vec", "FRINTZ_vec">> @@ 26 :> <<"FCVTNS_vec", "FCVTPS_vec">> @@
    27 :> <<"FCVTMS_vec", "FCVTZS_vec_int">> @@ 28 :> <<"FCVTAS_vec", "URECPE_vec">> @@ 29 :> <<"SCVTF_vec_int", "FRECPE_vec">>

SIMD2RegUnsigned ==
    0 :> Both("REV32_vec") @@ 2 :> Both("UADDLP_vec") @@ 3 :> Both("USQADD_vec") @@ 4 :> Both("CLZ_vec") @@
    6 :> Both("UADALP_vec") @@ 7 :> Both("SQNEG_vec") @@ 8 :> Both("CMGE_vec_zero") @@ 9 :> Both("CMLE_vec_zero") @@
    11 :> Both("NEG_vec") @@ 12 :> High("FCMGE_vec_zero") @@ 13 :> High("FCMLE_vec_zero") @@ 15 :> High("FNEG_vec") @@
    24 :> Low("FRINTA_vec") @@ 25 :> <<"FRINTX_vec", "FRINTI_vec">> @@ 26 :> <<"FCVTNU_vec", "FCVTPU_vec">> @@
    27 :> <<"FCVTMU_vec", "FCVTZU_vec_int">> @@ 28 :> <<"FCVTAU_vec", "URSQRTE_vec">> @@ 29 :> <<"UCVTF_vec_int", "FRSQRTE_vec">> @@
    31 :> High("FSQRT_vec")

\* The narrowing and widening arms; the conversions need size < 2.
SIMD2RegHalves(w) ==
    LET opcode == bitRange(w, 12, 16)
        signed == 18 :> "XTN" @@ 20 :> "SQXTN" @@ 22 :> "FCVTN" @@ 23 :> "FCVTL"
        unsigned == 18 :> "SQXTUN" @@ 19 :> "SHLL" @@ 20 :> "UQXTN" @@ 22 :> "FCVTXN"
    IN  IF opcode \in {22, 23} /\ bitRange(w, 22, 23) > 1 THEN INVALID
        ELSE Halves(IF testBit(w, 29) THEN unsigned ELSE signed, opcode, w, "_vec")

decodeSIMD2Reg(w) ==
    LET opcode == bitRange(w, 12, 16) IN
    IF opcode \in {18, 19, 20, 22, 23} THEN SIMD2RegHalves(w)
    ELSE IF testBit(w, 29) /\ opcode = 5 THEN Arm(<<"NOT_vec", "RBIT_vec", INVALID, INVALID>>, bitRange(w, 22, 23))
    ELSE SizedArm(IF testBit(w, 29) THEN SIMD2RegUnsigned ELSE SIMD2RegSigned, opcode, w)

AcrossLanesSigned ==
    3 :> Both("SADDLV_vec") @@ 10 :> Both("SMAXV_vec") @@ 26 :> Both("SMINV_vec") @@ 27 :> Both("ADDV_vec")

AcrossLanesUnsigned ==
    3 :> Both("UADDLV_vec") @@ 10 :> Both("UMAXV_vec") @@ 12 :> <<"FMAXNMV_vec", "FMINNMV_vec">> @@
    15 :> <<"FMAXV_vec", "FMINV_vec">> @@ 26 :> Both("UMINV_vec")

decodeSIMDAcrossLanes(w) ==
    SizedArm(IF testBit(w, 29) THEN AcrossLanesUnsigned ELSE AcrossLanesSigned, bitRange(w, 12, 16), w)

\* Of the U = 0 arms 8..13 have the suffix _vec, of the U = 1 arms 8, 10, 12.
SIMD3DifferentSigned(w) ==
    LET opcode == bitRange(w, 12, 15)
        arms == <<"SADDL", "SADDW", "SSUBL", "SSUBW", "ADDHN", "SABAL", "SUBHN", "SABDL",
                  "SMLAL", "SQDMLAL", "SMLSL", "SQDMLSL", "SMULL", "SQDMULL", "PMULL">>
    IN  Halves(arms, opcode + 1, w, IF opcode \in 8..13 THEN "_vec" ELSE "")

SIMD3DifferentUnsigned(w) ==
    LET opcode == bitRange(w, 12, 15)
        arms == 0 :> "UADDL" @@ 1 :> "UADDW" @@ 2 :> "USUBL" @@ 3 :> "USUBW" @@ 4 :> "RADDHN" @@ 5 :> "UABAL" @@
                6 :> "RSUBHN" @@ 7 :> "UABDL" @@ 8 :> "UMLAL" @@ 10 :> "UMLSL" @@ 12 :> "UMULL"
    IN  Halves(arms, opcode, w, IF opcode >= 8 THEN "_vec" ELSE "")

decodeSIMD3Different(w) == IF testBit(w, 29) THEN SIMD3DifferentUnsigned(w) ELSE SIMD3DifferentSigned(w)

SIMD3SameSigned ==
    0 :> Both("SHADD_vec") @@ 1 :> Both("SQADD_vec") @@ 2 :> Both("SRHADD_vec") @@ 4 :> Both("SHSUB_vec") @@ 5 :> Both("SQSUB_vec") @@
    6 :> Both("CMGT_vec_reg") @@ 7 :> Both("CMGE_vec_reg") @@ 8 :> Both("SSHL_vec") @@ 9 :> Both("SQSHL_vec_reg") @@
    10 :> Both("SRSHL_vec") @@ 11 :> Both("SQRSHL_vec") @@ 12 :> Both("SMAX_vec") @@ 13 :> Both("SMIN_vec") @@ 14 :> Both("SABD_vec") @@
    15 :> Both("SABA_vec") @@ 16 :> Both("ADD_vec") @@ 17 :> Both("CMTST_vec") @@ 18 :> Both("MLA_vec") @@ 19 :> Both("MUL_vec") @@
    20 :> Both("SMAXP_vec") @@ 21 :> Both("SMINP_vec") @@ 22 :> Both("SQDMULH_vec") @@ 23 :> Both("ADDP_vec") @@
    24 :> <<"FMAXNM_vec", "FMINNM_vec">> @@ 25 :> <<"FMLA_vec", "FMLS_vec">> @@ 26 :> <<"FADD_vec", "FSUB_vec">> @@
    27 :> Low("FMULX_vec") @@ 28 :> Low("FCMEQ_vec_reg") @@ 30 :> <<"FMAX_vec", "FMIN_vec">> @@ 31 :> <<"FRECPS_vec", "FRSQRTS_vec">>

SIMD3SameUnsigned ==
    0 :> Both("UHADD_vec") @@ 1 :> Both("UQADD_vec") @@ 2 :> Both("URHADD_vec") @@ 4 :> Both("UHSUB_vec") @@ 5 :> Both("UQSUB_vec") @@
    6 :> Both("CMHI_vec_reg") @@ 7 :> Both("CMHS_vec_reg") @@ 8 :> Both("USHL_vec") @@ 9 :> Both("UQSHL_vec_reg") @@
    10 :> Both("URSHL_vec") @@ 11 :> Both("UQRSHL_vec") @@ 12 :> Both("UMAX_vec") @@ 13 :> Both("UMIN_vec") @@ 14 :> Both("UABD_vec") @@
    15 :> Both("UABA_vec") @@ 16 :> Both("SUB_vec") @@ 17 :> Both("CMEQ_vec_reg") @@ 18 :> Both("MLS_vec") @@ 19 :> Both("PMUL_vec") @@
    20 :> Both("UMAXP_vec") @@ 21 :> Both("UMINP_vec") @@ 22 :> Both("SQRDMULH_vec") @@ 24 :> <<"FMAXNMP_vec", "FMINNMP_vec">> @@
    26 :> <<"FADDP_vec", "FABD_vec">> @@ 27 :> Low("FMUL_vec") @@ 28 :> <<"FCMGE_vec_reg", "FCMGT_vec_reg">> @@
    29 :> <<"FACGE_vec", "FACGT_vec">> @@ 30 :> <<"FMAXP_vec", "FMINP_vec">> @@ 31 :> Low("FDIV_vec")

\* opcode 3 is the bitwise group, selected by all of size.
decodeSIMD3Same(w) ==
    LET opcode == bitRange(w, 11, 15)
        bitwise == IF testBit(w, 29) THEN <<"EOR_vec", "BSL_vec", "BIT_vec", "BIF_vec">>
                   ELSE <<"AND_vec", "BIC_vec_reg", "ORR_vec_reg", "ORN_vec">>
    IN  IF opcode = 3 THEN Arm(bitwise, bitRange(w, 22, 23))
        ELSE SizedArm(IF testBit(w, 29) THEN SIMD3SameUnsigned ELSE SIMD3SameSigned, opcode, w)

decodeSIMDModifiedImmediate(w) ==
    LET Q == testBit(w, 30)
        op == testBit(w, 29)
        cmode == bitRange(w, 12, 15)
    IN  CASE testBit(w, 11) -> INVALID
          [] ~testBit(w, 11) /\ cmode \in {14, 15} ->
               IF op THEN IF Q THEN Arm(<<"MOVI_64_vec", "FMOV_vec_imm_double">>, cmode - 14)
                               ELSE Arm(<<"MOVI_64_scalar", INVALID>>, cmode - 14)
                     ELSE Arm(<<"MOVI_8_imm", "FMOV_vec_imm_single">>, cmode - 14)
          [] ~testBit(w, 11) /\ cmode \in {12, 13} -> (IF op THEN "MVNI" ELSE "MOVI") \o "_32_shifting_ones"
          [] OTHER -> LET size == IF cmode < 8 THEN "_32" ELSE "_16" IN
                      IF cmode % 2 = 0 THEN (IF op THEN "MVNI" ELSE "MOVI") \o size \o "_shifted_imm"
                                       ELSE (IF op THEN "BIC" ELSE "ORR") \o "_vec_imm" \o size

ShiftSigned ==
    0 :> "SSHR_vec" @@ 2 :> "SSRA_vec" @@ 4 :> "SRSHR_vec" @@ 6 :> "SRSRA_vec" @@ 10 :> "SHL_vec" @@ 14 :> "SQSHL_vec_imm" @@
    28 :> "SCVTF_vec_fixed" @@ 31 :> "FCVTZS_vec_fixed"

ShiftUnsigned ==
    0 :> "USHR_vec" @@ 2 :> "USRA_vec" @@ 4 :> "URSHR_vec" @@ 6 :> "URSRA_vec" @@ 8 :> "SRI_vec" @@ 10 :> "SLI_vec" @@
    12 :> "SQSHLU_vec" @@ 14 :> "UQSHL_vec_imm" @@ 28 :> "UCVTF_vec_fixed" @@ 31 :> "FCVTZU_vec_fixed"

\* Opcodes 16..20 narrow or widen.
decodeSIMDShiftImmediate(w) ==
    LET opcode == bitRange(w, 11, 15)
        halves == IF testBit(w, 29) THEN <<"SQSHRUN", "SQRSHRUN", "UQSHRN", "UQRSHRN", "USHLL">>
                  ELSE <<"SHRN", "RSHRN", "SQSHRN", "SQRSHRN", "SSHLL">>
    IN  IF opcode \in 16..20 THEN Halves(halves, opcode - 15, w, "_vec")
        ELSE ArmOf(IF testBit(w, 29) THEN ShiftUnsigned ELSE ShiftSigned, opcode)

VectorXIndexedSigned(w) ==
    LET opcode == bitRange(w, 12, 15)
        halves == 2 :> "SMLAL" @@ 3 :> "SQDMLAL" @@ 6 :> "SMLSL" @@ 7 :> "SQDMLSL" @@ 10 :> "SMULL" @@ 11 :> "SQDMULL"
        arms == 1 :> High("FMLA_vec_element") @@ 5 :> High("FMLS_vec_element") @@ 8 :> Both("MUL_vec_element") @@
                9 :> High("FMUL_vec_element") @@ 12 :> Both("SQDMULH_vec_element") @@ 13 :> Both("SQRDMULH_vec_element")
    IN  IF opcode \in DOMAIN halves THEN Halves(halves, opcode, w, "_vec_element") ELSE SizedArm(arms, opcode, w)

VectorXIndexedUnsigned(w) ==
    LET opcode == bitRange(w, 12, 15)
        halves == 2 :> "UMLAL" @@ 6 :> "UMLSL" @@ 10 :> "UMULL"
        arms == 0 :> Both("MLA_vec_element") @@ 4 :> Both("MLS_vec_element") @@ 9 :> High("FMULX_vec_element")
    IN  IF opcode \in DOMAIN halves THEN Halves(halves, opcode, w, "_vec_element") ELSE SizedArm(arms, opcode, w)

decodeSIMDVectorXIndexed(w) == IF testBit(w, 29) THEN VectorXIndexedUnsigned(w) ELSE VectorXIndexedSigned(w)

\* op0 = 01x1: scalar forms and cryptography; op0 = 0xx0: vectors.  The
\* order of the tests is the code's: cryptography comes before the scalars.
SIMDScalar(w) ==
    LET op1 == bitRange(w, 23, 24)
        op4 == bitRange(w, 10, 11)
        op23 == bitRange(w, 17, 21)     \* the low bits of op2, then op3
    IN  CASE op1 >= 2 -> IF ~testBit(w, 10) THEN decodeSIMDScalarXIndexed(w)
                         ELSE IF op1 = 2 THEN decodeSIMDScalarShiftImmediate(w) ELSE INVALID
          [] op1 < 2 /\ testBit(w, 21) -> IF testBit(w, 10) THEN decodeSIMDScalar3Same(w)
                                          ELSE IF op4 = 0 THEN decodeSIMDScalar3Different(w)
                                          ELSE IF op23 = 16 THEN decodeSIMDScalar2Reg(w)
                                          ELSE IF op23 = 24 THEN decodeSIMDScalarPairwise(w)
                                          ELSE IF op23 = 20 /\ ~testBit(w, 29) THEN decodeCryptographic2Reg(w)
                                          ELSE INVALID
          [] OTHER -> IF testBit(w, 15) THEN INVALID
                      ELSE IF op4 = 0 THEN IF testBit(w, 29) THEN INVALID ELSE decodeCryptographic3Reg(w)
                      ELSE IF testBit(w, 10) /\ op1 = 0 /\ ~testBit(w, 22) THEN decodeSIMDScalarCopy(w)
                      ELSE INVALID

SIMDVector(w) ==
    LET op1 == bitRange(w, 23, 24)
        op4 == bitRange(w, 10, 11)
        op23 == bitRange(w, 17, 21)
    IN  CASE op1 >= 2 -> IF ~testBit(w, 10) THEN decodeSIMDVectorXIndexed(w)
                         ELSE IF op1 = 3 THEN INVALID
                         ELSE IF bitRange(w, 19, 22) = 0 THEN decodeSIMDModifiedImmediate(w)
                         ELSE decodeSIMDShiftImmediate(w)
          [] op1 < 2 /\ testBit(w, 21) -> IF testBit(w, 10) THEN decodeSIMD3Same(w)
                                          ELSE IF op4 = 0 THEN decodeSIMD3Different(w)
                                          ELSE IF op23 = 16 THEN decodeSIMD2Reg(w)
                                          ELSE IF op23 = 24 THEN decodeSIMDAcrossLanes(w)
                                          ELSE IF op23 = 20 /\ bitRange(w, 28, 31) = 4 THEN decodeCryptographicAES(w)
                                          ELSE INVALID
          [] OTHER -> IF testBit(w, 15) THEN INVALID
                      ELSE IF testBit(w, 10) THEN IF op1 = 0 /\ ~testBit(w, 22) THEN decodeSIMDCopy(w) ELSE INVALID
                      ELSE IF testBit(w, 29) THEN decodeSIMDExtract(w)
                      ELSE IF op4 = 0 THEN decodeSIMDTableLookup(w) ELSE decodeSIMDPermute(w)

decodeSIMD(w) == IF testBit(w, 28) THEN SIMDScalar(w) ELSE SIMDVector(w)
=============================================================================
