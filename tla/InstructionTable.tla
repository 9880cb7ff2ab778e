-------------------------- MODULE InstructionTable --------------------------
(***************************************************************************)
(* inc/instructions.inl: the table that decode2 scans, one definition for  *)
(* each of its sections.  A row INST(id, name, args, mask, match, ...) is  *)
(* kept as the fields that its mask selects and their values in match, and *)
(* the two lists of masks of which the word must not have all bits clear   *)
(* and must not have all bits set, each mask as the set of its bits.       *)
(***************************************************************************)
EXTENDS Integers, Sequences

\* Rows that share their mask: fixed holds the fields <<low bit, high bit,
\* value>> they all have, vary the fields <<low bit, high bit>> they differ
\* in, and rows their ids, each followed by its values of those fields.
RowsExcept(fixed, vary, rows, notAllClear, notAllSet) ==
    {[id |-> r[1],
      fields |-> fixed \cup {<<vary[i][1], vary[i][2], r[i + 1]>> : i \in DOMAIN vary},
      notAllClear |-> notAllClear, notAllSet |-> notAllSet] : r \in rows}

Rows(fixed, vary, rows) == RowsExcept(fixed, vary, rows, {}, {})

\* Branch
InstBranch ==
    Rows({<<24, 31, 84>>, <<4, 4, 0>>}, <<>>, {<<"B_cond">>})
    \cup Rows({<<23, 31, 428>>, <<10, 20, 1984>>, <<0, 4, 0>>}, <<<<21, 22>>>>, {<<"BR", 0>>, <<"BLR", 1>>,
         <<"RET", 2>>})
    \cup Rows({<<22, 31, 858>>, <<0, 20, 2032608>>}, <<<<21, 21>>>>, {<<"ERET", 0>>, <<"DRPS", 1>>})
    \cup Rows({<<26, 30, 5>>}, <<<<31, 31>>>>, {<<"B", 0>>, <<"BL", 1>>})
    \cup Rows({<<25, 30, 26>>}, <<<<31, 31>>, <<24, 24>>>>, {<<"CBZ_32", 0, 0>>, <<"CBNZ_32", 0, 1>>,
         <<"CBZ_64", 1, 0>>, <<"CBNZ_64", 1, 1>>})
    \cup Rows({<<25, 30, 27>>}, <<<<24, 24>>>>, {<<"TBZ", 0>>, <<"TBNZ", 1>>})

\* Exception Generating
InstExceptionGenerating ==
    Rows({<<24, 31, 212>>, <<2, 4, 0>>}, <<<<21, 23>>, <<0, 1>>>>, {<<"SVC", 0, 1>>, <<"HVC", 0, 2>>,
         <<"SMC", 0, 3>>, <<"BRK", 1, 0>>, <<"HLT", 2, 0>>, <<"DCPS1", 5, 1>>, <<"DCPS2", 5, 2>>, <<"DCPS3", 5, 3>>})

\* System
InstSystem ==
    Rows({<<19, 31, 6816>>, <<12, 15, 4>>, <<0, 4, 31>>}, <<>>, {<<"MSR_imm">>})
    \cup Rows({<<20, 31, 3409>>}, <<>>, {<<"MSR_reg">>})
    \cup Rows({<<12, 31, 872498>>, <<0, 4, 31>>}, <<>>, {<<"HINT">>})

\* System (the rows after HINT)
InstSystemSpecific ==
    Rows({<<8, 31, 13959968>>, <<0, 4, 31>>}, <<<<5, 7>>>>, {<<"NOP", 0>>, <<"YIELD", 1>>, <<"WFE", 2>>,
         <<"WFI", 3>>, <<"SEV", 4>>, <<"SEVL", 5>>})
    \cup Rows({<<12, 31, 872499>>, <<0, 4, 31>>}, <<<<5, 7>>>>, {<<"CLREX", 2>>, <<"DSB", 4>>, <<"DMB", 5>>,
         <<"ISB", 6>>})
    \cup Rows({<<22, 31, 852>>, <<19, 20, 1>>}, <<<<21, 21>>>>, {<<"SYS", 0>>, <<"SYSL", 1>>})
    \cup Rows({<<20, 31, 3411>>}, <<>>, {<<"MRS">>})

\* PC-rel. addressing
InstPCRel ==
    Rows({<<24, 28, 16>>}, <<<<31, 31>>>>, {<<"ADR", 0>>, <<"ADRP", 1>>})

\* Add/subtract (immediate)
InstAddSubImm ==
    Rows({<<23, 28, 34>>}, <<<<29, 31>>>>, {<<"ADD_32_imm", 0>>, <<"ADDS_32_imm", 1>>, <<"SUB_32_imm", 2>>,
         <<"SUBS_32_imm", 3>>, <<"ADD_64_imm", 4>>, <<"ADDS_64_imm", 5>>, <<"SUB_64_imm", 6>>, <<"SUBS_64_imm", 7>>})

\* Logical (immediate)
InstLogicalImm ==
    Rows({<<31, 31, 0>>, <<22, 28, 72>>}, <<<<29, 30>>>>, {<<"AND_32_imm", 0>>, <<"ORR_32_imm", 1>>,
         <<"EOR_32_imm", 2>>, <<"ANDS_32_imm", 3>>})
    \cup Rows({<<31, 31, 1>>, <<23, 28, 36>>}, <<<<29, 30>>>>, {<<"AND_64_imm", 0>>, <<"ORR_64_imm", 1>>,
         <<"EOR_64_imm", 2>>, <<"ANDS_64_imm", 3>>})

\* Move wide (immediate)
InstMoveWide ==
    Rows({<<31, 31, 0>>, <<22, 28, 74>>}, <<<<29, 30>>>>, {<<"MOVN_32", 0>>, <<"MOVZ_32", 2>>, <<"MOVK_32", 3>>})
    \cup Rows({<<31, 31, 1>>, <<23, 28, 37>>}, <<<<29, 30>>>>, {<<"MOVN_64", 0>>, <<"MOVZ_64", 2>>, <<"MOVK_64", 3>>})

\* Bitfield
InstBitfield ==
    Rows({<<31, 31, 0>>, <<21, 28, 152>>, <<15, 15, 0>>}, <<<<29, 30>>>>, {<<"SBFM_32", 0>>, <<"BFM_32", 1>>,
         <<"UBFM_32", 2>>})
    \cup Rows({<<31, 31, 1>>, <<22, 28, 77>>}, <<<<29, 30>>>>, {<<"SBFM_64", 0>>, <<"BFM_64", 1>>, <<"UBFM_64", 2>>})

\* Extract
InstExtract ==
    Rows({<<21, 31, 156>>, <<15, 15, 0>>}, <<>>, {<<"EXTR_32">>})
    \cup Rows({<<21, 31, 1182>>}, <<>>, {<<"EXTR_64">>})

\* Data-processing (2 source)
InstDP2Source ==
    Rows({<<21, 30, 214>>, <<15, 15, 0>>}, <<<<31, 31>>, <<10, 14>>>>, {<<"UDIV_32", 0, 2>>,
         <<"SDIV_32", 0, 3>>, <<"LSLV_32", 0, 8>>, <<"LSRV_32", 0, 9>>, <<"ASRV_32", 0, 10>>, <<"RORV_32", 0, 11>>,
         <<"UDIV_64", 1, 2>>, <<"SDIV_64", 1, 3>>, <<"LSLV_64", 1, 8>>, <<"LSRV_64", 1, 9>>, <<"ASRV_64", 1, 10>>,
         <<"RORV_64", 1, 11>>, <<"CRC32B", 0, 16>>, <<"CRC32H", 0, 17>>, <<"CRC32W", 0, 18>>, <<"CRC32X", 1, 19>>,
         <<"CRC32CB", 0, 20>>, <<"CRC32CH", 0, 21>>, <<"CRC32CW", 0, 22>>, <<"CRC32CX", 1, 23>>})

\* Data-processing (1 source)
InstDP1Source ==
    Rows({<<13, 30, 185856>>}, <<<<31, 31>>, <<10, 12>>>>, {<<"RBIT_32", 0, 0>>, <<"REV16_32", 0, 1>>,
         <<"REV_32", 0, 2>>, <<"CLZ_32", 0, 4>>, <<"CLS_32", 0, 5>>, <<"RBIT_64", 1, 0>>, <<"REV16_64", 1, 1>>,
         <<"REV32_64", 1, 2>>, <<"REV_64", 1, 3>>, <<"CLZ_64", 1, 4>>, <<"CLS_64", 1, 5>>})

\* Logical (shifted register)
InstLogicalReg ==
    Rows({<<31, 31, 0>>, <<24, 28, 10>>, <<15, 15, 0>>}, <<<<29, 30>>, <<21, 21>>>>, {
         <<"AND_32_shifted", 0, 0>>, <<"BIC_32_shifted", 0, 1>>, <<"ORR_32_shifted", 1, 0>>,
         <<"ORN_32_shifted", 1, 1>>, <<"EOR_32_shifted", 2, 0>>, <<"EON_32_shifted", 2, 1>>,
         <<"ANDS_32_shifted", 3, 0>>, <<"BICS_32_shifted", 3, 1>>})
    \cup Rows({<<31, 31, 1>>, <<24, 28, 10>>}, <<<<29, 30>>, <<21, 21>>>>, {<<"AND_64_shifted", 0, 0>>,
         <<"BIC_64_shifted", 0, 1>>, <<"ORR_64_shifted", 1, 0>>, <<"ORN_64_shifted", 1, 1>>,
         <<"EOR_64_shifted", 2, 0>>, <<"EON_64_shifted", 2, 1>>, <<"ANDS_64_shifted", 3, 0>>,
         <<"BICS_64_shifted", 3, 1>>})

\* Add/subtract (shifted register)
InstAddSubShifted ==
    RowsExcept({<<31, 31, 0>>, <<24, 28, 11>>, <<21, 21, 0>>, <<15, 15, 0>>}, <<<<29, 30>>>>, {
         <<"ADD_32_shifted", 0>>, <<"ADDS_32_shifted", 1>>, <<"SUB_32_shifted", 2>>, <<"SUBS_32_shifted", 3>>},
         {}, {{22, 23}})
    \cup RowsExcept({<<31, 31, 1>>, <<24, 28, 11>>, <<21, 21, 0>>}, <<<<29, 30>>>>, {<<"ADD_64_shifted", 0>>,
         <<"ADDS_64_shifted", 1>>, <<"SUB_64_shifted", 2>>, <<"SUBS_64_shifted", 3>>}, {}, {{22, 23}})

\* Add/subtract (extended register)
InstAddSubExtended ==
    RowsExcept({<<21, 28, 89>>}, <<<<29, 31>>>>, {<<"ADD_32_extended", 0>>, <<"ADDS_32_extended", 1>>,
         <<"SUB_32_extended", 2>>, <<"SUBS_32_extended", 3>>, <<"ADD_64_extended", 4>>, <<"ADDS_64_extended", 5>>,
         <<"SUB_64_extended", 6>>, <<"SUBS_64_extended", 7>>}, {}, {{11, 12}, {10, 12}})

\* Add/subtract (with carry)
InstAddSubCarry ==
    Rows({<<21, 28, 208>>, <<10, 15, 0>>}, <<<<29, 31>>>>, {<<"ADC_32", 0>>, <<"ADCS_32", 1>>, <<"SBC_32", 2>>,
         <<"SBCS_32", 3>>, <<"ADC_64", 4>>, <<"ADCS_64", 5>>, <<"SBC_64", 6>>, <<"SBCS_64", 7>>})

\* Conditional compare (register)
InstCondCmpReg ==
    Rows({<<21, 29, 466>>, <<10, 11, 0>>, <<4, 4, 0>>}, <<<<30, 31>>>>, {<<"CCMN_32_reg", 0>>,
         <<"CCMP_32_reg", 1>>, <<"CCMN_64_reg", 2>>, <<"CCMP_64_reg", 3>>})

\* Conditional compare (immediate)
InstCondCmpImm ==
    Rows({<<21, 29, 466>>, <<10, 11, 2>>, <<4, 4, 0>>}, <<<<30, 31>>>>, {<<"CCMN_32_imm", 0>>,
         <<"CCMP_32_imm", 1>>, <<"CCMN_64_imm", 2>>, <<"CCMP_64_imm", 3>>})

\* Conditional select
InstCondSel ==
    Rows({<<21, 29, 212>>, <<11, 11, 0>>}, <<<<30, 31>>, <<10, 10>>>>, {<<"CSEL_32", 0, 0>>,
         <<"CSINC_32", 0, 1>>, <<"CSINV_32", 1, 0>>, <<"CSNEG_32", 1, 1>>, <<"CSEL_64", 2, 0>>, <<"CSINC_64", 2, 1>>,
         <<"CSINV_64", 3, 0>>, <<"CSNEG_64", 3, 1>>})

\* Data-processing (3 source)
InstDP3Source ==
    Rows({<<24, 30, 27>>}, <<<<31, 31>>, <<21, 23>>, <<15, 15>>>>, {<<"MADD_32", 0, 0, 0>>,
         <<"MSUB_32", 0, 0, 1>>, <<"MADD_64", 1, 0, 0>>, <<"MSUB_64", 1, 0, 1>>, <<"SMADDL", 1, 1, 0>>,
         <<"SMSUBL", 1, 1, 1>>, <<"SMULH", 1, 2, 0>>, <<"UMADDL", 1, 5, 0>>, <<"UMSUBL", 1, 5, 1>>,
         <<"UMULH", 1, 6, 0>>})

\* Advanced SIMD load/store multiple structures
InstMultiple ==
    Rows({<<31, 31, 0>>, <<23, 29, 24>>, <<16, 21, 0>>}, <<<<22, 22>>, <<12, 15>>>>, {
         <<"ST1_multi_1reg", 0, 7>>, <<"ST1_multi_2reg", 0, 10>>, <<"ST1_multi_3reg", 0, 6>>,
         <<"ST1_multi_4reg", 0, 2>>, <<"ST2_multi", 0, 8>>, <<"ST3_multi", 0, 4>>, <<"ST4_multi", 0, 0>>,
         <<"LD1_multi_1reg", 1, 7>>, <<"LD1_multi_2reg", 1, 10>>, <<"LD1_multi_3reg", 1, 6>>,
         <<"LD1_multi_4reg", 1, 2>>, <<"LD2_multi", 1, 8>>, <<"LD3_multi", 1, 4>>, <<"LD4_multi", 1, 0>>})

\* Advanced SIMD load/store multiple structures (post-indexed)
InstMultiplePost ==
    RowsExcept({<<31, 31, 0>>, <<23, 29, 25>>, <<21, 21, 0>>}, <<<<22, 22>>, <<12, 15>>>>, {
         <<"ST1_multi_reg_1reg", 0, 7>>, <<"ST1_multi_reg_2reg", 0, 10>>, <<"ST1_multi_reg_3reg", 0, 6>>,
         <<"ST1_multi_reg_4reg", 0, 2>>, <<"ST2_multi_reg", 0, 8>>, <<"ST3_multi_reg", 0, 4>>,
         <<"ST4_multi_reg", 0, 0>>, <<"LD1_multi_reg_1reg", 1, 7>>, <<"LD1_multi_reg_2reg", 1, 10>>,
         <<"LD1_multi_reg_3reg", 1, 6>>, <<"LD1_multi_reg_4reg", 1, 2>>, <<"LD2_multi_reg", 1, 8>>,
         <<"LD3_multi_reg", 1, 4>>, <<"LD4_multi_reg", 1, 0>>}, {}, {{16, 17, 18, 19, 20}})
    \cup Rows({<<31, 31, 0>>, <<23, 29, 25>>, <<16, 21, 31>>}, <<<<22, 22>>, <<12, 15>>>>, {
         <<"ST1_multi_offset_1reg", 0, 7>>, <<"ST1_multi_offset_2reg", 0, 10>>, <<"ST1_multi_offset_3reg", 0, 6>>,
         <<"ST1_multi_offset_4reg", 0, 2>>, <<"ST2_multi_offset", 0, 8>>, <<"ST3_multi_offset", 0, 4>>,
         <<"ST4_multi_offset", 0, 0>>, <<"LD1_multi_offset_1reg", 1, 7>>, <<"LD1_multi_offset_2reg", 1, 10>>,
         <<"LD1_multi_offset_3reg", 1, 6>>, <<"LD1_multi_offset_4reg", 1, 2>>, <<"LD2_multi_offset", 1, 8>>,
         <<"LD3_multi_offset", 1, 4>>, <<"LD4_multi_offset", 1, 0>>})

\* Advanced SIMD load/store single structure
InstSingle ==
    Rows({<<31, 31, 0>>, <<23, 29, 26>>, <<14, 20, 0>>}, <<<<21, 22>>, <<13, 13>>>>, {<<"ST1_single_8", 0, 0>>,
         <<"ST2_single_8", 1, 0>>, <<"ST3_single_8", 0, 1>>, <<"ST4_single_8", 1, 1>>, <<"LD1_single_8", 2, 0>>,
         <<"LD2_single_8", 3, 0>>, <<"LD3_single_8", 2, 1>>, <<"LD4_single_8", 3, 1>>})
    \cup Rows({<<31, 31, 0>>, <<23, 29, 26>>, <<14, 20, 1>>, <<10, 10, 0>>}, <<<<21, 22>>, <<13, 13>>>>, {
         <<"ST1_single_16", 0, 0>>, <<"ST2_single_16", 1, 0>>, <<"ST3_single_16", 0, 1>>, <<"ST4_single_16", 1, 1>>,
         <<"LD1_single_16", 2, 0>>, <<"LD2_single_16", 3, 0>>, <<"LD3_single_16", 2, 1>>, <<"LD4_single_16", 3, 1>>})
    \cup Rows({<<31, 31, 0>>, <<23, 29, 26>>, <<14, 20, 2>>, <<10, 11, 0>>}, <<<<21, 22>>, <<13, 13>>>>, {
         <<"ST1_single_32", 0, 0>>, <<"ST2_single_32", 1, 0>>, <<"ST3_single_32", 0, 1>>, <<"ST4_single_32", 1, 1>>,
         <<"LD1_single_32", 2, 0>>, <<"LD2_single_32", 3, 0>>, <<"LD3_single_32", 2, 1>>, <<"LD4_single_32", 3, 1>>})
    \cup Rows({<<31, 31, 0>>, <<23, 29, 26>>, <<14, 20, 2>>, <<10, 12, 1>>}, <<<<21, 22>>, <<13, 13>>>>, {
         <<"ST1_single_64", 0, 0>>, <<"ST2_single_64", 1, 0>>, <<"ST3_single_64", 0, 1>>, <<"ST4_single_64", 1, 1>>,
         <<"LD1_single_64", 2, 0>>, <<"LD2_single_64", 3, 0>>, <<"LD3_single_64", 2, 1>>, <<"LD4_single_64", 3, 1>>})
    \cup Rows({<<31, 31, 0>>, <<22, 29, 53>>, <<14, 20, 3>>, <<12, 12, 0>>}, <<<<21, 21>>, <<13, 13>>>>, {
         <<"LD1R", 0, 0>>, <<"LD2R", 1, 0>>, <<"LD3R", 0, 1>>, <<"LD4R", 1, 1>>})

\* Advanced SIMD load/store single structure (post-indexed)
InstSinglePost ==
    RowsExcept({<<31, 31, 0>>, <<23, 29, 27>>, <<14, 15, 0>>}, <<<<21, 22>>, <<13, 13>>>>, {
         <<"ST1_single_8_reg", 0, 0>>, <<"ST2_single_8_reg", 1, 0>>, <<"ST3_single_8_reg", 0, 1>>,
         <<"ST4_single_8_reg", 1, 1>>, <<"LD1_single_8_reg", 2, 0>>, <<"LD2_single_8_reg", 3, 0>>,
         <<"LD3_single_8_reg", 2, 1>>, <<"LD4_single_8_reg", 3, 1>>}, {}, {{16, 17, 18, 19, 20}})
    \cup RowsExcept({<<31, 31, 0>>, <<23, 29, 27>>, <<14, 15, 1>>, <<10, 10, 0>>}, <<<<21, 22>>, <<13, 13>>>>, {
         <<"ST1_single_16_reg", 0, 0>>, <<"ST2_single_16_reg", 1, 0>>, <<"ST3_single_16_reg", 0, 1>>,
         <<"ST4_single_16_reg", 1, 1>>, <<"LD1_single_16_reg", 2, 0>>, <<"LD2_single_16_reg", 3, 0>>,
         <<"LD3_single_16_reg", 2, 1>>, <<"LD4_single_16_reg", 3, 1>>}, {}, {{16, 17, 18, 19, 20}})
    \cup RowsExcept({<<31, 31, 0>>, <<23, 29, 27>>, <<14, 15, 2>>, <<10, 11, 0>>}, <<<<21, 22>>, <<13, 13>>>>, {
         <<"ST1_single_32_reg", 0, 0>>, <<"ST2_single_32_reg", 1, 0>>, <<"ST3_single_32_reg", 0, 1>>,
         <<"ST4_single_32_reg", 1, 1>>, <<"LD1_single_32_reg", 2, 0>>, <<"LD2_single_32_reg", 3, 0>>,
         <<"LD3_single_32_reg", 2, 1>>, <<"LD4_single_32_reg", 3, 1>>}, {}, {{16, 17, 18, 19, 20}})
    \cup RowsExcept({<<31, 31, 0>>, <<23, 29, 27>>, <<14, 15, 2>>, <<10, 12, 1>>}, <<<<21, 22>>, <<13, 13>>>>, {
         <<"ST1_single_64_reg", 0, 0>>, <<"ST2_single_64_reg", 1, 0>>, <<"ST3_single_64_reg", 0, 1>>,
         <<"ST4_single_64_reg", 1, 1>>, <<"LD1_single_64_reg", 2, 0>>, <<"LD2_single_64_reg", 3, 0>>,
         <<"LD3_single_64_reg", 2, 1>>, <<"LD4_single_64_reg", 3, 1>>}, {}, {{16, 17, 18, 19, 20}})
    \cup Rows({<<31, 31, 0>>, <<23, 29, 27>>, <<14, 20, 124>>}, <<<<21, 22>>, <<13, 13>>>>, {
         <<"ST1_single_8_imm", 0, 0>>, <<"ST2_single_8_imm", 1, 0>>, <<"ST3_single_8_imm", 0, 1>>,
         <<"ST4_single_8_imm", 1, 1>>, <<"LD1_single_8_imm", 2, 0>>, <<"LD2_single_8_imm", 3, 0>>,
         <<"LD3_single_8_imm", 2, 1>>, <<"LD4_single_8_imm", 3, 1>>})
    \cup Rows({<<31, 31, 0>>, <<23, 29, 27>>, <<14, 20, 125>>, <<10, 10, 0>>}, <<<<21, 22>>, <<13, 13>>>>, {
         <<"ST1_single_16_imm", 0, 0>>, <<"ST2_single_16_imm", 1, 0>>, <<"ST3_single_16_imm", 0, 1>>,
         <<"ST4_single_16_imm", 1, 1>>, <<"LD1_single_16_imm", 2, 0>>, <<"LD2_single_16_imm", 3, 0>>,
         <<"LD3_single_16_imm", 2, 1>>, <<"LD4_single_16_imm", 3, 1>>})
    \cup Rows({<<31, 31, 0>>, <<23, 29, 27>>, <<14, 20, 126>>, <<10, 11, 0>>}, <<<<21, 22>>, <<13, 13>>>>, {
         <<"ST1_single_32_imm", 0, 0>>, <<"ST2_single_32_imm", 1, 0>>, <<"ST3_single_32_imm", 0, 1>>,
         <<"ST4_single_32_imm", 1, 1>>, <<"LD1_single_32_imm", 2, 0>>, <<"LD2_single_32_imm", 3, 0>>,
         <<"LD3_single_32_imm", 2, 1>>, <<"LD4_single_32_imm", 3, 1>>})
    \cup Rows({<<31, 31, 0>>, <<23, 29, 27>>, <<14, 20, 126>>, <<10, 12, 1>>}, <<<<21, 22>>, <<13, 13>>>>, {
         <<"ST1_single_64_imm", 0, 0>>, <<"ST2_single_64_imm", 1, 0>>, <<"ST3_single_64_imm", 0, 1>>,
         <<"ST4_single_64_imm", 1, 1>>, <<"LD1_single_64_imm", 2, 0>>, <<"LD2_single_64_imm", 3, 0>>,
         <<"LD3_single_64_imm", 2, 1>>, <<"LD4_single_64_imm", 3, 1>>})
    \cup RowsExcept({<<31, 31, 0>>, <<22, 29, 55>>, <<14, 15, 3>>, <<12, 12, 0>>}, <<<<21, 21>>, <<13, 13>>>>, {
         <<"LD1R_reg", 0, 0>>, <<"LD2R_reg", 1, 0>>, <<"LD3R_reg", 0, 1>>, <<"LD4R_reg", 1, 1>>},
         {}, {{16, 17, 18, 19, 20}})
    \cup Rows({<<31, 31, 0>>, <<22, 29, 55>>, <<14, 20, 127>>, <<12, 12, 0>>}, <<<<21, 21>>, <<13, 13>>>>, {
         <<"LD1R_imm", 0, 0>>, <<"LD2R_imm", 1, 0>>, <<"LD3R_imm", 0, 1>>, <<"LD4R_imm", 1, 1>>})

\* Load/store exclusive
InstExclusive ==
    Rows({<<24, 29, 8>>}, <<<<30, 31>>, <<21, 23>>, <<15, 15>>>>, {<<"STXRB", 0, 0, 0>>, <<"STLXRB", 0, 0, 1>>,
         <<"LDXRB", 0, 2, 0>>, <<"LDAXRB", 0, 2, 1>>, <<"STLRB", 0, 4, 1>>, <<"LDARB", 0, 6, 1>>,
         <<"STXRH", 1, 0, 0>>, <<"STLXRH", 1, 0, 1>>, <<"LDXRH", 1, 2, 0>>, <<"LDAXRH", 1, 2, 1>>,
         <<"STLRH", 1, 4, 1>>, <<"LDARH", 1, 6, 1>>, <<"STXR32", 2, 0, 0>>, <<"STLXR32", 2, 0, 1>>,
         <<"STXP32", 2, 1, 0>>, <<"STLXP32", 2, 1, 1>>, <<"LDXR32", 2, 2, 0>>, <<"LDAXR32", 2, 2, 1>>,
         <<"LDXP32", 2, 3, 0>>, <<"LDAXP32", 2, 3, 1>>, <<"STLR32", 2, 4, 1>>, <<"LDAR32", 2, 6, 1>>,
         <<"STXR64", 3, 0, 0>>, <<"STLXR64", 3, 0, 1>>, <<"STXP64", 3, 1, 0>>, <<"STLXP64", 3, 1, 1>>,
         <<"LDXR64", 3, 2, 0>>, <<"LDAXR64", 3, 2, 1>>, <<"LDXP64", 3, 3, 0>>, <<"LDAXP64", 3, 3, 1>>,
         <<"STLR64", 3, 4, 1>>, <<"LDAR64", 3, 6, 1>>})

\* Load register (literal)
InstLiteral ==
    Rows({<<27, 29, 3>>, <<24, 25, 0>>}, <<<<30, 31>>, <<26, 26>>>>, {<<"LDR32_literal", 0, 0>>,
         <<"LDR32_literal_float", 0, 1>>, <<"LDR64_literal", 1, 0>>, <<"LDR64_literal_float", 1, 1>>,
         <<"LDRSW_literal", 2, 0>>, <<"LDR128_literal", 2, 1>>, <<"PRFM_literal", 3, 0>>})

\* Load/store no-allocate pair (offset)
InstPairNoAllocate ==
    Rows({<<27, 29, 5>>, <<23, 25, 0>>}, <<<<30, 31>>, <<26, 26>>, <<22, 22>>>>, {<<"STNP32", 0, 0, 0>>,
         <<"LDNP32", 0, 0, 1>>, <<"STNP32_float", 0, 1, 0>>, <<"LDNP32_float", 0, 1, 1>>,
         <<"STNP64_float", 1, 1, 0>>, <<"LDNP64_float", 1, 1, 1>>, <<"STNP64", 2, 0, 0>>, <<"LDNP64", 2, 0, 1>>,
         <<"STNP128", 2, 1, 0>>, <<"LDNP128", 2, 1, 1>>})

\* Load/store register pair (post-indexed)
InstPairPost ==
    Rows({<<27, 29, 5>>, <<23, 25, 1>>}, <<<<30, 31>>, <<26, 26>>, <<22, 22>>>>, {<<"STP32_post", 0, 0, 0>>,
         <<"LDP32_post", 0, 0, 1>>, <<"STP32_post_float", 0, 1, 0>>, <<"LDP32_post_float", 0, 1, 1>>,
         <<"LDPSW_post", 1, 0, 1>>, <<"STP64_post_float", 1, 1, 0>>, <<"LDP64_post_float", 1, 1, 1>>,
         <<"STP64_post", 2, 0, 0>>, <<"LDP64_post", 2, 0, 1>>, <<"STP128_post", 2, 1, 0>>,
         <<"LDP128_post", 2, 1, 1>>})

\* Load/store register pair (offset)
InstPairOffset ==
    Rows({<<27, 29, 5>>, <<23, 25, 2>>}, <<<<30, 31>>, <<26, 26>>, <<22, 22>>>>, {<<"STP32_offset", 0, 0, 0>>,
         <<"LDP32_offset", 0, 0, 1>>, <<"STP32_offset_float", 0, 1, 0>>, <<"LDP32_offset_float", 0, 1, 1>>,
         <<"LDPSW_offset", 1, 0, 1>>, <<"STP64_offset_float", 1, 1, 0>>, <<"LDP64_offset_float", 1, 1, 1>>,
         <<"STP64_offset", 2, 0, 0>>, <<"LDP64_offset", 2, 0, 1>>, <<"STP128_offset", 2, 1, 0>>,
         <<"LDP128_offset", 2, 1, 1>>})

\* Load/store register pair (pre-indexed)
InstPairPre ==
    Rows({<<27, 29, 5>>, <<23, 25, 3>>}, <<<<30, 31>>, <<26, 26>>, <<22, 22>>>>, {<<"STP32_pre", 0, 0, 0>>,
         <<"LDP32_pre", 0, 0, 1>>, <<"STP32_pre_float", 0, 1, 0>>, <<"LDP32_pre_float", 0, 1, 1>>,
         <<"LDPSW_pre", 1, 0, 1>>, <<"STP64_pre_float", 1, 1, 0>>, <<"LDP64_pre_float", 1, 1, 1>>,
         <<"STP64_pre", 2, 0, 0>>, <<"LDP64_pre", 2, 0, 1>>, <<"STP128_pre", 2, 1, 0>>, <<"LDP128_pre", 2, 1, 1>>})

\* Load/store register (unscaled immediate)
InstRegUnscaled ==
    Rows({<<27, 29, 7>>, <<24, 25, 0>>, <<21, 21, 0>>, <<10, 11, 0>>}, <<<<30, 31>>, <<26, 26>>, <<22, 23>>>>, {
         <<"STURB", 0, 0, 0>>, <<"LDURB", 0, 0, 1>>, <<"LDURSB64", 0, 0, 2>>, <<"LDURSB32", 0, 0, 3>>,
         <<"STUR8_float", 0, 1, 0>>, <<"LDUR8_float", 0, 1, 1>>, <<"STUR128", 0, 1, 2>>, <<"LDUR128", 0, 1, 3>>,
         <<"STURH", 1, 0, 0>>, <<"LDURH", 1, 0, 1>>, <<"LDURSH64", 1, 0, 2>>, <<"LDURSH32", 1, 0, 3>>,
         <<"STUR16_float", 1, 1, 0>>, <<"LDUR16_float", 1, 1, 1>>, <<"STUR32", 2, 0, 0>>, <<"LDUR32", 2, 0, 1>>,
         <<"LDURSW", 2, 0, 2>>, <<"STUR32_float", 2, 1, 0>>, <<"LDUR32_float", 2, 1, 1>>, <<"STUR64", 3, 0, 0>>,
         <<"LDUR64", 3, 0, 1>>, <<"PRFM_unscaled", 3, 0, 2>>, <<"STUR64_float", 3, 1, 0>>,
         <<"LDUR64_float", 3, 1, 1>>})

\* Load/store register (immediate post-indexed)
InstRegPost ==
    Rows({<<27, 29, 7>>, <<24, 25, 0>>, <<21, 21, 0>>, <<10, 11, 1>>}, <<<<30, 31>>, <<26, 26>>, <<22, 23>>>>, {
         <<"STRB_post", 0, 0, 0>>, <<"LDRB_post", 0, 0, 1>>, <<"LDRSB64_post", 0, 0, 2>>,
         <<"LDRSB32_post", 0, 0, 3>>, <<"STR8_post_float", 0, 1, 0>>, <<"LDR8_post_float", 0, 1, 1>>,
         <<"STR128_post", 0, 1, 2>>, <<"LDR128_post", 0, 1, 3>>, <<"STRH_post", 1, 0, 0>>, <<"LDRH_post", 1, 0, 1>>,
         <<"LDRSH64_post", 1, 0, 2>>, <<"LDRSH32_post", 1, 0, 3>>, <<"STR16_post_float", 1, 1, 0>>,
         <<"LDR16_post_float", 1, 1, 1>>, <<"STR32_post", 2, 0, 0>>, <<"LDR32_post", 2, 0, 1>>,
         <<"LDRSW_post", 2, 0, 2>>, <<"STR32_post_float", 2, 1, 0>>, <<"LDR32_post_float", 2, 1, 1>>,
         <<"STR64_post", 3, 0, 0>>, <<"LDR64_post", 3, 0, 1>>, <<"STR64_post_float", 3, 1, 0>>,
         <<"LDR64_post_float", 3, 1, 1>>})

\* Load/store register (unprivileged)
InstRegUnprivileged ==
    Rows({<<24, 29, 56>>, <<21, 21, 0>>, <<10, 11, 2>>}, <<<<30, 31>>, <<22, 23>>>>, {<<"STTRB", 0, 0>>,
         <<"LDTRB", 0, 1>>, <<"LDTRSB64", 0, 2>>, <<"LDTRSB32", 0, 3>>, <<"STTRH", 1, 0>>, <<"LDTRH", 1, 1>>,
         <<"LDTRSH64", 1, 2>>, <<"LDTRSH32", 1, 3>>, <<"STTR32", 2, 0>>, <<"LDTR32", 2, 1>>, <<"LDTRSW", 2, 2>>,
         <<"STTR64", 3, 0>>, <<"LDTR64", 3, 1>>})

\* Load/store register (immediate pre-indexed)
InstRegPre ==
    Rows({<<27, 29, 7>>, <<24, 25, 0>>, <<21, 21, 0>>, <<10, 11, 3>>}, <<<<30, 31>>, <<26, 26>>, <<22, 23>>>>, {
         <<"STRB_pre", 0, 0, 0>>, <<"LDRB_pre", 0, 0, 1>>, <<"LDRSB64_pre", 0, 0, 2>>, <<"LDRSB32_pre", 0, 0, 3>>,
         <<"STR8_pre_float", 0, 1, 0>>, <<"LDR8_pre_float", 0, 1, 1>>, <<"STR128_pre", 0, 1, 2>>,
         <<"LDR128_pre", 0, 1, 3>>, <<"STRH_pre", 1, 0, 0>>, <<"LDRH_pre", 1, 0, 1>>, <<"LDRSH64_pre", 1, 0, 2>>,
         <<"LDRSH32_pre", 1, 0, 3>>, <<"STR16_pre_float", 1, 1, 0>>, <<"LDR16_pre_float", 1, 1, 1>>,
         <<"STR32_pre", 2, 0, 0>>, <<"LDR32_pre", 2, 0, 1>>, <<"LDRSW_pre", 2, 0, 2>>,
         <<"STR32_pre_float", 2, 1, 0>>, <<"LDR32_pre_float", 2, 1, 1>>, <<"STR64_pre", 3, 0, 0>>,
         <<"LDR64_pre", 3, 0, 1>>, <<"STR64_pre_float", 3, 1, 0>>, <<"LDR64_pre_float", 3, 1, 1>>})

\* Load/store register (register offset)
InstRegOff ==
    Rows({<<27, 29, 7>>, <<24, 25, 0>>, <<21, 21, 1>>, <<10, 11, 2>>}, <<<<30, 31>>, <<26, 26>>, <<22, 23>>>>, {
         <<"STRB_reg", 0, 0, 0>>, <<"LDRB_reg", 0, 0, 1>>, <<"LDRSB64_reg", 0, 0, 2>>, <<"LDRSB32_reg", 0, 0, 3>>,
         <<"STR8_reg_float", 0, 1, 0>>, <<"LDR8_reg_float", 0, 1, 1>>, <<"STR128_reg", 0, 1, 2>>,
         <<"LDR128_reg", 0, 1, 3>>, <<"STRH_reg", 1, 0, 0>>, <<"LDRH_reg", 1, 0, 1>>, <<"LDRSH64_reg", 1, 0, 2>>,
         <<"LDRSH32_reg", 1, 0, 3>>, <<"STR16_reg_float", 1, 1, 0>>, <<"LDR16_reg_float", 1, 1, 1>>,
         <<"STR32_reg", 2, 0, 0>>, <<"LDR32_reg", 2, 0, 1>>, <<"LDRSW_reg", 2, 0, 2>>,
         <<"STR32_reg_float", 2, 1, 0>>, <<"LDR32_reg_float", 2, 1, 1>>, <<"STR64_reg", 3, 0, 0>>,
         <<"LDR64_reg", 3, 0, 1>>, <<"PRFM_reg", 3, 0, 2>>, <<"STR64_reg_float", 3, 1, 0>>,
         <<"LDR64_reg_float", 3, 1, 1>>})

\* Load/store register (unsigned immediate)
InstRegUnsignedImm ==
    Rows({<<27, 29, 7>>, <<24, 25, 1>>}, <<<<30, 31>>, <<26, 26>>, <<22, 23>>>>, {<<"STRB_imm", 0, 0, 0>>,
         <<"LDRB_imm", 0, 0, 1>>, <<"LDRSB64_imm", 0, 0, 2>>, <<"LDRSB32_imm", 0, 0, 3>>,
         <<"STR8_imm_float", 0, 1, 0>>, <<"LDR8_imm_float", 0, 1, 1>>, <<"STR128_imm", 0, 1, 2>>,
         <<"LDR128_imm", 0, 1, 3>>, <<"STRH_imm", 1, 0, 0>>, <<"LDRH_imm", 1, 0, 1>>, <<"LDRSH64_imm", 1, 0, 2>>,
         <<"LDRSH32_imm", 1, 0, 3>>, <<"STR16_imm_float", 1, 1, 0>>, <<"LDR16_imm_float", 1, 1, 1>>,
         <<"STR32_imm", 2, 0, 0>>, <<"LDR32_imm", 2, 0, 1>>, <<"LDRSW_imm", 2, 0, 2>>,
         <<"STR32_imm_float", 2, 1, 0>>, <<"LDR32_imm_float", 2, 1, 1>>, <<"STR64_imm", 3, 0, 0>>,
         <<"LDR64_imm", 3, 0, 1>>, <<"PRFM_imm", 3, 0, 2>>, <<"STR64_imm_float", 3, 1, 0>>,
         <<"LDR64_imm_float", 3, 1, 1>>})

\* Conversion between floating-point and fixed-point
InstFloatFixed ==
    Rows({<<23, 30, 60>>, <<21, 21, 0>>, <<18, 18, 0>>}, <<<<31, 31>>, <<22, 22>>, <<19, 20>>, <<16, 17>>>>, {
         <<"SCVTF_32_single_fixed", 0, 0, 0, 2>>, <<"UCVTF_32_single_fixed", 0, 0, 0, 3>>,
         <<"FCVTZS_single_32_fixed", 0, 0, 3, 0>>, <<"FCVTZU_single_32_fixed", 0, 0, 3, 1>>,
         <<"SCVTF_32_double_fixed", 0, 1, 0, 2>>, <<"UCVTF_32_double_fixed", 0, 1, 0, 3>>,
         <<"FCVTZS_double_32_fixed", 0, 1, 3, 0>>, <<"FCVTZU_double_32_fixed", 0, 1, 3, 1>>,
         <<"SCVTF_64_single_fixed", 1, 0, 0, 2>>, <<"UCVTF_64_single_fixed", 1, 0, 0, 3>>,
         <<"FCVTZS_single_64_fixed", 1, 0, 3, 0>>, <<"FCVTZU_single_64_fixed", 1, 0, 3, 1>>,
         <<"SCVTF_64_double_fixed", 1, 1, 0, 2>>, <<"UCVTF_64_double_fixed", 1, 1, 0, 3>>,
         <<"FCVTZS_double_64_fixed", 1, 1, 3, 0>>, <<"FCVTZU_double_64_fixed", 1, 1, 3, 1>>})

\* Conversion between floating-point and integer
InstFloatInt ==
    Rows({<<24, 30, 30>>, <<21, 21, 1>>, <<10, 15, 0>>}, <<<<31, 31>>, <<22, 23>>, <<16, 20>>>>, {
         <<"FCVTNS_single_32_int", 0, 0, 0>>, <<"FCVTNU_single_32_int", 0, 0, 1>>,
         <<"SCVTF_32_single_int", 0, 0, 2>>, <<"UCVTF_32_single_int", 0, 0, 3>>, <<"FCVTAS_single_32_int", 0, 0, 4>>,
         <<"FCVTAU_single_32_int", 0, 0, 5>>, <<"FMOV_single_32", 0, 0, 6>>, <<"FMOV_32_single", 0, 0, 7>>,
         <<"FCVTPS_single_32_int", 0, 0, 8>>, <<"FCVTPU_single_32_int", 0, 0, 9>>,
         <<"FCVTMS_single_32_int", 0, 0, 16>>, <<"FCVTMU_single_32_int", 0, 0, 17>>,
         <<"FCVTZS_single_32_int", 0, 0, 24>>, <<"FCVTZU_single_32_int", 0, 0, 25>>,
         <<"FCVTNS_double_32_int", 0, 1, 0>>, <<"FCVTNU_double_32_int", 0, 1, 1>>,
         <<"SCVTF_32_double_int", 0, 1, 2>>, <<"UCVTF_32_double_int", 0, 1, 3>>, <<"FCVTAS_double_32_int", 0, 1, 4>>,
         <<"FCVTAU_double_32_int", 0, 1, 5>>, <<"FCVTPS_double_32_int", 0, 1, 8>>,
         <<"FCVTPU_double_32_int", 0, 1, 9>>, <<"FCVTMS_double_32_int", 0, 1, 16>>,
         <<"FCVTMU_double_32_int", 0, 1, 17>>, <<"FCVTZS_double_32_int", 0, 1, 24>>,
         <<"FCVTZU_double_32_int", 0, 1, 25>>, <<"FCVTNS_single_64_int", 1, 0, 0>>,
         <<"FCVTNU_single_64_int", 1, 0, 1>>, <<"SCVTF_64_single_int", 1, 0, 2>>, <<"UCVTF_64_single_int", 1, 0, 3>>,
         <<"FCVTAS_single_64_int", 1, 0, 4>>, <<"FCVTAU_single_64_int", 1, 0, 5>>,
         <<"FCVTPS_single_64_int", 1, 0, 8>>, <<"FCVTPU_single_64_int", 1, 0, 9>>,
         <<"FCVTMS_single_64_int", 1, 0, 16>>, <<"FCVTMU_single_64_int", 1, 0, 17>>,
         <<"FCVTZS_single_64_int", 1, 0, 24>>, <<"FCVTZU_single_64_int", 1, 0, 25>>,
         <<"FCVTNS_double_64_int", 1, 1, 0>>, <<"FCVTNU_double_64_int", 1, 1, 1>>,
         <<"SCVTF_64_double_int", 1, 1, 2>>, <<"UCVTF_64_double_int", 1, 1, 3>>, <<"FCVTAS_double_64_int", 1, 1, 4>>,
         <<"FCVTAU_double_64_int", 1, 1, 5>>, <<"FMOV_double_64", 1, 1, 6>>, <<"FMOV_64_double", 1, 1, 7>>,
         <<"FCVTPS_double_64_int", 1, 1, 8>>, <<"FCVTPU_double_64_int", 1, 1, 9>>,
         <<"FCVTMS_double_64_int", 1, 1, 16>>, <<"FCVTMU_double_64_int", 1, 1, 17>>,
         <<"FCVTZS_double_64_int", 1, 1, 24>>, <<"FCVTZU_double_64_int", 1, 1, 25>>, <<"FMOV_top128_64", 1, 2, 14>>,
         <<"FMOV_64_top128", 1, 2, 15>>})

\* Floating-point data-processing (1 source)
InstFloatDP1 ==
    Rows({<<24, 31, 30>>, <<19, 21, 4>>, <<10, 14, 16>>}, <<<<22, 23>>, <<15, 18>>>>, {
         <<"FMOV_reg_single", 0, 0>>, <<"FABS_single", 0, 1>>, <<"FNEG_single", 0, 2>>, <<"FSQRT_single", 0, 3>>,
         <<"FCVT_single_double", 0, 5>>, <<"FCVT_single_half", 0, 7>>, <<"FRINTN_single", 0, 8>>,
         <<"FRINTP_single", 0, 9>>, <<"FRINTM_single", 0, 10>>, <<"FRINTZ_single", 0, 11>>,
         <<"FRINTA_single", 0, 12>>, <<"FRINTX_single", 0, 14>>, <<"FRINTI_single", 0, 15>>,
         <<"FMOV_reg_double", 1, 0>>, <<"FABS_double", 1, 1>>, <<"FNEG_double", 1, 2>>, <<"FSQRT_double", 1, 3>>,
         <<"FCVT_double_single", 1, 4>>, <<"FCVT_double_half", 1, 7>>, <<"FRINTN_double", 1, 8>>,
         <<"FRINTP_double", 1, 9>>, <<"FRINTM_double", 1, 10>>, <<"FRINTZ_double", 1, 11>>,
         <<"FRINTA_double", 1, 12>>, <<"FRINTX_double", 1, 14>>, <<"FRINTI_double", 1, 15>>,
         <<"FCVT_half_single", 3, 4>>, <<"FCVT_half_double", 3, 5>>})

\* Floating-point compare
InstFloatCmp ==
    Rows({<<23, 31, 60>>, <<21, 21, 1>>, <<10, 15, 8>>, <<0, 2, 0>>}, <<<<22, 22>>, <<3, 4>>>>, {
         <<"FCMP_single", 0, 0>>, <<"FCMP_single_zero", 0, 1>>, <<"FCMPE_single", 0, 2>>,
         <<"FCMPE_single_zero", 0, 3>>, <<"FCMP_double", 1, 0>>, <<"FCMP_double_zero", 1, 1>>,
         <<"FCMPE_double", 1, 2>>, <<"FCMPE_double_zero", 1, 3>>})

\* Floating-point immediate
InstFloatImm ==
    Rows({<<23, 31, 60>>, <<21, 21, 1>>, <<5, 12, 128>>}, <<<<22, 22>>>>, {<<"FMOV_imm_single", 0>>,
         <<"FMOV_imm_double", 1>>})

\* Floating-point conditional compare
InstFloatCondCmp ==
    Rows({<<23, 31, 60>>, <<21, 21, 1>>, <<10, 11, 1>>}, <<<<22, 22>>, <<4, 4>>>>, {<<"FCCMP_single", 0, 0>>,
         <<"FCCMPE_single", 0, 1>>, <<"FCCMP_double", 1, 0>>, <<"FCCMPE_double", 1, 1>>})

\* Floating-point data-processing (2 source)
InstFloatDP2 ==
    Rows({<<23, 31, 60>>, <<21, 21, 1>>, <<10, 11, 2>>}, <<<<22, 22>>, <<12, 15>>>>, {<<"FMUL_single", 0, 0>>,
         <<"FDIV_single", 0, 1>>, <<"FADD_single", 0, 2>>, <<"FSUB_single", 0, 3>>, <<"FMAX_single", 0, 4>>,
         <<"FMIN_single", 0, 5>>, <<"FMAXNM_single", 0, 6>>, <<"FMINNM_single", 0, 7>>, <<"FNMUL_single", 0, 8>>,
         <<"FMUL_double", 1, 0>>, <<"FDIV_double", 1, 1>>, <<"FADD_double", 1, 2>>, <<"FSUB_double", 1, 3>>,
         <<"FMAX_double", 1, 4>>, <<"FMIN_double", 1, 5>>, <<"FMAXNM_double", 1, 6>>, <<"FMINNM_double", 1, 7>>,
         <<"FNMUL_double", 1, 8>>})

\* Floating-point conditional select
InstFloatCondSel ==
    Rows({<<23, 31, 60>>, <<21, 21, 1>>, <<10, 11, 3>>}, <<<<22, 22>>>>, {<<"FCSEL_single", 0>>,
         <<"FCSEL_double", 1>>})

\* Floating-point data-processing (3 source)
InstFloatDP3 ==
    Rows({<<23, 31, 62>>}, <<<<21, 22>>, <<15, 15>>>>, {<<"FMADD_single", 0, 0>>, <<"FMSUB_single", 0, 1>>,
         <<"FNMADD_single", 1, 0>>, <<"FNMSUB_single", 1, 1>>, <<"FMADD_double", 2, 0>>, <<"FMSUB_double", 2, 1>>,
         <<"FNMADD_double", 3, 0>>, <<"FNMSUB_double", 3, 1>>})

\* Cryptographic AES
InstAES ==
    Rows({<<14, 31, 80033>>, <<10, 11, 2>>}, <<<<12, 13>>>>, {<<"AESE", 0>>, <<"AESD", 1>>, <<"AESMC", 2>>,
         <<"AESIMC", 3>>})

\* Cryptographic three-register SHA
InstSHA3Reg ==
    Rows({<<21, 31, 752>>, <<15, 15, 0>>, <<10, 11, 0>>}, <<<<12, 14>>>>, {<<"SHA1C", 0>>, <<"SHA1P", 1>>,
         <<"SHA1M", 2>>, <<"SHA1SU0", 3>>, <<"SHA256H", 4>>, <<"SHA256H2", 5>>, <<"SHA256SU1", 6>>})

\* Cryptographic two-register SHA
InstSHA2Reg ==
    Rows({<<14, 31, 96416>>, <<10, 11, 2>>}, <<<<12, 13>>>>, {<<"SHA1H", 0>>, <<"SHA1SU1", 1>>,
         <<"SHA256SU0", 2>>})

\* Advanced SIMD scalar copy
InstScalarCopy ==
    RowsExcept({<<21, 31, 752>>, <<10, 15, 1>>}, <<>>, {<<"DUP_element_scalar">>}, {{16, 17, 18, 19}}, {})

\* Advanced SIMD scalar two-register miscellaneous
InstScalar2Reg ==
    Rows({<<30, 31, 1>>, <<24, 28, 30>>, <<17, 21, 16>>, <<10, 11, 2>>}, <<<<29, 29>>, <<12, 16>>>>, {
         <<"SUQADD_scalar", 0, 3>>, <<"SQABS_scalar", 0, 7>>, <<"CMGT_scalar_zero", 0, 8>>,
         <<"CMEQ_scalar_zero", 0, 9>>, <<"CMLT_scalar_zero", 0, 10>>, <<"ABS_scalar", 0, 11>>,
         <<"SQXTN_scalar", 0, 20>>, <<"USQADD_scalar", 1, 3>>, <<"SQNEG_scalar", 1, 7>>,
         <<"CMGE_scalar_zero", 1, 8>>, <<"CMLE_scalar_zero", 1, 9>>, <<"NEG_scalar", 1, 11>>,
         <<"SQXTUN_scalar", 1, 18>>, <<"UQXTN_scalar", 1, 20>>})
    \cup Rows({<<30, 31, 1>>, <<24, 28, 30>>, <<17, 21, 16>>, <<10, 11, 2>>}, <<<<29, 29>>, <<23, 23>>, <<12, 16>>>>, {
         <<"FCVTNS_scalar", 0, 0, 26>>, <<"FCVTMS_scalar", 0, 0, 27>>, <<"FCVTAS_scalar", 0, 0, 28>>,
         <<"SCVTF_scalar_int", 0, 0, 29>>, <<"FCMGT_scalar_zero", 0, 1, 12>>, <<"FCMEQ_scalar_zero", 0, 1, 13>>,
         <<"FCMLT_scalar_zero", 0, 1, 14>>, <<"FCVTPS_scalar", 0, 1, 26>>, <<"FCVTZS_scalar_int", 0, 1, 27>>,
         <<"FRECPE_scalar", 0, 1, 29>>, <<"FRECPX_scalar", 0, 1, 31>>, <<"FCVTXN_scalar", 1, 0, 22>>,
         <<"FCVTNU_scalar", 1, 0, 26>>, <<"FCVTMU_scalar", 1, 0, 27>>, <<"FCVTAU_scalar", 1, 0, 28>>,
         <<"UCVTF_scalar_int", 1, 0, 29>>, <<"FCMGE_scalar_zero", 1, 1, 12>>, <<"FCMLE_scalar_zero", 1, 1, 13>>,
         <<"FCVTPU_scalar", 1, 1, 26>>, <<"FCVTZU_scalar_int", 1, 1, 27>>, <<"FRSQRTE_scalar", 1, 1, 29>>})

\* Advanced SIMD scalar pairwise
InstScalarPairwise ==
    Rows({<<24, 31, 94>>, <<10, 21, 3182>>}, <<>>, {<<"ADDP_scalar">>})
    \cup Rows({<<24, 31, 126>>, <<14, 21, 195>>, <<10, 11, 2>>}, <<<<23, 23>>, <<12, 13>>>>, {
         <<"FMAXNMP_scalar", 0, 0>>, <<"FADDP_scalar", 0, 1>>, <<"FMAXP_scalar", 0, 3>>, <<"FMINNMP_scalar", 1, 0>>,
         <<"FMINP_scalar", 1, 3>>})

\* Advanced SIMD scalar three different
InstScalar3Different ==
    Rows({<<24, 31, 94>>, <<21, 21, 1>>, <<15, 15, 1>>, <<10, 12, 4>>}, <<<<13, 14>>>>, {
         <<"SQDMLAL_scalar", 0>>, <<"SQDMLSL_scalar", 1>>, <<"SQDMULL_scalar", 2>>})

\* Advanced SIMD scalar three same
InstScalar3Same ==
    Rows({<<30, 31, 1>>, <<24, 28, 30>>, <<21, 21, 1>>, <<10, 10, 1>>}, <<<<29, 29>>, <<11, 15>>>>, {
         <<"SQADD_scalar", 0, 1>>, <<"SQSUB_scalar", 0, 5>>, <<"CMGT_scalar_reg", 0, 6>>,
         <<"CMGE_scalar_reg", 0, 7>>, <<"SSHL_scalar", 0, 8>>, <<"SQSHL_scalar_reg", 0, 9>>,
         <<"SRSHL_scalar", 0, 10>>, <<"SQRSHL_scalar", 0, 11>>, <<"ADD_scalar", 0, 16>>, <<"CMTST_scalar", 0, 17>>,
         <<"SQDMULH_scalar", 0, 22>>, <<"UQADD_scalar", 1, 1>>, <<"UQSUB_scalar", 1, 5>>,
         <<"CMHI_scalar_reg", 1, 6>>, <<"CMHS_scalar_reg", 1, 7>>, <<"USHL_scalar", 1, 8>>,
         <<"UQSHL_scalar_reg", 1, 9>>, <<"URSHL_scalar", 1, 10>>, <<"UQRSHL_scalar", 1, 11>>,
         <<"SUB_scalar", 1, 16>>, <<"CMEQ_scalar_reg", 1, 17>>, <<"SQRDMULH_scalar", 1, 22>>})
    \cup Rows({<<30, 31, 1>>, <<24, 28, 30>>, <<21, 21, 1>>, <<14, 15, 3>>, <<10, 10, 1>>}, <<<<29, 29>>, <<23, 23>>, <<11, 13>>>>, {
         <<"FMULX_scalar", 0, 0, 3>>, <<"FCMEQ_scalar_reg", 0, 0, 4>>, <<"FRECPS_scalar", 0, 0, 7>>,
         <<"FRSQRTS_scalar", 0, 1, 7>>, <<"FCMGE_scalar_reg", 1, 0, 4>>, <<"FACGE_scalar", 1, 0, 5>>,
         <<"FABD_scalar", 1, 1, 2>>, <<"FCMGT_scalar_reg", 1, 1, 4>>, <<"FACGT_scalar", 1, 1, 5>>})

\* Advanced SIMD scalar shift by immediate
InstScalarShiftImm ==
    RowsExcept({<<30, 31, 1>>, <<23, 28, 62>>, <<10, 10, 1>>}, <<<<29, 29>>, <<11, 15>>>>, {
         <<"SSHR_scalar", 0, 0>>, <<"SSRA_scalar", 0, 2>>, <<"SRSHR_scalar", 0, 4>>, <<"SRSRA_scalar", 0, 6>>,
         <<"SHL_scalar", 0, 10>>, <<"SQSHL_scalar_imm", 0, 14>>, <<"SQSHRN_scalar", 0, 18>>,
         <<"SQRSHRN_scalar", 0, 19>>, <<"SCVTF_scalar_fixed", 0, 28>>, <<"FCVTZS_scalar_fixed", 0, 31>>,
         <<"USHR_scalar", 1, 0>>, <<"USRA_scalar", 1, 2>>, <<"URSHR_scalar", 1, 4>>, <<"URSRA_scalar", 1, 6>>,
         <<"SRI_scalar", 1, 8>>, <<"SLI_scalar", 1, 10>>, <<"SQSHLU_scalar", 1, 12>>, <<"UQSHL_scalar_imm", 1, 14>>,
         <<"SQSHRUN_scalar", 1, 16>>, <<"SQRSHRUN_scalar", 1, 17>>, <<"UQSHRN_scalar", 1, 18>>,
         <<"UQRSHRN_scalar", 1, 19>>, <<"UCVTF_scalar_fixed", 1, 28>>, <<"FCVTZU_scalar_fixed", 1, 31>>},
         {{19, 20, 21, 22}}, {})

\* Advanced SIMD scalar x indexed element
InstScalarXIndexed ==
    Rows({<<24, 31, 95>>, <<10, 10, 0>>}, <<<<12, 15>>>>, {<<"SQDMLAL_scalar_element", 3>>,
         <<"SQDMLSL_scalar_element", 7>>, <<"SQDMULL_scalar_element", 11>>, <<"SQDMULH_scalar_element", 12>>,
         <<"SQRDMULH_scalar_element", 13>>})
    \cup Rows({<<30, 31, 1>>, <<23, 28, 63>>, <<12, 13, 1>>, <<10, 10, 0>>}, <<<<29, 29>>, <<14, 15>>>>, {
         <<"FMLA_scalar_element", 0, 0>>, <<"FMLS_scalar_element", 0, 1>>, <<"FMUL_scalar_element", 0, 2>>,
         <<"FMULX_scalar_element", 1, 2>>})

\* Advanced SIMD table lookup
InstTableLookup ==
    Rows({<<31, 31, 0>>, <<21, 29, 112>>, <<15, 15, 0>>, <<10, 11, 0>>}, <<<<12, 14>>>>, {<<"TBL_one_reg", 0>>,
         <<"TBX_one_reg", 1>>, <<"TBL_two_reg", 2>>, <<"TBX_two_reg", 3>>, <<"TBL_three_reg", 4>>,
         <<"TBX_three_reg", 5>>, <<"TBL_four_reg", 6>>, <<"TBX_four_reg", 7>>})

\* Advanced SIMD permute
InstPermute ==
    Rows({<<31, 31, 0>>, <<24, 29, 14>>, <<21, 21, 0>>, <<15, 15, 0>>, <<10, 11, 2>>}, <<<<12, 14>>>>, {
         <<"UZP1", 1>>, <<"TRN1", 2>>, <<"ZIP1", 3>>, <<"UZP2", 5>>, <<"TRN2", 6>>, <<"ZIP2", 7>>})

\* Advanced SIMD extract
InstSIMDExtract ==
    Rows({<<31, 31, 0>>, <<21, 29, 368>>, <<15, 15, 0>>, <<10, 10, 0>>}, <<>>, {<<"EXT">>})

\* Advanced SIMD copy
InstSIMDCopy ==
    RowsExcept({<<31, 31, 0>>, <<21, 29, 112>>, <<12, 15, 0>>, <<10, 10, 1>>}, <<<<11, 11>>>>, {
         <<"DUP_element_vec", 0>>, <<"DUP_general", 1>>}, {{16, 17, 18, 19}}, {})
    \cup RowsExcept({<<31, 31, 0>>, <<21, 29, 112>>, <<14, 15, 0>>, <<10, 11, 3>>}, <<<<30, 30>>, <<12, 13>>>>, {
         <<"SMOV_32", 0, 2>>, <<"UMOV_32", 0, 3>>, <<"INS_general", 1, 1>>, <<"SMOV_64", 1, 2>>},
         {{16, 17, 18, 19}}, {})
    \cup RowsExcept({<<21, 31, 624>>, <<10, 19, 527>>}, <<>>, {<<"UMOV_64">>}, {{16, 17, 18, 19}}, {})
    \cup RowsExcept({<<21, 31, 880>>, <<15, 15, 0>>, <<10, 10, 1>>}, <<>>, {<<"INS_element">>}, {{16, 17, 18, 19}}, {})

\* Advanced SIMD two-register miscellaneous
InstSIMD2Reg ==
    Rows({<<31, 31, 0>>, <<24, 28, 14>>, <<16, 21, 32>>, <<10, 11, 2>>}, <<<<29, 29>>, <<12, 15>>>>, {
         <<"REV64_vec", 0, 0>>, <<"REV16_vec", 0, 1>>, <<"SADDLP_vec", 0, 2>>, <<"SUQADD_vec", 0, 3>>,
         <<"CLS_vec", 0, 4>>, <<"CNT_vec", 0, 5>>, <<"SADALP_vec", 0, 6>>, <<"SQABS_vec", 0, 7>>,
         <<"CMGT_vec_zero", 0, 8>>, <<"CMEQ_vec_zero", 0, 9>>, <<"CMLT_vec_zero", 0, 10>>, <<"ABS_vec", 0, 11>>,
         <<"REV32_vec", 1, 0>>, <<"UADDLP_vec", 1, 2>>, <<"USQADD_vec", 1, 3>>, <<"CLZ_vec", 1, 4>>,
         <<"UADALP_vec", 1, 6>>, <<"SQNEG_vec", 1, 7>>, <<"CMGE_vec_zero", 1, 8>>, <<"CMLE_vec_zero", 1, 9>>,
         <<"NEG_vec", 1, 11>>})
    \cup Rows({<<31, 31, 0>>, <<24, 28, 14>>, <<15, 21, 66>>, <<10, 11, 2>>}, <<<<29, 30>>, <<12, 14>>>>, {
         <<"XTN_vec", 0, 2>>, <<"XTN2_vec", 2, 2>>, <<"SQXTN_vec", 0, 4>>, <<"SQXTN2_vec", 2, 4>>,
         <<"SQXTUN_vec", 1, 2>>, <<"SQXTUN2_vec", 3, 2>>, <<"SHLL_vec", 1, 3>>, <<"SHLL2_vec", 3, 3>>,
         <<"UQXTN_vec", 1, 4>>, <<"UQXTN2_vec", 3, 4>>})
    \cup Rows({<<31, 31, 0>>, <<23, 28, 28>>, <<13, 21, 267>>, <<10, 11, 2>>}, <<<<29, 30>>, <<12, 12>>>>, {
         <<"FCVTN_vec", 0, 0>>, <<"FCVTN2_vec", 2, 0>>, <<"FCVTL_vec", 0, 1>>, <<"FCVTL2_vec", 2, 1>>,
         <<"FCVTXN_vec", 1, 0>>, <<"FCVTXN2_vec", 3, 0>>})
    \cup Rows({<<31, 31, 0>>, <<24, 28, 14>>, <<17, 21, 16>>, <<15, 15, 1>>, <<10, 11, 2>>}, <<<<29, 29>>, <<23, 23>>, <<16, 16>>, <<12, 14>>>>, {
         <<"FRINTN_vec", 0, 0, 1, 0>>, <<"FRINTM_vec", 0, 0, 1, 1>>, <<"FCVTNS_vec", 0, 0, 1, 2>>,
         <<"FCVTMS_vec", 0, 0, 1, 3>>, <<"FCVTAS_vec", 0, 0, 1, 4>>, <<"SCVTF_vec_int", 0, 0, 1, 5>>,
         <<"FCMGT_vec_zero", 0, 1, 0, 4>>, <<"FCMEQ_vec_zero", 0, 1, 0, 5>>, <<"FCMLT_vec_zero", 0, 1, 0, 6>>,
         <<"FABS_vec", 0, 1, 0, 7>>, <<"FRINTP_vec", 0, 1, 1, 0>>, <<"FRINTZ_vec", 0, 1, 1, 1>>,
         <<"FCVTPS_vec", 0, 1, 1, 2>>, <<"FCVTZS_vec_int", 0, 1, 1, 3>>, <<"URECPE_vec", 0, 1, 1, 4>>,
         <<"FRECPE_vec", 0, 1, 1, 5>>, <<"FRINTA_vec", 1, 0, 1, 0>>, <<"FRINTX_vec", 1, 0, 1, 1>>,
         <<"FCVTNU_vec", 1, 0, 1, 2>>, <<"FCVTMU_vec", 1, 0, 1, 3>>, <<"FCVTAU_vec", 1, 0, 1, 4>>,
         <<"UCVTF_vec_int", 1, 0, 1, 5>>, <<"FCMGE_vec_zero", 1, 1, 0, 4>>, <<"FCMLE_vec_zero", 1, 1, 0, 5>>,
         <<"FNEG_vec", 1, 1, 0, 7>>, <<"FRINTI_vec", 1, 1, 1, 1>>, <<"FCVTPU_vec", 1, 1, 1, 2>>,
         <<"FCVTZU_vec_int", 1, 1, 1, 3>>, <<"URSQRTE_vec", 1, 1, 1, 4>>, <<"FRSQRTE_vec", 1, 1, 1, 5>>,
         <<"FSQRT_vec", 1, 1, 1, 7>>})
    \cup Rows({<<31, 31, 0>>, <<23, 29, 92>>, <<10, 21, 2070>>}, <<<<22, 22>>>>, {<<"NOT_vec", 0>>,
         <<"RBIT_vec", 1>>})

\* Advanced SIMD across lanes
InstAcrossLanes ==
    Rows({<<31, 31, 0>>, <<24, 28, 14>>, <<17, 21, 24>>, <<13, 14, 1>>, <<10, 11, 2>>}, <<<<29, 29>>, <<15, 16>>, <<12, 12>>>>, {
         <<"SADDLV_vec", 0, 0, 1>>, <<"SMAXV_vec", 0, 1, 0>>, <<"SMINV_vec", 0, 3, 0>>, <<"ADDV_vec", 0, 3, 1>>,
         <<"UADDLV_vec", 1, 0, 1>>, <<"UMAXV_vec", 1, 1, 0>>, <<"UMINV_vec", 1, 3, 0>>})
    \cup Rows({<<31, 31, 0>>, <<24, 29, 46>>, <<14, 21, 195>>, <<10, 11, 2>>}, <<<<23, 23>>, <<12, 13>>>>, {
         <<"FMAXNMV_vec", 0, 0>>, <<"FMAXV_vec", 0, 3>>, <<"FMINNMV_vec", 1, 0>>, <<"FMINV_vec", 1, 3>>})

\* Advanced SIMD three different
InstSIMD3Different ==
    Rows({<<31, 31, 0>>, <<24, 28, 14>>, <<21, 21, 1>>, <<10, 11, 0>>}, <<<<29, 30>>, <<12, 15>>>>, {
         <<"SADDL", 0, 0>>, <<"SADDL2", 2, 0>>, <<"SADDW", 0, 1>>, <<"SADDW2", 2, 1>>, <<"SSUBL", 0, 2>>,
         <<"SSUBL2", 2, 2>>, <<"SSUBW", 0, 3>>, <<"SSUBW2", 2, 3>>, <<"ADDHN", 0, 4>>, <<"ADDHN2", 2, 4>>,
         <<"SABAL", 0, 5>>, <<"SABAL2", 2, 5>>, <<"SUBHN", 0, 6>>, <<"SUBHN2", 2, 6>>, <<"SABDL", 0, 7>>,
         <<"SABDL2", 2, 7>>, <<"SMLAL_vec", 0, 8>>, <<"SMLAL2_vec", 2, 8>>, <<"SQDMLAL_vec", 0, 9>>,
         <<"SQDMLAL2_vec", 2, 9>>, <<"SMLSL_vec", 0, 10>>, <<"SMLSL2_vec", 2, 10>>, <<"SQDMLSL_vec", 0, 11>>,
         <<"SQDMLSL2_vec", 2, 11>>, <<"SMULL_vec", 0, 12>>, <<"SMULL2_vec", 2, 12>>, <<"SQDMULL_vec", 0, 13>>,
         <<"SQDMULL2_vec", 2, 13>>, <<"PMULL", 0, 14>>, <<"PMULL2", 2, 14>>, <<"UADDL", 1, 0>>, <<"UADDL2", 3, 0>>,
         <<"UADDW", 1, 1>>, <<"UADDW2", 3, 1>>, <<"USUBL", 1, 2>>, <<"USUBL2", 3, 2>>, <<"USUBW", 1, 3>>,
         <<"USUBW2", 3, 3>>, <<"RADDHN", 1, 4>>, <<"RADDHN2", 3, 4>>, <<"UABAL", 1, 5>>, <<"UABAL2", 3, 5>>,
         <<"RSUBHN", 1, 6>>, <<"RSUBHN2", 3, 6>>, <<"UABDL", 1, 7>>, <<"UABDL2", 3, 7>>, <<"UMLAL_vec", 1, 8>>,
         <<"UMLAL2_vec", 3, 8>>, <<"UMLSL_vec", 1, 10>>, <<"UMLSL2_vec", 3, 10>>, <<"UMULL_vec", 1, 12>>,
         <<"UMULL2_vec", 3, 12>>})

\* Advanced SIMD three same
InstSIMD3Same ==
    Rows({<<31, 31, 0>>, <<24, 28, 14>>, <<21, 21, 1>>, <<10, 10, 1>>}, <<<<29, 29>>, <<11, 15>>>>, {
         <<"SHADD_vec", 0, 0>>, <<"SQADD_vec", 0, 1>>, <<"SRHADD_vec", 0, 2>>, <<"SHSUB_vec", 0, 4>>,
         <<"SQSUB_vec", 0, 5>>, <<"CMGT_vec_reg", 0, 6>>, <<"CMGE_vec_reg", 0, 7>>, <<"SSHL_vec", 0, 8>>,
         <<"SQSHL_vec_reg", 0, 9>>, <<"SRSHL_vec", 0, 10>>, <<"SQRSHL_vec", 0, 11>>, <<"SMAX_vec", 0, 12>>,
         <<"SMIN_vec", 0, 13>>, <<"SABD_vec", 0, 14>>, <<"SABA_vec", 0, 15>>, <<"ADD_vec", 0, 16>>,
         <<"CMTST_vec", 0, 17>>, <<"MLA_vec", 0, 18>>, <<"MUL_vec", 0, 19>>, <<"SMAXP_vec", 0, 20>>,
         <<"SMINP_vec", 0, 21>>, <<"SQDMULH_vec", 0, 22>>, <<"ADDP_vec", 0, 23>>, <<"UHADD_vec", 1, 0>>,
         <<"UQADD_vec", 1, 1>>, <<"URHADD_vec", 1, 2>>, <<"UHSUB_vec", 1, 4>>, <<"UQSUB_vec", 1, 5>>,
         <<"CMHI_vec_reg", 1, 6>>, <<"CMHS_vec_reg", 1, 7>>, <<"USHL_vec", 1, 8>>, <<"UQSHL_vec_reg", 1, 9>>,
         <<"URSHL_vec", 1, 10>>, <<"UQRSHL_vec", 1, 11>>, <<"UMAX_vec", 1, 12>>, <<"UMIN_vec", 1, 13>>,
         <<"UABD_vec", 1, 14>>, <<"UABA_vec", 1, 15>>, <<"SUB_vec", 1, 16>>, <<"CMEQ_vec_reg", 1, 17>>,
         <<"MLS_vec", 1, 18>>, <<"PMUL_vec", 1, 19>>, <<"UMAXP_vec", 1, 20>>, <<"UMINP_vec", 1, 21>>,
         <<"SQRDMULH_vec", 1, 22>>})
    \cup Rows({<<31, 31, 0>>, <<24, 28, 14>>, <<21, 21, 1>>, <<14, 15, 3>>, <<10, 10, 1>>}, <<<<29, 29>>, <<23, 23>>, <<11, 13>>>>, {
         <<"FMAXNM_vec", 0, 0, 0>>, <<"FMLA_vec", 0, 0, 1>>, <<"FADD_vec", 0, 0, 2>>, <<"FMULX_vec", 0, 0, 3>>,
         <<"FCMEQ_vec_reg", 0, 0, 4>>, <<"FMAX_vec", 0, 0, 6>>, <<"FRECPS_vec", 0, 0, 7>>, <<"FMINNM_vec", 0, 1, 0>>,
         <<"FMLS_vec", 0, 1, 1>>, <<"FSUB_vec", 0, 1, 2>>, <<"FMIN_vec", 0, 1, 6>>, <<"FRSQRTS_vec", 0, 1, 7>>,
         <<"FMAXNMP_vec", 1, 0, 0>>, <<"FADDP_vec", 1, 0, 2>>, <<"FMUL_vec", 1, 0, 3>>, <<"FCMGE_vec_reg", 1, 0, 4>>,
         <<"FACGE_vec", 1, 0, 5>>, <<"FMAXP_vec", 1, 0, 6>>, <<"FDIV_vec", 1, 0, 7>>, <<"FMINNMP_vec", 1, 1, 0>>,
         <<"FABD_vec", 1, 1, 2>>, <<"FCMGT_vec_reg", 1, 1, 4>>, <<"FACGT_vec", 1, 1, 5>>, <<"FMINP_vec", 1, 1, 6>>})
    \cup Rows({<<31, 31, 0>>, <<24, 28, 14>>, <<21, 21, 1>>, <<10, 15, 7>>}, <<<<29, 29>>, <<22, 23>>>>, {
         <<"AND_vec", 0, 0>>, <<"BIC_vec_reg", 0, 1>>, <<"ORR_vec_reg", 0, 2>>, <<"ORN_vec", 0, 3>>,
         <<"EOR_vec", 1, 0>>, <<"BSL_vec", 1, 1>>, <<"BIT_vec", 1, 2>>, <<"BIF_vec", 1, 3>>})

\* Advanced SIMD modified immediate
InstModifiedImm ==
    Rows({<<31, 31, 0>>, <<19, 28, 480>>, <<15, 15, 0>>, <<10, 11, 1>>}, <<<<29, 29>>, <<12, 12>>>>, {
         <<"MOVI_32_shifted_imm", 0, 0>>, <<"ORR_vec_imm_32", 0, 1>>, <<"MVNI_32_shifted_imm", 1, 0>>,
         <<"BIC_vec_imm_32", 1, 1>>})
    \cup Rows({<<31, 31, 0>>, <<19, 28, 480>>, <<14, 15, 2>>, <<10, 11, 1>>}, <<<<29, 29>>, <<12, 12>>>>, {
         <<"MOVI_16_shifted_imm", 0, 0>>, <<"ORR_vec_imm_16", 0, 1>>, <<"MVNI_16_shifted_imm", 1, 0>>,
         <<"BIC_vec_imm_16", 1, 1>>})
    \cup Rows({<<31, 31, 0>>, <<19, 28, 480>>, <<13, 15, 6>>, <<10, 11, 1>>}, <<<<29, 29>>>>, {
         <<"MOVI_32_shifting_ones", 0>>, <<"MVNI_32_shifting_ones", 1>>})
    \cup Rows({<<31, 31, 0>>, <<19, 29, 480>>, <<13, 15, 7>>, <<10, 11, 1>>}, <<<<12, 12>>>>, {<<"MOVI_8_imm", 0>>,
         <<"FMOV_vec_imm_single", 1>>})
    \cup Rows({<<31, 31, 0>>, <<19, 29, 1504>>, <<13, 15, 7>>, <<10, 11, 1>>}, <<<<30, 30>>, <<12, 12>>>>, {
         <<"MOVI_64_scalar", 0, 0>>, <<"MOVI_64_vec", 1, 0>>, <<"FMOV_vec_imm_double", 1, 1>>})

\* Advanced SIMD shift by immediate
InstShiftImm ==
    RowsExcept({<<31, 31, 0>>, <<23, 28, 30>>, <<10, 10, 1>>}, <<<<29, 29>>, <<11, 15>>>>, {
         <<"SSHR_vec", 0, 0>>, <<"SSRA_vec", 0, 2>>, <<"SRSHR_vec", 0, 4>>, <<"SRSRA_vec", 0, 6>>,
         <<"SHL_vec", 0, 10>>, <<"SQSHL_vec_imm", 0, 14>>, <<"SCVTF_vec_fixed", 0, 28>>,
         <<"FCVTZS_vec_fixed", 0, 31>>, <<"USHR_vec", 1, 0>>, <<"USRA_vec", 1, 2>>, <<"URSHR_vec", 1, 4>>,
         <<"URSRA_vec", 1, 6>>, <<"SRI_vec", 1, 8>>, <<"SLI_vec", 1, 10>>, <<"SQSHLU_vec", 1, 12>>,
         <<"UQSHL_vec_imm", 1, 14>>, <<"UCVTF_vec_fixed", 1, 28>>, <<"FCVTZU_vec_fixed", 1, 31>>},
         {{19, 20, 21, 22}}, {})
    \cup RowsExcept({<<31, 31, 0>>, <<23, 28, 30>>, <<14, 15, 2>>, <<10, 10, 1>>}, <<<<29, 30>>, <<11, 13>>>>, {
         <<"SHRN_vec", 0, 0>>, <<"SHRN2_vec", 2, 0>>, <<"RSHRN_vec", 0, 1>>, <<"RSHRN2_vec", 2, 1>>,
         <<"SQSHRN_vec", 0, 2>>, <<"SQSHRN2_vec", 2, 2>>, <<"SQRSHRN_vec", 0, 3>>, <<"SQRSHRN2_vec", 2, 3>>,
         <<"SSHLL_vec", 0, 4>>, <<"SSHLL2_vec", 2, 4>>, <<"SQSHRUN_vec", 1, 0>>, <<"SQSHRUN2_vec", 3, 0>>,
         <<"SQRSHRUN_vec", 1, 1>>, <<"SQRSHRUN2_vec", 3, 1>>, <<"UQSHRN_vec", 1, 2>>, <<"UQSHRN2_vec", 3, 2>>,
         <<"UQRSHRN_vec", 1, 3>>, <<"UQRSHRN2_vec", 3, 3>>, <<"USHLL_vec", 1, 4>>, <<"USHLL2_vec", 3, 4>>},
         {{19, 20, 21, 22}}, {})

\* Advanced SIMD vector x indexed element
InstVectorXIndexed ==
    Rows({<<31, 31, 0>>, <<24, 28, 15>>, <<13, 13, 1>>, <<10, 10, 0>>}, <<<<29, 30>>, <<14, 15>>, <<12, 12>>>>, {
         <<"SMLAL_vec_element", 0, 0, 0>>, <<"SMLAL2_vec_element", 2, 0, 0>>, <<"SQDMLAL_vec_element", 0, 0, 1>>,
         <<"SQDMLAL2_vec_element", 2, 0, 1>>, <<"SMLSL_vec_element", 0, 1, 0>>, <<"SMLSL2_vec_element", 2, 1, 0>>,
         <<"SQDMLSL_vec_element", 0, 1, 1>>, <<"SQDMLSL2_vec_element", 2, 1, 1>>, <<"SMULL_vec_element", 0, 2, 0>>,
         <<"SMULL2_vec_element", 2, 2, 0>>, <<"SQDMULL_vec_element", 0, 2, 1>>, <<"SQDMULL2_vec_element", 2, 2, 1>>,
         <<"UMLAL_vec_element", 1, 0, 0>>, <<"UMLAL2_vec_element", 3, 0, 0>>, <<"UMLSL_vec_element", 1, 1, 0>>,
         <<"UMLSL2_vec_element", 3, 1, 0>>, <<"UMULL_vec_element", 1, 2, 0>>, <<"UMULL2_vec_element", 3, 2, 0>>})
    \cup Rows({<<31, 31, 0>>, <<24, 28, 15>>, <<13, 13, 0>>, <<10, 10, 0>>}, <<<<29, 29>>, <<14, 15>>, <<12, 12>>>>, {
         <<"MUL_vec_element", 0, 2, 0>>, <<"SQDMULH_vec_element", 0, 3, 0>>, <<"SQRDMULH_vec_element", 0, 3, 1>>,
         <<"MLA_vec_element", 1, 0, 0>>, <<"MLS_vec_element", 1, 1, 0>>})
    \cup Rows({<<31, 31, 0>>, <<23, 28, 31>>, <<12, 13, 1>>, <<10, 10, 0>>}, <<<<29, 29>>, <<14, 15>>>>, {
         <<"FMLA_vec_element", 0, 0>>, <<"FMLS_vec_element", 0, 1>>, <<"FMUL_vec_element", 0, 2>>,
         <<"FMULX_vec_element", 1, 2>>})

\* The sections in the order of the file, which is the order of the scan.
Sections ==
    <<InstBranch, InstExceptionGenerating, InstSystem, InstSystemSpecific, InstPCRel, InstAddSubImm,
      InstLogicalImm, InstMoveWide, InstBitfield, InstExtract, InstDP2Source, InstDP1Source, InstLogicalReg,
      InstAddSubShifted, InstAddSubExtended, InstAddSubCarry, InstCondCmpReg, InstCondCmpImm, InstCondSel,
      InstDP3Source, InstMultiple, InstMultiplePost, InstSingle, InstSinglePost, InstExclusive, InstLiteral,
      InstPairNoAllocate, InstPairPost, InstPairOffset, InstPairPre, InstRegUnscaled, InstRegPost,
      InstRegUnprivileged, InstRegPre, InstRegOff, InstRegUnsignedImm, InstFloatFixed, InstFloatInt,
      InstFloatDP1, InstFloatCmp, InstFloatImm, InstFloatCondCmp, InstFloatDP2, InstFloatCondSel, InstFloatDP3,
      InstAES, InstSHA3Reg, InstSHA2Reg, InstScalarCopy, InstScalar2Reg, InstScalarPairwise,
      InstScalar3Different, InstScalar3Same, InstScalarShiftImm, InstScalarXIndexed, InstTableLookup,
      InstPermute, InstSIMDExtract, InstSIMDCopy, InstSIMD2Reg, InstAcrossLanes, InstSIMD3Different,
      InstSIMD3Same, InstModifiedImm, InstShiftImm, InstVectorXIndexed>>

Table == UNION {Sections[i] : i \in DOMAIN Sections}
=============================================================================
