-------------------------- MODULE DecodeLoadStore --------------------------
(***************************************************************************)
(* decode/decodeLoadStore.cpp: loads and stores.                           *)
(***************************************************************************)
EXTENDS BitUtils

\* L, or isLoad: bit 22.
StLd(w) == IF testBit(w, 22) THEN "LD" ELSE "ST"

\* The structures of LDn/STn (multiple): how many registers each opcode moves.
Multiple(w, post) ==
    LET opcode == bitRange(w, 12, 15)
        regs == 2 :> "_4reg" @@ 6 :> "_3reg" @@ 7 :> "_1reg" @@ 10 :> "_2reg"
        structs == 0 :> "4" @@ 4 :> "3" @@ 8 :> "2"
    IN  CASE opcode \in DOMAIN regs -> StLd(w) \o "1_multi" \o post \o regs[opcode]
          [] opcode \in DOMAIN structs -> StLd(w) \o structs[opcode] \o "_multi" \o post
          [] OTHER -> INVALID

decodeLoadStoreSIMDMultipleStructs(w) == Multiple(w, "")

\* Rm = 31 stands for the transfer size as the increment.
decodeLoadStoreSIMDMultipleStructsPostIndex(w) ==
    Multiple(w, IF bitRange(w, 16, 20) = 31 THEN "_offset" ELSE "_reg")

\* The element size of a single structure, from opcode, S and size.
SingleSize(w) ==
    LET opcode == bitRange(w, 13, 15)
        size == bitRange(w, 10, 11)
    IN  CASE opcode \in {0, 1} -> "_single_8"
          [] opcode \in {2, 3} /\ size % 2 = 0 -> "_single_16"
          [] opcode \in {4, 5} /\ size = 0 -> "_single_32"
          [] opcode \in {4, 5} /\ size = 1 /\ ~testBit(w, 12) -> "_single_64"
          [] OTHER -> INVALID

\* Number of structure elements: bit 0 of the opcode and R.
Elements(w) == Arm(<<"1", "2", "3", "4">>, 2 * bitRange(w, 13, 13) + bitRange(w, 21, 21))

\* L = 0
StoreSingle(w, post) ==
    IF SingleSize(w) = INVALID THEN INVALID ELSE "ST" \o Elements(w) \o SingleSize(w) \o post

\* L = 1: opcodes 6 and 7 load and replicate.
LoadSingle(w, post) ==
    IF bitRange(w, 13, 15) \in {6, 7}
    THEN IF testBit(w, 12) THEN INVALID ELSE "LD" \o Elements(w) \o "R" \o post
    ELSE IF SingleSize(w) = INVALID THEN INVALID ELSE "LD" \o Elements(w) \o SingleSize(w) \o post

decodeLoadStoreSIMDSingleStruct(w) == IF testBit(w, 22) THEN LoadSingle(w, "") ELSE StoreSingle(w, "")

\* Rm # 31: post-indexed by a register; Rm = 31: by the transfer size.
StoreSinglePostReg(w) == StoreSingle(w, "_reg")
LoadSinglePostReg(w) == LoadSingle(w, "_reg")
StoreSinglePostImm(w) == StoreSingle(w, "_imm")
LoadSinglePostImm(w) == LoadSingle(w, "_imm")

decodeLoadStoreSIMDSingleStructPostIndex(w) ==
    IF bitRange(w, 16, 20) # 31
    THEN IF testBit(w, 22) THEN LoadSinglePostReg(w) ELSE StoreSinglePostReg(w)
    ELSE IF testBit(w, 22) THEN LoadSinglePostImm(w) ELSE StoreSinglePostImm(w)

\* o2 (bit 23) set: not exclusive; o1 (bit 21): a pair; o0 (bit 15): ordered.
decodeLoadStoreExclusive(w) ==
    LET size == Arm(<<"B", "H", "32", "64">>, bitRange(w, 30, 31))
        ordered == testBit(w, 15)
        pair == testBit(w, 21)
    IN  CASE testBit(w, 23) /\ (pair \/ ~ordered) -> INVALID
          [] bitRange(w, 30, 31) < 2 /\ pair -> INVALID
          [] testBit(w, 23) /\ ordered /\ ~pair -> (IF testBit(w, 22) THEN "LDAR" ELSE "STLR") \o size
          [] OTHER -> (IF testBit(w, 22) THEN IF ordered THEN "LDAX" ELSE "LDX"
                                         ELSE IF ordered THEN "STLX" ELSE "STX")
                      \o (IF pair THEN "P" ELSE "R") \o size

\* What one register transfer does, by size (bits 30..31) and opc (bits
\* 22..23).  stem is what follows LD/ST, suffix the addressing mode.
IntegerTransfer(w, stem, suffix, prefetch) ==
    LET L(x) == "LD" \o stem \o x \o suffix
        S(x) == "ST" \o stem \o x \o suffix
        arms == << <<S("B"), L("B"), L("SB64"), L("SB32")>>,
                   <<S("H"), L("H"), L("SH64"), L("SH32")>>,
                   <<S("32"), L("32"), L("SW"), INVALID>>,
                   <<S("64"), L("64"), prefetch, INVALID>> >>
    IN  Arm(Arm(arms, bitRange(w, 30, 31)), bitRange(w, 22, 23))

\* The same for a SIMD register; 128 bits are size 0 with opc 2 and 3.
SIMDTransfer(w, stem, suffix) ==
    LET size == bitRange(w, 30, 31)
        opc == bitRange(w, 22, 23)
    IN  CASE size # 0 /\ opc > 1 -> INVALID
          [] size = 0 /\ opc > 1 -> StLd(w) \o stem \o "128" \o suffix
          [] OTHER -> StLd(w) \o stem \o Arm(<<"8", "16", "32", "64">>, size) \o suffix \o "_float"

decodeLoadStoreUnprivileged(w) ==
    IF testBit(w, 26) THEN INVALID ELSE IntegerTransfer(w, "TR", "", INVALID)

decodeLoadStoreRegUnsignedImm(w) ==
    IF testBit(w, 26) THEN SIMDTransfer(w, "R", "_imm") ELSE IntegerTransfer(w, "R", "_imm", "PRFM_imm")

decodeLoadStoreRegImmPostIndex(w) ==
    IF testBit(w, 26) THEN SIMDTransfer(w, "R", "_post") ELSE IntegerTransfer(w, "R", "_post", INVALID)

decodeLoadStoreRegImmPreIndex(w) ==
    IF testBit(w, 26) THEN SIMDTransfer(w, "R", "_pre") ELSE IntegerTransfer(w, "R", "_pre", INVALID)

decodeLoadStoreRegUnscaled(w) ==
    IF testBit(w, 26) THEN SIMDTransfer(w, "UR", "") ELSE IntegerTransfer(w, "UR", "", "PRFM_unscaled")

\* The test of option (bits 13..15) sets INVALID and does not return: what
\* follows overwrites it, so option takes no part in the result.
decodeLoadStoreRegOff(w) ==
    IF testBit(w, 26) THEN SIMDTransfer(w, "R", "_reg") ELSE IntegerTransfer(w, "R", "_reg", "PRFM_reg")

\* Addressing of a pair, op3 (bits 23..24); 0 is the non-temporal pair.
PairSuffix(w) == Arm(<<"", "_post", "_offset", "_pre">>, bitRange(w, 23, 24))
PairStem(w) == IF bitRange(w, 23, 24) = 0 THEN "NP" ELSE "P"

PairSIMD(w) ==
    Arm(<<StLd(w) \o PairStem(w) \o "32" \o PairSuffix(w) \o "_float",
          StLd(w) \o PairStem(w) \o "64" \o PairSuffix(w) \o "_float",
          StLd(w) \o PairStem(w) \o "128" \o PairSuffix(w)>>, bitRange(w, 30, 31))

PairInteger(w) ==
    CASE bitRange(w, 30, 31) = 1 -> IF bitRange(w, 23, 24) = 0 THEN INVALID ELSE "LDPSW" \o PairSuffix(w)
      [] bitRange(w, 30, 31) = 0 -> StLd(w) \o PairStem(w) \o "32" \o PairSuffix(w)
      [] bitRange(w, 30, 31) = 2 -> StLd(w) \o PairStem(w) \o "64" \o PairSuffix(w)

decodeLoadStorePair(w) ==
    LET opc == bitRange(w, 30, 31) IN
    IF opc = 3 \/ (~testBit(w, 22) /\ ~testBit(w, 26) /\ opc = 1) THEN INVALID
    ELSE IF testBit(w, 26) THEN PairSIMD(w) ELSE PairInteger(w)

decodeLoadRegLiteral(w) ==
    IF testBit(w, 26)
    THEN Arm(<<"LDR32_literal_float", "LDR64_literal_float", "LDR128_literal", INVALID>>, bitRange(w, 30, 31))
    ELSE Arm(<<"LDR32_literal", "LDR64_literal", "LDRSW_literal", "PRFM_literal">>, bitRange(w, 30, 31))

\* op1 = 0 and op2 = 1: structures.
LoadStoreStructs(w) ==
    LET op3 == bitRange(w, 23, 24)
        op4 == bitRange(w, 16, 21)
    IN  CASE testBit(w, 31) -> INVALID
          [] op3 = 0 /\ op4 = 0 /\ ~testBit(w, 31) -> decodeLoadStoreSIMDMultipleStructs(w)
          [] op3 = 1 /\ op4 < 32 /\ ~testBit(w, 31) -> decodeLoadStoreSIMDMultipleStructsPostIndex(w)
          [] op3 = 2 /\ op4 \in {0, 32} /\ ~testBit(w, 31) -> decodeLoadStoreSIMDSingleStruct(w)
          [] op3 = 3 /\ ~testBit(w, 31) -> decodeLoadStoreSIMDSingleStructPostIndex(w)
          [] OTHER -> INVALID

\* op1 = 3, op3 < 2: the register forms with a 9-bit immediate or a register.
LoadStoreReg(w) ==
    LET op5 == bitRange(w, 10, 11) IN
    IF testBit(w, 21)
    THEN IF op5 = 2 THEN decodeLoadStoreRegOff(w) ELSE INVALID
    ELSE CASE op5 = 0 -> decodeLoadStoreRegUnscaled(w)
           [] op5 = 1 -> decodeLoadStoreRegImmPostIndex(w)
           [] op5 = 2 -> decodeLoadStoreUnprivileged(w)
           [] op5 = 3 -> decodeLoadStoreRegImmPreIndex(w)

decodeLoadStore(w) ==
    LET op1 == bitRange(w, 28, 29)
        low == ~testBit(w, 24)          \* op3 < 2
    IN  CASE op1 = 0 /\ testBit(w, 26) -> LoadStoreStructs(w)
          [] op1 = 0 /\ ~testBit(w, 26) -> IF low THEN decodeLoadStoreExclusive(w) ELSE INVALID
          [] op1 = 1 -> IF low THEN decodeLoadRegLiteral(w) ELSE INVALID
          [] op1 = 2 -> decodeLoadStorePair(w)
          [] op1 = 3 -> IF low THEN LoadStoreReg(w) ELSE decodeLoadStoreRegUnsignedImm(w)
=============================================================================
