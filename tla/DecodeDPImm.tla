---------------------------- MODULE DecodeDPImm ----------------------------
(***************************************************************************)
(* decode/decodeDPImm.cpp: data processing with an immediate.  One         *)
(* operator per function; an operator's value is what it leaves in inst.id.*)
(***************************************************************************)
EXTENDS BitUtils

decodePCRel(w) == IF testBit(w, 31) THEN "ADRP" ELSE "ADR"

decodeAddSubImm(w) ==
    IF bitRange(w, 22, 23) > 1 THEN INVALID
    ELSE Arm(<<"ADD", "ADDS", "SUB", "SUBS">>, bitRange(w, 29, 30)) \o Sf(w) \o "_imm"

decodeLogicalImm(w) ==
    IF ~testBit(w, 31) /\ testBit(w, 22) THEN INVALID
    ELSE Arm(<<"AND", "ORR", "EOR", "ANDS">>, bitRange(w, 29, 30)) \o Sf(w) \o "_imm"

decodeMoveWide(w) ==
    IF (~testBit(w, 31) /\ bitRange(w, 21, 22) > 1) \/ bitRange(w, 29, 30) = 1 THEN INVALID
    ELSE Arm(<<"MOVN", INVALID, "MOVZ", "MOVK">>, bitRange(w, 29, 30)) \o Sf(w)

decodeBitfield(w) ==
    LET sf == bitRange(w, 31, 31) IN
    IF \/ sf # bitRange(w, 22, 22)
       \/ bitRange(w, 29, 30) = 3
       \/ sf = 0 /\ (bitRange(w, 16, 21) > 31 \/ bitRange(w, 10, 15) > 31)
    THEN INVALID
    ELSE Arm(<<"SBFM", "BFM", "UBFM">>, bitRange(w, 29, 30)) \o Sf(w)

decodeExtract(w) ==
    IF \/ bitRange(w, 29, 30) # 0
       \/ bitRange(w, 31, 31) # bitRange(w, 22, 22)
       \/ testBit(w, 21)
       \/ ~testBit(w, 31) /\ bitRange(w, 10, 15) > 31
    THEN INVALID
    ELSE "EXTR" \o Sf(w)

decodeDPImm(w) ==
    CASE bitRange(w, 23, 25) \in {0, 1} -> decodePCRel(w)
      [] bitRange(w, 23, 25) \in {2, 3} -> decodeAddSubImm(w)
      [] bitRange(w, 23, 25) = 4 -> decodeLogicalImm(w)
      [] bitRange(w, 23, 25) = 5 -> decodeMoveWide(w)
      [] bitRange(w, 23, 25) = 6 -> decodeBitfield(w)
      [] bitRange(w, 23, 25) = 7 -> decodeExtract(w)
=============================================================================
