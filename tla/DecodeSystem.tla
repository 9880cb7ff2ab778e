---------------------------- MODULE DecodeSystem ----------------------------
(***************************************************************************)
(* decode/decodeSystem.cpp: system and exception generating instructions.  *)
(***************************************************************************)
EXTENDS BitUtils

\* CRn = 2: hints, the first six of which have ids of their own.
Hint(w) ==
    IF bitRange(w, 16, 18) # 3 \/ bitRange(w, 0, 4) # 31 THEN INVALID
    ELSE IF bitRange(w, 8, 11) # 0 THEN "HINT"
    ELSE Arm(<<"NOP", "YIELD", "WFE", "WFI", "SEV", "SEVL", "HINT", "HINT">>, bitRange(w, 5, 7))

\* CRn = 3: barriers and CLREX.
BarrierOrClrex(w) ==
    IF bitRange(w, 16, 18) # 3 \/ bitRange(w, 0, 4) # 31 THEN INVALID
    ELSE ArmOf(2 :> "CLREX" @@ 4 :> "DSB" @@ 5 :> "DMB" @@ 6 :> "ISB", bitRange(w, 5, 7))

decodeSystem(w) ==
    LET op0 == bitRange(w, 19, 20)
        CRn == bitRange(w, 12, 15)
    IN  IF testBit(w, 21) THEN Arm(<<INVALID, "SYSL", "MRS", "MRS">>, op0)
        ELSE IF op0 # 0 THEN Arm(<<INVALID, "SYS", "MSR_reg", "MSR_reg">>, op0)
        ELSE CASE CRn = 2 -> Hint(w)
               [] CRn = 3 -> BarrierOrClrex(w)
               [] CRn = 4 /\ bitRange(w, 0, 4) = 31 -> "MSR_imm"
               [] OTHER -> INVALID

decodeExceptionGenerating(w) ==
    LET arms == 0 :> <<INVALID, "SVC", "HVC", "SMC">>
             @@ 1 :> <<"BRK", INVALID, INVALID, INVALID>>
             @@ 2 :> <<"HLT", INVALID, INVALID, INVALID>>
             @@ 5 :> <<INVALID, "DCPS1", "DCPS2", "DCPS3">>
    IN  IF bitRange(w, 2, 4) # 0 \/ bitRange(w, 21, 23) \notin DOMAIN arms THEN INVALID
        ELSE Arm(arms[bitRange(w, 21, 23)], bitRange(w, 0, 1))
=============================================================================
