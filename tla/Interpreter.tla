----------------------------- MODULE Interpreter ----------------------------
(***************************************************************************)
(* interpreter/interpreter.cpp: the table of handlers that init() fills    *)
(* and step(), which fetches, decodes and executes one instruction.  The   *)
(* fetch and the decoder (module Decode) are the choice of an instruction  *)
(* from the code of a program.                                             *)
(***************************************************************************)
EXTENDS InterpreterSIMD

CONSTANTS
    Programs,       \* names of the programs that are run
    Code(_),        \* a program: for each place, the instructions it may hold
    Cores(_)        \* the cores on which a program may be started

\* The registered handlers: rows <<id, handler, template arguments ...>>.
registerBranchInstructions ==
    {<<"B_cond", "condBranch">>, <<"BR", "uncondBranchReg", FALSE>>, <<"BLR", "uncondBranchReg", TRUE>>, <<"RET", "uncondBranchReg", FALSE>>,
     <<"B", "uncondBranchImm", FALSE>>, <<"BL", "uncondBranchImm", TRUE>>, <<"TBZ", "testBitBranch", TRUE>>, <<"TBNZ", "testBitBranch", FALSE>>}
    \cup {<<n[1] \o w[1], "compareBranch", w[2], n[2]>> : n \in {<<"CBZ", FALSE>>, <<"CBNZ", TRUE>>}, w \in WidthRows}

AddSubRows == {<<"ADD", FALSE, FALSE>>, <<"ADDS", FALSE, TRUE>>, <<"SUB", TRUE, FALSE>>, <<"SUBS", TRUE, TRUE>>}
LogicalRows == {<<"AND", "and", FALSE, FALSE>>, <<"ORR", "orr", FALSE, FALSE>>, <<"EOR", "eor", FALSE, FALSE>>, <<"ANDS", "and", FALSE, TRUE>>}
NegatedRows == {<<"BIC", "and", TRUE, FALSE>>, <<"ORN", "orr", TRUE, FALSE>>, <<"EON", "eor", TRUE, FALSE>>, <<"BICS", "and", TRUE, TRUE>>}

registerDPImmInstructions ==
    {<<"ADR", "PCRelative", FALSE>>, <<"ADRP", "PCRelative", TRUE>>}
    \cup {<<n[1] \o w[1] \o "_imm", "addSubImm", w[2], n[2], n[3]>> : n \in AddSubRows, w \in WidthRows}
    \cup {<<n[1] \o w[1] \o "_imm", "logical", w[2], n[2], n[4]>> : n \in LogicalRows, w \in WidthRows}
    \cup {<<n \o w[1], "moveWideImm", w[2]>> : n \in {"MOVN", "MOVZ", "MOVK"}, w \in WidthRows}
    \cup {<<n[1] \o w[1], "bitfieldMove", w[2], n[2], n[3]>> :
            n \in {<<"SBFM", TRUE, TRUE>>, <<"BFM", FALSE, FALSE>>, <<"UBFM", TRUE, FALSE>>}, w \in WidthRows}
    \cup {<<"EXTR" \o w[1], "extract", w[2]>> : w \in WidthRows}

registerDPRegInstructions ==
    {<<n[1] \o w[1] \o "_shifted", "logicalShiftedReg", w[2], n[2], n[3], n[4]>> : n \in LogicalRows \cup NegatedRows, w \in WidthRows}
    \cup {<<n[1] \o w[1] \o f[1], f[2], w[2], n[2], n[3]>> :
            n \in AddSubRows, w \in WidthRows, f \in {<<"_shifted", "addSubShiftedReg">>, <<"_extended", "addSubExtendedReg">>}}
    \cup {<<n[1] \o w[1], "addSubCarry", w[2], n[2], n[3]>> :
            n \in {<<"ADC", FALSE, FALSE>>, <<"ADCS", FALSE, TRUE>>, <<"SBC", TRUE, FALSE>>, <<"SBCS", TRUE, TRUE>>}, w \in WidthRows}
    \cup {<<n[1] \o w[1], n[2], w[2]>> :
            n \in {<<"UDIV", "unsignedDivide">>, <<"SDIV", "signedDivide">>, <<"RBIT", "reverseBits">>, <<"REV", "reverseBytes">>,
                   <<"REV16", "reverse16">>, <<"CLZ", "countLeadingClearBits">>, <<"CLS", "countLeadingSetBits">>}, w \in WidthRows}
    \cup {<<"REV32_64", "reverse32">>}
    \cup {<<n[1] \o w[1], "shift", w[2], n[2]>> : n \in {<<"LSLV", LSL>>, <<"LSRV", LSR>>, <<"ASRV", ASR>>, <<"RORV", ROR>>}, w \in WidthRows}
    \cup {<<n[1] \o w[1], "multiply", w[2], n[2]>> : n \in {<<"MADD", FALSE>>, <<"MSUB", TRUE>>}, w \in WidthRows}
    \cup {<<"UMADDL", "uMultiplyLong", FALSE>>, <<"UMSUBL", "uMultiplyLong", TRUE>>, <<"SMADDL", "sMultiplyLong", FALSE>>,
          <<"SMSUBL", "sMultiplyLong", TRUE>>, <<"UMULH", "mulh", FALSE>>, <<"SMULH", "mulh", TRUE>>}
    \cup {<<n[1] \o w[1] \o f[1], f[2], w[2], n[2]>> :
            n \in {<<"CCMN", FALSE>>, <<"CCMP", TRUE>>}, w \in WidthRows, f \in {<<"_reg", "condCompareReg">>, <<"_imm", "condCompareImm">>}}
    \cup {<<n[1] \o w[1], "condSel", w[2], n[2], n[3]>> :
            n \in {<<"CSEL", FALSE, FALSE>>, <<"CSINC", FALSE, TRUE>>, <<"CSINV", TRUE, FALSE>>, <<"CSNEG", TRUE, TRUE>>}, w \in WidthRows}

\* init(): every entry is UNIMPLEMENTED_FUNC until a handler is registered.
Registered ==
    registerBranchInstructions \cup registerSystemInstructions \cup registerDPImmInstructions \cup registerDPRegInstructions
    \cup registerFloatInstructions \cup registerLoadStoreInstructions \cup registerSIMDInstructions
    \cup {<<"INVALID", "invalidInstructionHandler">>}
gInstructionMap == [id \in {row[1] : row \in Registered} |-> CHOOSE row \in Registered : row[1] = id]
getInstructionFunc(id) == IF id \in DOMAIN gInstructionMap THEN gInstructionMap[id] ELSE <<id, "UNIMPLEMENTED_FUNC">>

invalidInstructionHandler(core, inst) == [core EXCEPT !.trap = "illegal"]
UNIMPLEMENTED_FUNC(core, inst) == core      \* logs

\* The cores that a handler may leave: the integer and branch instructions, ...
ExecDP(core, inst, h) ==
    CASE h[2] = "addSubImm" -> {addSubImmGeneric(core, inst, h[3], h[4], h[5])}
      [] h[2] = "moveWideImm" -> {moveWideImmGeneric(core, inst, h[3])}
      [] h[2] = "PCRelative" -> {PCRelativeGeneric(core, inst, h[3])}
      [] h[2] = "logical" -> {logicalGeneric(core, inst, h[3], h[4], h[5])}
      [] h[2] = "bitfieldMove" -> bitfieldMoveGeneric(core, inst, h[3], h[4], h[5])
      [] h[2] = "extract" -> extractGeneric(core, inst, h[3])
      [] h[2] = "logicalShiftedReg" -> {logicalShiftedRegGeneric(core, inst, h[3], h[4], h[5], h[6])}
      [] h[2] = "addSubShiftedReg" -> {addSubShiftedRegGeneric(core, inst, h[3], h[4], h[5])}
      [] h[2] = "addSubExtendedReg" -> {addSubExtendedRegGeneric(core, inst, h[3], h[4], h[5])}
      [] h[2] = "addSubCarry" -> {addSubCarryGeneric(core, inst, h[3], h[4], h[5])}
      [] h[2] = "unsignedDivide" -> {unsignedDivide(core, inst, h[3])}
      [] h[2] = "signedDivide" -> {signedDivide(core, inst, h[3])}
      [] h[2] = "reverseBits" -> {reverseBits(core, inst, h[3])}
      [] h[2] = "reverseBytes" -> {reverseBytes(core, inst, h[3])}
      [] h[2] = "reverse16" -> {reverse16(core, inst, h[3])}
      [] h[2] = "reverse32" -> {reverse32(core, inst)}
      [] h[2] = "countLeadingClearBits" -> {countLeadingClearBits(core, inst, h[3])}
      [] h[2] = "countLeadingSetBits" -> {countLeadingSetBits(core, inst, h[3])}
      [] h[2] = "shift" -> {shiftGeneric(core, inst, h[3], h[4])}
      [] h[2] = "multiply" -> {multiply(core, inst, h[3], h[4])}
      [] h[2] = "uMultiplyLong" -> {uMultiplyLong(core, inst, h[3])}
      [] h[2] = "sMultiplyLong" -> {sMultiplyLong(core, inst, h[3])}
      [] h[2] = "mulh" -> {mulhGeneric(core, inst, h[3])}
      [] h[2] = "condCompareReg" -> {condCompareRegGeneric(core, inst, h[3], h[4])}
      [] h[2] = "condCompareImm" -> {condCompareImmGeneric(core, inst, h[3], h[4])}
      [] h[2] = "condSel" -> {condSelGeneric(core, inst, h[3], h[4], h[5])}
      [] h[2] = "condBranch" -> {condBranch(core, inst)}
      [] h[2] = "uncondBranchReg" -> {uncondBranchRegGeneric(core, inst, h[3])}
      [] h[2] = "uncondBranchImm" -> {uncondBranchImmGeneric(core, inst, h[3])}
      [] h[2] = "compareBranch" -> {compareBranchGeneric(core, inst, h[3], h[4])}
      [] h[2] = "testBitBranch" -> {testBitBranchGeneric(core, inst, h[3])}
      [] OTHER -> {}

\* ... loads and stores, ...
ExecLoadStore(core, inst, h) ==
    CASE h[2] = "storeRegImm" -> {storeRegImmGeneric(core, inst, h[3], h[4])}
      [] h[2] = "loadRegImm" -> {loadRegImmGeneric(core, inst, h[3], h[4])}
      [] h[2] = "storePair" -> {storePairGeneric(core, inst, h[3], h[4])}
      [] h[2] = "loadPair" -> {loadPairGeneric(core, inst, h[3], h[4])}
      [] h[2] = "storeRegOff" -> {storeRegOffGeneric(core, inst, h[3], h[4])}
      [] h[2] = "loadRegOff" -> {loadRegOffGeneric(core, inst, h[3], h[4])}
      [] h[2] = "loadRegLiteral" -> {loadRegLiteralGeneric(core, inst, h[3], h[4])}
      [] OTHER -> {}

\* ... floats, ...
ExecFloat(core, inst, h) ==
    CASE h[2] = "fmovImm" -> {fmovImm(core, inst, h[3])}
      [] h[2] = "floatMove" -> {floatMoveGeneric(core, inst, h[3], h[4])}
      [] h[2] = "floatRound" -> {floatRoundGeneric(core, inst, h[3], h[4])}
      [] h[2] = "floatSqrt" -> {floatSqrtGeneric(core, inst, h[3])}
      [] h[2] = "floatConvert" -> {floatConvertGeneric(core, inst, h[3], h[4])}
      [] h[2] = "floatMul" -> {floatMulGeneric(core, inst, h[3], h[4])}
      [] h[2] = "floatDiv" -> {floatDivGeneric(core, inst, h[3])}
      [] h[2] = "floatMax" -> {floatMaxGeneric(core, inst, h[3], h[4])}
      [] h[2] = "floatMin" -> {floatMinGeneric(core, inst, h[3], h[4])}
      [] h[2] = "floatAdd" -> {floatAddGeneric(core, inst, h[3])}
      [] h[2] = "floatSub" -> {floatSubGeneric(core, inst, h[3])}
      [] h[2] = "floatMulAdd" -> {floatMulAddGeneric(core, inst, h[3], h[4])}
      [] h[2] = "floatCondSelect" -> {floatCondSelectGeneric(core, inst, h[3])}
      [] h[2] = "floatCompare" -> {floatCompareGeneric(core, inst, h[3], h[4])}
      [] h[2] = "floatConvIntToFloat" -> {floatConvIntToFloatGeneric(core, inst, h[3], h[4], h[5])}
      [] h[2] = "floatIntMov" -> {floatIntMovGeneric(core, inst, h[3], h[4])}
      [] h[2] = "floatConvertToInt" -> floatConvertToIntGeneric(core, inst, h[3], h[4], h[5], h[6])
      [] OTHER -> {}

\* ... vectors and the system.
ExecSIMD(core, inst, h) ==
    CASE h[2] = "dupGeneral" -> {dupGeneral(core, inst)}
      [] h[2] = "insGeneral" -> {insGeneral(core, inst)}
      [] h[2] = "fmovVectorImmSingle" -> {fmovVectorImmSingle(core, inst)}
      [] h[2] = "movi" -> {moviGeneral(core, inst, h[3], h[4])}
      [] h[2] = "orrRegisterVector" -> {orrRegisterVector(core, inst)}
      [] h[2] = "cvtfScalarInt" -> {cvtfScalarInt(core, inst, h[3])}
      [] h[2] = "mov" -> {movGeneral(core, inst, h[3], h[4])}
      [] h[2] = "addVector" -> {addVector(core, inst)}
      [] h[2] = "andVector" -> {andVector(core, inst)}
      [] h[2] = "cmeqVec" -> {cmeqVecGeneric(core, inst, h[3])}
      [] h[2] = "addpVec" -> {addpVec(core, inst)}
      [] h[2] = "svc" -> {svc(core, inst)}
      [] h[2] = "mrs" -> {mrs(core, inst)}
      [] h[2] = "clrex" -> {clrex(core, inst)}
      [] h[2] = "msrReg" -> {msrReg(core, inst)}
      [] h[2] = "sys" -> {sys(core, inst)}
      [] h[2] = "nop" -> {nop(core, inst)}
      [] h[2] = "invalidInstructionHandler" -> {invalidInstructionHandler(core, inst)}
      [] h[2] = "UNIMPLEMENTED_FUNC" -> {UNIMPLEMENTED_FUNC(core, inst)}
      [] OTHER -> {}

Exec(core, inst) ==
    LET h == getInstructionFunc(inst.id)
    IN  ExecDP(core, inst, h) \cup ExecLoadStore(core, inst, h) \cup ExecFloat(core, inst, h) \cup ExecSIMD(core, inst, h)

\* Mutant: register 31 keeps what was written to it.
MutantRetire(core) ==
    [core EXCEPT !.PC = core.nextPC, !.numInsts = @ + 1,
                 !.interrupts = IF core.PC = core.nextPC THEN @ \cup {"DEBUG_BREAK"} ELSE @]

\* The end of step(): register 31 is cleared, and a branch to itself breaks
\* into the debugger.
Retire(core) ==
    [core EXCEPT !.GPRegs[31] = 0, !.PC = core.nextPC, !.numInsts = @ + 1,
                 !.interrupts = IF core.PC = core.nextPC THEN @ \cup {"DEBUG_BREAK"} ELSE @]

-----------------------------------------------------------------------------
VARIABLES
    program,    \* the program that runs
    core,       \* the core, struct Core and the memory it reaches
    inst        \* the instruction executed last

vars == <<program, core, inst>>

Init ==
    /\ program \in Programs
    /\ core \in Cores(program)
    /\ inst = [id |-> "NOP"]

Step ==
    /\ core.numInsts < Len(Code(program))
    /\ inst' \in Code(program)[core.numInsts + 1]
    /\ \E c \in Exec([core EXCEPT !.nextPC = (core.PC + 4) % 2^XBits, !.trap = "none"], inst') : core' = Retire(c)
    /\ UNCHANGED program

Next == Step

Spec == Init /\ [][Next]_vars
=============================================================================
