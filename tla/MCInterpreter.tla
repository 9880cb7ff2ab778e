---------------------------- MODULE MCInterpreter ---------------------------
(***************************************************************************)
(* Registers of 16 (X) and 8 (W) bits, singles of 8 bits and doubles of 16.*)
(* A program is one to two places; the cores it starts on hold boundary    *)
(* values in the registers it reads.                                       *)
(***************************************************************************)
EXTENDS InterpreterProperties, TLC, Functions

MCBreakpoints == {34, 56}
MCPrograms == {"sum", "order", "field", "product", "access", "single", "double", "convert", "vector", "system"}

-----------------------------------------------------------------------------
\* Numbers at the borders of signed and unsigned bytes, words and registers.
Edges == {0, 1, 2, 127, 128, 255, 256, 32767, 32768, 65280, 65534, 65535}
Patterns == {0, 1, 23130, 32768, 43981, 65535}       \* 0x5A5A, 0xABCD
Flags == [N : BOOLEAN, Z : BOOLEAN, C : BOOLEAN, V : BOOLEAN]
NoFlags == [N |-> FALSE, Z |-> FALSE, C |-> FALSE, V |-> FALSE]

Memory == [a \in 0 .. 175 |-> (a \div 3 + a) % 4]
Blank == [GPRegs |-> [r \in {0, 1, 2, 3, 4, 5, 30, 31} |-> 0], VRegs |-> [v \in 0 .. 3 |-> <<0, 0>>], SP |-> 48, PC |-> 32, nextPC |-> 32,
          PSTATE |-> NoFlags, TLSAddr |-> 64, gTimer |-> 65535, exclusiveAccess |-> FALSE, exclusiveAccessAddr |-> 0,
          exclusiveData0 |-> 0, exclusiveData1 |-> 0, mem |-> <<>>, interrupts |-> {}, trap |-> "none", numInsts |-> 0]
With(regs, vregs, flags) == [Blank EXCEPT !.GPRegs = regs @@ @, !.VRegs = vregs @@ @, !.PSTATE = flags]
Operands(xs, ys) == {1 :> x @@ 2 :> y @@ 3 :> 40000 @@ 0 :> 43690 : x \in xs, y \in ys}

\* Zeros, a subnormal, ordinary numbers, the largest one, infinities and NaNs.
Singles == {s * 128 + e * 16 + m : s \in 0 .. 1, e \in {0, 2, 3, 6, 7}, m \in {0, 1, 8, 15}}
\* Doubles whose products stay within TLC's integers.
Doubles == {0, 1, 5, Zero(Double, TRUE), Zero(Double, TRUE) + 3, Infinity(Double, FALSE), Infinity(Double, TRUE), generateQNaN(Double), Infinity(Double, FALSE) + 1}
Integers16 == {0, 1, 2, 3, 5, 31, 32, 33, 100, 127, 128, 200, 255, 1000, 8191, 32767, 32768, 65000, 65535}
DoubleNumbers == Doubles \cup {makeFloat(Double, s, e, m) : s \in BOOLEAN, e \in {6, 7, 8, 10, 14}, m \in {0, 512, 1024, 1536, 2047}}

MCCores(p) ==
    CASE p = "sum" -> {With(regs, <<>>, [NoFlags EXCEPT !.C = c]) : regs \in Operands(Edges, Edges), c \in BOOLEAN}
      [] p = "order" -> {With(regs, <<>>, NoFlags) : regs \in Operands(Edges, Edges)}
      [] p = "field" -> {With(regs, <<>>, NoFlags) : regs \in Operands(Patterns, {0, 3, 23130, 65535})}
      [] p = "product" -> {With(regs, <<>>, NoFlags) : regs \in Operands(Edges, Edges)}
      [] p = "access" -> {[c EXCEPT !.mem = Memory] : c \in {With(1 :> 47 @@ 2 :> 7 @@ 3 :> 65532 @@ 0 :> 45678 @@ 5 :> 54321, 0 :> <<51234, 4567>> @@ 1 :> <<65535, 43210>>, NoFlags),
                          With(1 :> 40 @@ 2 :> 0 @@ 3 :> 65533 @@ 0 :> 129 @@ 5 :> 7, 0 :> <<1, 2>>, NoFlags)}}
      [] p = "single" -> {With(<<>>, 0 :> <<43981, 7>> @@ 1 :> <<a, 0>> @@ 2 :> <<b + 256, 0>> @@ 3 :> <<48 + 8 * (a % 8), 0>>, NoFlags) : a, b \in Singles}
      [] p = "double" -> {With(<<>>, 0 :> <<43981, 7>> @@ 1 :> <<a, 0>> @@ 2 :> <<b, 0>> @@ 3 :> <<1, 0>>, NoFlags) : a, b \in Doubles}
      [] p = "convert" -> {With(1 :> x, 0 :> <<d, 9>> @@ 1 :> <<v, 5>> @@ 2 :> <<w, 0>>, NoFlags) :
                              x \in {0, 5}, d \in {0, 33000}, v \in DoubleNumbers, w \in {0, 14336}}
                          \cup {With(1 :> x, 0 :> <<d, 9>> @@ 1 :> <<v, 5>> @@ 2 :> <<20, 0>>, NoFlags) :
                              x \in Integers16, d \in {0, 127, 128, 33000}, v \in {0, 20, 1000}}
                          \cup {With(<<>>, 1 :> <<v, 5>> @@ 2 :> <<32, 0>>, NoFlags) : v \in 0 .. 255}
      [] p = "vector" -> {With(1 :> 45678, 0 :> <<1, 2>> @@ 1 :> <<a, b>> @@ 2 :> <<b, 65535>>, NoFlags) : a, b \in Patterns \cup {11}}
      [] p = "system" -> {[With(1 :> x @@ 2 :> 7, 1 :> <<39321, 12>>, flags) EXCEPT !.SP = 96] : x \in {0, 32, 256}, flags \in Flags}

-----------------------------------------------------------------------------
\* The ids of the handlers.
Ids(handlers) == {row[1] : row \in {r \in Registered : r[2] \in handlers}}
SingleIds(handlers) == {row[1] : row \in {r \in Registered : r[2] \in handlers /\ r[3] = Single}}
DoubleIds(handlers) == {row[1] : row \in {r \in Registered : r[2] \in handlers /\ r[3] = Double}}
WideIds(handlers, is64) == {row[1] : row \in {r \in Registered : r[2] \in handlers /\ r[3] = is64}}
Arithmetic == {"floatMul", "floatDiv", "floatMax", "floatMin", "floatAdd", "floatSub", "floatMulAdd"}

Sums ==
    [id : Ids({"addSubImm"}), Rd : {0, 31}, Rn : {1, 31}, imm : {0, 3}, shift12 : BOOLEAN]
    \cup [id : Ids({"addSubShiftedReg"}), Rd : {0, 31}, Rn : {1}, Rm : {2}, imm : {0, 1, 7}, shift : {LSL, LSR, ASR}]
    \cup [id : Ids({"addSubExtendedReg"}), Rd : {0, 31}, Rn : {1}, Rm : {2}, imm : {0, 2}, option : 0 .. 7]
    \cup [id : Ids({"addSubCarry"}), Rd : {0}, Rn : {1}, Rm : {2}]
    \cup [id : Ids({"condCompareReg"}), Rn : {1}, Rm : {2}, cond : {2, 3}, nzcv : {9}]
    \cup [id : Ids({"condCompareImm"}), Rn : {1}, imm : {1}, cond : {2}, nzcv : {6}]
Compares == [id : {"SUBS_32_shifted", "SUBS_64_shifted"}, Rd : {31}, Rn : {1}, Rm : {2}, imm : {0}, shift : {LSL}]
Selects == [id : {"B_cond"}, cond : 0 .. 15, off : {64, 65528}] \cup [id : Ids({"condSel"}), Rd : {0}, Rn : {1}, Rm : {3}, cond : 0 .. 15]
Fields ==
    UNION {[id : WideIds({"bitfieldMove"}, is64), Rd : {0}, Rn : {1}, imms : 0 .. Width(is64) - 1, immr : 0 .. Width(is64) - 1] : is64 \in BOOLEAN}
    \cup UNION {[id : WideIds({"extract"}, is64), Rd : {0}, Rn : {1}, Rm : {2}, imms : 0 .. Width(is64) - 1] : is64 \in BOOLEAN}
    \cup [id : {"ANDS_64_imm", "EOR_64_imm"}, Rd : {0, 31}, Rn : {1}, N : {0, 1}, imms : 0 .. 15, immr : 0 .. 15]
    \cup [id : {"ORR_32_imm", "ORR_64_imm"}, Rd : {0}, Rn : {1}, N : {0}, imms : 0 .. 14, immr : {0, 3}]
    \cup [id : Ids({"logicalShiftedReg"}), Rd : {0}, Rn : {1}, Rm : {2}, imm : {0, 3}, shift : 0 .. 3]
    \cup UNION {[id : {n \o w : w \in {"_32", "_64"}}, Rd : {0}, imm : {0, 9}, hw : {0, 1}, opc : {k}] : n \in {"MOVN"}, k \in {0}}
    \cup UNION {[id : {n \o w : w \in {"_32", "_64"}}, Rd : {0}, imm : {0, 9}, hw : {0, 1}, opc : {k}] : n \in {"MOVZ"}, k \in {2}}
    \cup UNION {[id : {n \o w : w \in {"_32", "_64"}}, Rd : {0}, imm : {0, 9}, hw : {0, 1}, opc : {k}] : n \in {"MOVK"}, k \in {3}}
    \cup [id : Ids({"shift"}), Rd : {0}, Rn : {1}, Rm : {2}]
    \cup [id : Ids({"reverseBits", "reverseBytes", "reverse16", "reverse32", "countLeadingClearBits", "countLeadingSetBits"}), Rd : {0}, Rn : {1}, Rm : {2}]
Products ==
    [id : Ids({"mulh", "multiply", "uMultiplyLong", "sMultiplyLong", "unsignedDivide", "signedDivide"}), Rd : {0}, Rn : {1}, Rm : {2}, Ra : {3}]
Accesses ==
    [id : Ids({"storeRegImm", "loadRegImm"}), Rt : {0}, Rn : {1, 31}, Rs : {4}, imm : {0, 1, 6}]
    \cup [id : Ids({"storePair", "loadPair"}), Rt : {0}, Rt2 : {1}, Rn : {31}, Rs : {4}, imm : {0, 1, 2, 3}]
    \cup [id : Ids({"storeRegOff", "loadRegOff"}), Rt : {0}, Rn : {31}, Rm : {2}, option : {2, 3, 6, 7}, S : BOOLEAN]
    \cup [id : Ids({"storeRegOff", "loadRegOff"}), Rt : {1}, Rn : {31}, Rm : {3}, option : {3, 6, 7}, S : {FALSE}]
    \cup [id : Ids({"loadRegLiteral"}), Rt : {0}, Rn : {1}, off : {0, 12, 65520}]
SingleCode == [id : SingleIds(Arithmetic \cup {"floatCompare", "floatCondSelect"}), Rd : {0}, Rn : {1}, Rm : {2}, Ra : {3}, cond : {0, 1}, nzcv : {5}]
DoubleCode == [id : DoubleIds(Arithmetic \cup {"floatCompare"}), Rd : {0}, Rn : {1}, Rm : {2}, Ra : {3}, cond : {0}, nzcv : {5}]
Conversions ==
    [id : Ids({"floatConvertToInt", "floatConvIntToFloat", "floatMove", "floatRound", "floatConvert", "floatIntMov"}), Rd : {0}, Rn : {1}]
    \cup [id : SingleIds({"floatSqrt"}), Rd : {0}, Rn : {1}]
    \cup [id : SingleIds({"fmovImm"}), Rd : {0}, imm : {0, 120, 255}]
    \cup [id : Ids({"floatCompare"}), Rn : {1}, Rm : {2}, cond : {0}, nzcv : {5}]
    \cup [id : Ids({"cvtfScalarInt"}), Rd : {0}, Rn : {2}, isDouble : {FALSE}]
Vectors ==
    [id : Ids({"addVector", "cmeqVec", "addpVec"}), Rd : {0, 1, 2}, Rn : {1}, Rm : {2}, size : 0 .. 3, Q : BOOLEAN]
    \cup [id : Ids({"orrRegisterVector", "andVector"}), Rd : {0, 1}, Rn : {1}, Rm : {2}, Q : BOOLEAN]
    \cup [id : Ids({"dupGeneral"}), Rd : {0}, Rn : {1}, imm5 : {1, 2, 4, 8}, Q : BOOLEAN]
    \cup [id : Ids({"insGeneral"}), Rd : {0}, Rn : {1}, imm5 : {1, 31, 6, 30, 12, 28, 8, 24}]
    \cup [id : Ids({"mov"}), Rd : {0}, Rn : {1}, imm5 : {1, 7, 6, 14, 12, 28, 8, 24}]
    \cup [id : Ids({"movi"}), Rd : {0}, imm : {0, 1, 3}, sh : {0, 1}, Q : BOOLEAN]
    \cup [id : Ids({"fmovVectorImmSingle"}), Rd : {0}, imm : {0, 120, 255}, Q : BOOLEAN]
System ==
    [id : {"MRS"}, Rd : {0, 31}, reg : {"TPIDR_EL0", "TPIDRRO_EL0", "CNTPCT_EL0", "DCZID_EL0", "FPCR"}]
    \cup [id : Ids({"svc", "clrex", "msrReg", "sys", "nop", "invalidInstructionHandler"}) \cup {"CRC32B", "LDPSW_offset"}]
    \cup [id : {"B_cond"}, cond : 0 .. 15, off : {0, 16}]
    \cup [id : Ids({"uncondBranchReg"}), Rn : {1, 30}]
    \cup [id : Ids({"uncondBranchImm"}), off : {0, 65520}]
    \cup [id : Ids({"compareBranch"}), Rt : {1}, off : {0, 16}]
    \cup [id : Ids({"testBitBranch"}), Rt : {1}, bit : {5, 8}, off : {16}]
    \cup [id : Ids({"PCRelative"}), Rd : {0}, imm : {0, 3, 65535}]

CodeOf == [p \in MCPrograms |->
    CASE p = "sum" -> <<Sums>>
      [] p = "order" -> <<Compares, Selects>>
      [] p = "field" -> <<Fields>>
      [] p = "product" -> <<Products>>
      [] p = "access" -> <<Accesses>>
      [] p = "single" -> <<SingleCode>>
      [] p = "double" -> <<DoubleCode>>
      [] p = "convert" -> <<Conversions>>
      [] p = "vector" -> <<Vectors>>
      [] p = "system" -> <<System>>]
MCCode(p) == CodeOf[p]
=============================================================================
