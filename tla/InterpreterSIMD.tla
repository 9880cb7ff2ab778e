--------------------------- MODULE InterpreterSIMD --------------------------
(***************************************************************************)
(* interpreter/simd.cpp and System.cpp.  inst.Q is bit 30 (128-bit form)   *)
(* and inst.imm5 the field _16_20, whose lowest set bit is the size of an  *)
(* element and whose higher bits are its index.                            *)
(***************************************************************************)
EXTENDS InterpreterFloat

\* The arrays B, H, S and D (size 0 .. 3) of the union VReg, a pair of halves.
elemNumBits(size) == ByteBits * 2^size
PerHalf(size) == 8 \div 2^size
Lane(v, size, i) == Shr(v[1 + i \div PerHalf(size)], (i % PerHalf(size)) * elemNumBits(size)) % 2^elemNumBits(size)
\* Mutant: a sum that does not fit spills into the next lane.
MutantSetLane(v, size, i, data) ==
    LET pos == (i % PerHalf(size)) * elemNumBits(size)
    IN  [v EXCEPT ![1 + i \div PerHalf(size)] = (@ - Lane(v, size, i) * 2^pos + data * 2^pos) % 2^XBits]
SetLane(v, size, i, data) ==
    LET pos == (i % PerHalf(size)) * elemNumBits(size)
        old == Lane(v, size, i)
    IN  [v EXCEPT ![1 + i \div PerHalf(size)] = @ - old * 2^pos + (data % 2^elemNumBits(size)) * 2^pos]
NumElem(inst, size) == (IF inst.Q THEN 2 ELSE 1) * PerHalf(size)

replicate64(imm, size) == imm * (bitmask(XBits) \div bitmask(elemNumBits(size)))

\* Assigns op(i) to the lanes 0 .. NumElem - 1 of Rd and keeps the others.
EachLane(core, inst, size, op(_)) ==
    LET after[n \in 0 .. NumElem(inst, size)] ==
            IF n = 0 THEN core.VRegs[inst.Rd] ELSE SetLane(after[n - 1], size, n - 1, op(n - 1))
    IN  [core EXCEPT !.VRegs[inst.Rd] = after[NumElem(inst, size)]]

\* The size stays 0 when none of the four low bits is set.
SizeOf(imm5) == IF imm5 % 16 = 0 THEN 0 ELSE CHOOSE s \in 0 .. 3 : testBit(imm5, s) /\ imm5 % 2^s = 0

dupGeneral(core, inst) == LET data(i) == core.GPRegs[inst.Rn] IN EachLane(core, inst, SizeOf(inst.imm5), data)

insGeneral(core, inst) ==
    LET size == SizeOf(inst.imm5)
    IN  [core EXCEPT !.VRegs[inst.Rd] = SetLane(@, size, Shr(inst.imm5, size + 1), core.GPRegs[inst.Rn])]

fmovVectorImmSingle(core, inst) ==
    LET imm == replicate64(ImmFloat(Single, inst.imm), 2)
    IN  [core EXCEPT !.VRegs[inst.Rd] = <<imm, IF inst.Q THEN imm ELSE 0>>]

\* ORR clears the upper half in its 64-bit form, AND keeps it.
orrRegisterVector(core, inst) ==
    LET n == core.VRegs[inst.Rn]
        m == core.VRegs[inst.Rm]
    IN  [core EXCEPT !.VRegs[inst.Rd] = <<n[1] | m[1], IF inst.Q THEN n[2] | m[2] ELSE 0>>]
andVector(core, inst) ==
    LET n == core.VRegs[inst.Rn]
        m == core.VRegs[inst.Rm]
    IN  [core EXCEPT !.VRegs[inst.Rd] = <<n[1] & m[1], IF inst.Q THEN n[2] & m[2] ELSE @[2]>>]

\* static_cast from uint64_t, int64_t, uint32_t or int32_t: the nearest float.
cvtfScalarInt(core, inst, isSigned) ==
    LET f == Format(inst.isDouble)
        bits == getReg(core, inst.Rn, f)
        int == IF isSigned THEN Signed(bits, f.bits) ELSE bits
    IN  setReg(core, inst.Rd, f, Nearest(f, int < 0, Abs(int) * 2^One(f), 1))

\* inst.imm is a byte; for 64-bit elements its eight bits stand for the bytes.
moviGeneral(core, inst, size, flags) ==
    LET imm == CASE flags = "Shifted" -> Shl(inst.imm, inst.sh * ByteBits)
                 [] flags = "ShiftingOnes" -> Shl(inst.imm, (inst.sh + 1) * ByteBits) | bitmask((inst.sh + 1) * ByteBits)
                 [] flags = "" /\ size = 3 ->
                      LET low[n \in 0 .. 8] == IF n = 0 THEN 0 ELSE low[n - 1] + (IF testBit(inst.imm, n - 1) THEN bitmask(ByteBits) * 2^((n - 1) * ByteBits) ELSE 0)
                      IN  low[8]
                 [] OTHER -> inst.imm
        data == replicate64(imm, size)
    IN  [core EXCEPT !.VRegs[inst.Rd] = <<data, IF inst.Q THEN data ELSE 0>>]

movGeneral(core, inst, is64, isSigned) ==
    LET size == IF inst.imm5 % 8 = 0 THEN 3 ELSE SizeOf(inst.imm5)
        data == Lane(core.VRegs[inst.Rn], size, Shr(inst.imm5, size + 1))
    IN  SetReg(core, inst.Rd, Sized(is64, IF isSigned THEN signExtend(data, elemNumBits(size)) ELSE data))

addVector(core, inst) ==
    LET sum(i) == Lane(core.VRegs[inst.Rn], inst.size, i) + Lane(core.VRegs[inst.Rm], inst.size, i)
    IN  EachLane(core, inst, inst.size, sum)

cmeqVecGeneric(core, inst, useZero) ==
    LET equal(i) == IF Lane(core.VRegs[inst.Rn], inst.size, i) = (IF useZero THEN 0 ELSE Lane(core.VRegs[inst.Rm], inst.size, i))
                    THEN bitmask(elemNumBits(inst.size)) ELSE 0
    IN  EachLane(core, inst, inst.size, equal)

\* Each round writes two lanes of Rd, so when Rd is also a source the later
\* rounds read what the earlier ones wrote.
addpVec(core, inst) ==
    LET half == NumElem(inst, inst.size) \div 2
        pair(v, r, i) == Lane(v[r], inst.size, 2 * i) + Lane(v[r], inst.size, 2 * i + 1)
        low(v, i) == [v EXCEPT ![inst.Rd] = SetLane(@, inst.size, i, pair(v, inst.Rn, i))]
        high(v, i) == [v EXCEPT ![inst.Rd] = SetLane(@, inst.size, i + half, pair(v, inst.Rm, i))]
        after[n \in 0 .. half] == IF n = 0 THEN core.VRegs ELSE high(low(after[n - 1], n - 1), n - 1)
    IN  [core EXCEPT !.VRegs = after[half]]

registerSIMDInstructions ==
    {<<"DUP_general", "dupGeneral">>, <<"INS_general", "insGeneral">>, <<"FMOV_vec_imm_single", "fmovVectorImmSingle">>,
     <<"MOVI_8_imm", "movi", 0, "">>, <<"MOVI_16_shifted_imm", "movi", 1, "Shifted">>, <<"MOVI_32_shifted_imm", "movi", 2, "Shifted">>,
     <<"MOVI_32_shifting_ones", "movi", 2, "ShiftingOnes">>, <<"MOVI_64_scalar", "movi", 3, "">>, <<"MOVI_64_vec", "movi", 3, "">>,
     <<"ORR_vec_reg", "orrRegisterVector">>, <<"UCVTF_scalar_int", "cvtfScalarInt", FALSE>>, <<"SCVTF_scalar_int", "cvtfScalarInt", TRUE>>,
     <<"UMOV_32", "mov", FALSE, FALSE>>, <<"UMOV_64", "mov", TRUE, FALSE>>, <<"SMOV_32", "mov", FALSE, TRUE>>, <<"SMOV_64", "mov", TRUE, TRUE>>,
     <<"ADD_vec", "addVector">>, <<"AND_vec", "andVector">>, <<"CMEQ_vec_reg", "cmeqVec", FALSE>>, <<"CMEQ_vec_zero", "cmeqVec", TRUE>>,
     <<"ADDP_vec", "addpVec">>}

-----------------------------------------------------------------------------
\* System.cpp.  trap is the handler of the kernel that the instruction calls;
\* module Scheduler models what the calls do.
svc(core, inst) == [core EXCEPT !.trap = "svc"]

\* The registers the handler knows, by name; any other reads as zero.
mrs(core, inst) ==
    CASE inst.reg \in {"TPIDR_EL0", "TPIDRRO_EL0"} -> SetReg(core, inst.Rd, core.TLSAddr)
      [] inst.reg = "CNTPCT_EL0" -> [SetReg(core, inst.Rd, core.gTimer) EXCEPT !.gTimer = (@ + 1) % 2^XBits]
      [] inst.reg = "DCZID_EL0" -> SetReg(core, inst.Rd, 16)
      [] OTHER -> SetReg(core, inst.Rd, 0)

\* msrImm, msrReg, sys, dmb and nop only log or fence.
nop(core, inst) == core
msrReg(core, inst) == core
sys(core, inst) == core
clrex(core, inst) == [core EXCEPT !.exclusiveAccess = FALSE]

registerSystemInstructions ==
    {<<"SVC", "svc">>, <<"MRS", "mrs">>, <<"CLREX", "clrex">>, <<"MSR_reg", "msrReg">>, <<"SYS", "sys">>}
    \cup {<<id, "nop">> : id \in {"MSR_imm", "HINT", "NOP", "YIELD", "WFE", "WFI", "SEV", "SEVL", "DMB", "ISB"}}
=============================================================================
